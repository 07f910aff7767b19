----------------------------- MODULE SessionSchedule -----------------------------
(***************************************************************************)
(* The schedule tick of a session (on_schedule_tick of src/session.rs),    *)
(* with the clock, the creation time of the store and the state of the     *)
(* connection it reads.  Ticks may be late: time passes between any two.   *)
(***************************************************************************)
EXTENDS Schedule

CONSTANTS
    Schedules,      \* the session schedules considered
    LogonSchedules, \* the logon windows considered
    MaxTime         \* bound on the clock

VARIABLES
    schedule, logon_schedule,
    now,            \* Utc::now()
    created,        \* store.creation_time()
    checked,        \* history: the last thing that happened was a tick, now
    link,           \* the connection: is it there, who sent Logon, is Logout sent
    pending_logon

settings == <<schedule, logon_schedule>>
vars == <<settings, now, created, checked, link, pending_logon>>

Offline == [connected |-> FALSE, sent_logon |-> FALSE, received_logon |-> FALSE,
            sent_logout |-> FALSE]
is_logged_on == link.sent_logon /\ link.received_logon

Init == /\ schedule \in Schedules
        /\ logon_schedule \in {schedule} \cup LogonSchedules
        /\ now \in 0..MaxTime
        /\ created = now
        /\ checked = FALSE
        /\ link = Offline
        /\ pending_logon = FALSE

--------------------------------------------------------------------------------
\* Time passes; a second is the resolution of parts.
Advance == /\ now < MaxTime
           /\ now' = now + 1
           /\ checked' = FALSE
           /\ UNCHANGED <<settings, created, link, pending_logon>>

\* on_schedule_tick outside session time.
TickOutside ==
    /\ ~is_in_range(schedule, now)
    /\ link' = Offline
    /\ UNCHANGED <<created, pending_logon>>

\* on_schedule_tick in an occurrence the numbers do not belong to.
TickNewSession ==
    /\ is_in_range(schedule, now)
    /\ ~is_in_same_range(schedule, now, created)
    /\ link' = Offline
    /\ created' = now
    /\ UNCHANGED pending_logon

\* Mutant: a logon that was put off is not taken up again.
MustLogOnNever == FALSE

\* The logon window closed; it opened for a logon that was put off.
MustLogOut == /\ is_logged_on /\ ~link.sent_logout
              /\ ~is_in_range(logon_schedule, now)
MustLogOn == /\ pending_logon /\ link.connected /\ ~link.sent_logon
             /\ is_in_range(logon_schedule, now)

\* on_schedule_tick in the same occurrence; a write may fail and disconnect.
TickSameSession ==
    /\ is_in_same_range(schedule, now, created)
    /\ \/ MustLogOut /\ link' \in {[link EXCEPT !.sent_logout = TRUE], Offline}
       \/ MustLogOn /\ link' \in {[link EXCEPT !.sent_logon = TRUE], Offline}
       \/ ~MustLogOut /\ ~MustLogOn /\ UNCHANGED link
    /\ pending_logon' = (pending_logon /\ ~MustLogOn)
    /\ UNCHANGED created

Tick == /\ ~schedule.non_stop
        /\ TickOutside \/ TickNewSession \/ TickSameSession
        /\ checked' = TRUE
        /\ UNCHANGED <<settings, now>>

--------------------------------------------------------------------------------
\* on_attach of an initiator: the logon is sent, or put off to a tick.
Attach ==
    /\ ~link.connected
    /\ link' = [Offline EXCEPT !.connected = TRUE,
                               !.sent_logon = is_in_range(logon_schedule, now)]
    /\ pending_logon' = (pending_logon \/ ~is_in_range(logon_schedule, now))
    /\ checked' = FALSE
    /\ UNCHANGED <<settings, now, created>>

\* The peer's Logon, a disconnect for any other reason, a reset of the store
\* by the protocol (ResetOnLogon, ResetOnDisconnect, 141=Y), a restart that
\* finds the creation time in the session file.
ReceiveLogon == /\ link.sent_logon
                /\ link' = [link EXCEPT !.received_logon = TRUE]
                /\ checked' = FALSE
                /\ UNCHANGED <<settings, now, created, pending_logon>>

Drop == /\ link.connected
        /\ link' = Offline
        /\ checked' = FALSE
        /\ UNCHANGED <<settings, now, created, pending_logon>>

StoreReset == /\ created' = now
              /\ checked' = FALSE
              /\ UNCHANGED <<settings, now, link, pending_logon>>

Restart == /\ link' = Offline
           /\ pending_logon' = FALSE
           /\ checked' = FALSE
           /\ UNCHANGED <<settings, now, created>>

Next == \/ Advance \/ Tick \/ Attach \/ ReceiveLogon \/ Drop \/ StoreReset \/ Restart

Spec == Init /\ [][Next]_vars

--------------------------------------------------------------------------------
(***************************************************************************)
(* The reference: a window opens at known instants and lasts for a known   *)
(* time.  An instant between two windows is in none; where a weekly window *)
(* closes at the second the next one opens it is in both.                  *)
(***************************************************************************)
Opens(s, t) ==
    IF s.start_day < 0 THEN tod(t) = (IF s.start = s.end THEN 0 ELSE s.start)
    ELSE weekday(t) = s.start_day /\ tod(t) = s.start

Length(s) ==
    LET day == SECONDS_PER_DAY
        span == (s.end_day - s.start_day) * day + s.end - s.start
    IN  CASE s.start_day < 0 /\ s.start = s.end -> day - 1
          [] s.start_day < 0 /\ s.start # s.end -> (s.end - s.start) % day
          [] OTHER -> IF span <= 0 THEN span + 7 * day ELSE span

OverMidnight(s) == s.start_day < 0 /\ s.start > s.end

Occurrences(s, t) == {o \in t - Length(s) .. t : Opens(s, o)}

\* is_in_range holds exactly between an opening and its closing, for windows
\* inside a day, across midnight, across the week boundary and around the
\* whole week.
ActiveInWindow ==
    ~schedule.non_stop => (is_in_range(schedule, now) <=> Occurrences(schedule, now) # {})

\* After a tick in session time the numbers belong to the current occurrence:
\* no session goes on under the numbers of an earlier one.
NumbersAreCurrent ==
    (checked /\ is_in_range(schedule, now)) =>
        Occurrences(schedule, now) \cap Occurrences(schedule, created) # {}

\* A tick never throws away the numbers of the occurrence it runs in.  (Over
\* midnight same_daily takes the closing second for another occurrence.)
NoResetWithin ==
    [][created' # created /\ Tick /\ ~OverMidnight(schedule) =>
            Occurrences(schedule, now) # Occurrences(schedule, created)]_vars

\* After a tick in session time an initiator that is connected has sent its
\* Logon if the logon window is open, even when it connected before it opened,
\* and a session that is logged on has started its Logout if it is closed.
LogonWindowHonoured ==
    (checked /\ link.connected /\ is_in_range(schedule, now)) =>
        IF is_in_range(logon_schedule, now) THEN link.sent_logon
        ELSE is_logged_on => link.sent_logout
================================================================================
