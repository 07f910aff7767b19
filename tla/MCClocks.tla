-------------------------------- MODULE MCClocks --------------------------------
(***************************************************************************)
(* What the clock drives in a session, for TLC: the protocol deadlines,    *)
(* the same with a store that refuses messages and a peer that sends ahead *)
(* of a gap, and the schedule tick.  A behaviour runs one of the three;    *)
(* the others stay where they start.                                       *)
(***************************************************************************)
EXTENDS Timers, Integers

VARIABLES
    part,       \* which of them runs
    connected2, received_logon2, sent_logout2, hbi2, since_sent2, since_recv2,
    test_request_counter2, since_heard2, silent2, fired2,
    schedule, logon_schedule, now, created, checked, link, pending_logon

Faulty == INSTANCE Timers WITH
    StoreFails <- TRUE, OutOfOrder <- TRUE,
    connected <- connected2, received_logon <- received_logon2, sent_logout <- sent_logout2,
    hbi <- hbi2, since_sent <- since_sent2, since_recv <- since_recv2,
    test_request_counter <- test_request_counter2, since_heard <- since_heard2,
    silent <- silent2, fired <- fired2

faulty_vars == <<connected2, received_logon2, sent_logout2, hbi2, since_sent2, since_recv2,
                 test_request_counter2, since_heard2, silent2, fired2>>

--------------------------------------------------------------------------------
\* Schedules over days of three seconds.
Day == 3
Windows == INSTANCE Schedule WITH SECONDS_PER_DAY <- Day

Unset == -1
Times == 0 .. Day - 1
Every(days) == UNION {Windows!parse(a, b, d[1], d[2], FALSE) : a \in Times, b \in Times, d \in days}

\* Windows within a day and over midnight, within a week, across its end and
\* around it; days without times, and no window at all.  (A window that opens
\* before it closes on one day of the week is left out: in_weekly takes it for
\* the whole week.)
MCSchedules ==
    Every({<<Unset, Unset>>, <<1, 6>>, <<6, 2>>, <<7, 1>>})
    \cup {s \in Every({<<1, 1>>, <<4, 4>>}) : s.start >= s.end}
    \cup Windows!parse(Unset, Unset, 2, 6, FALSE)
    \cup Windows!parse(Unset, Unset, Unset, Unset, FALSE)
    \cup Windows!parse(0, 1, 2, Unset, FALSE)
MCLogon == {[start |-> 1, end |-> 1 , start_day |-> 3, end_day |-> 6, non_stop |-> FALSE]}

Calendar == INSTANCE SessionSchedule WITH
    SECONDS_PER_DAY <- Day, Schedules <- MCSchedules, LogonSchedules <- MCLogon, MaxTime <- 30

calendar_vars == <<schedule, logon_schedule, now, created, checked, link, pending_logon>>

--------------------------------------------------------------------------------
\* A calendar that does not run starts with one schedule, at one instant.
ClocksInit ==
    /\ part \in {"timers", "faulty", "calendar"}
    /\ Init /\ Faulty!Init /\ Calendar!Init
    /\ part # "timers" => hbi = 0
    /\ part # "faulty" => hbi2 = 0
    /\ part # "calendar" => schedule = Windows!NonStop /\ logon_schedule = schedule /\ now = 0

ClocksNext ==
    /\ UNCHANGED part
    /\ \/ part = "timers" /\ Next /\ UNCHANGED <<faulty_vars, calendar_vars>>
       \/ part = "faulty" /\ Faulty!Next /\ UNCHANGED <<vars, calendar_vars>>
       \/ part = "calendar" /\ Calendar!Next /\ UNCHANGED <<vars, faulty_vars>>

\* The fairness of Timers, for the one whose liveness is asked for: what the
\* other does, this one may do as well.
ClocksSpec ==
    /\ ClocksInit /\ [][ClocksNext]_<<part, vars, faulty_vars, calendar_vars>>
    /\ WF_faulty_vars(part = "faulty" /\ Faulty!Advance)
    /\ SF_faulty_vars(part = "faulty" /\ Faulty!OnProtocolDeadline)

--------------------------------------------------------------------------------
\* Even when the store refuses messages and the peer sends ahead of a gap, a
\* dead peer is noticed and a Logout without an answer ends the connection.
FaultyStillNotices == Faulty!DeadPeerNoticed /\ Faulty!LogoutTimesOut

\* is_in_range holds exactly between an opening of the window and its closing.
\* on_schedule_tick logs an initiator on when its logon window is open, however
\* early it connected, and starts the Logout of a session when it is closed.
WindowsHonoured == Calendar!ActiveInWindow /\ Calendar!LogonWindowHonoured

\* After a tick the numbers are those of the window the clock is in: a session
\* never goes on with the numbers of an earlier window.
NumbersAreCurrent == Calendar!NumbersAreCurrent

\* on_schedule_tick never resets the numbers within one window.
NoResetWithin == Calendar!NoResetWithin
================================================================================
