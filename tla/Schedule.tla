-------------------------------- MODULE Schedule --------------------------------
(***************************************************************************)
(* src/schedule.rs: when a session is active and which two instants belong *)
(* to the same occurrence of its window.                                   *)
(*                                                                         *)
(* An instant is a number of seconds; day 0 is a Sunday.  The zone is UTC. *)
(***************************************************************************)
EXTENDS Integers

CONSTANT SECONDS_PER_DAY    \* 86400 in the code

Unset == -1

\* Schedule; start_day and end_day are Unset for a daily window.
NonStop == [start |-> 0, end |-> 0, start_day |-> Unset, end_day |-> Unset, non_stop |-> TRUE]

\* Schedule::parse of settings that are well formed one by one: the times and
\* the days are numbers or Unset.  The result is a set: empty for an error.
parse(start, end, start_day, end_day, non_stop_setting) ==
    LET window(s, e) == [start |-> s, end |-> e, start_day |-> start_day,
                         end_day |-> end_day, non_stop |-> FALSE]
    IN  CASE (start_day >= 0) # (end_day >= 0) -> {}
          [] start # Unset /\ end # Unset -> {window(start, end)}
          [] non_stop_setting \/ start_day < 0 -> {NonStop}
          [] OTHER -> {window(0, 0)}

--------------------------------------------------------------------------------
\* parts: the time of day, the weekday (Sunday = 1) and the day of an instant.
tod(t) == t % SECONDS_PER_DAY
day_number(t) == t \div SECONDS_PER_DAY
weekday(t) == (day_number(t) % 7) + 1

in_daily(s, time) ==
    IF s.start < s.end THEN time >= s.start /\ time <= s.end
    ELSE time >= s.start \/ time <= s.end

in_weekly(s, time, day) ==
    IF s.start_day = s.end_day
    THEN day # s.start_day \/ in_daily(s, time)
    ELSE /\ IF s.start_day < s.end_day
            THEN day >= s.start_day /\ day <= s.end_day
            ELSE day >= s.start_day \/ day <= s.end_day
         /\ ~(day = s.start_day /\ time < s.start)
         /\ ~(day = s.end_day /\ time > s.end)

is_in_range(s, now) ==
    \/ s.non_stop
    \/ /\ s.start_day < 0
       /\ in_daily(s, tod(now))
    \/ /\ s.start_day >= 0
       /\ in_weekly(s, tod(now), weekday(now))

--------------------------------------------------------------------------------
\* Mutant: the part of the night before t2 is forgotten.
same_daily_without_delta(s, t1, t2) ==
    IF s.start <= s.end THEN day_number(t1) = day_number(t2)
    ELSE LET session_length == SECONDS_PER_DAY - (s.start - s.end)
             diff == t1 - t2
         IN  IF diff > 0 THEN diff < session_length ELSE -diff < session_length

\* A night lasts from start to end of the next day.
same_daily(s, t1, t2) ==
    IF s.start <= s.end THEN day_number(t1) = day_number(t2)
    ELSE LET session_length == SECONDS_PER_DAY - (s.start - s.end)
             diff == t1 - t2
             into == tod(t2) - s.start
             delta == IF into < 0 THEN SECONDS_PER_DAY + into ELSE into
         IN  IF diff > 0 THEN diff < session_length - delta ELSE -diff < session_length

\* Mutant: the hours before the opening on the first day count as the new week.
range_start_date_ignoring_time(s, now) ==
    LET opening == day_number(now) - weekday(now) + s.start_day
    IN  IF weekday(now) >= s.start_day THEN opening ELSE opening - 7

\* The day on which the current weekly window opened.
range_start_date(s, now) ==
    LET opening == day_number(now) - weekday(now) + s.start_day
    IN  IF \/ weekday(now) > s.start_day
           \/ weekday(now) = s.start_day /\ tod(now) >= s.start
        THEN opening ELSE opening - 7

\* StartDay = EndDay: the window closes and opens again on the same day.
same_weekly_sameday(s, t1, t2) ==
    LET days == day_number(t1) - day_number(t2)
        apart == IF days < 0 THEN -days ELSE days
        earlier == IF days < 0 THEN t1 ELSE t2
        later == IF days < 0 THEN t2 ELSE t1
    IN  CASE apart = 0 -> \/ weekday(t1) # s.start_day
                          \/ tod(t1) <= s.end /\ tod(t2) <= s.end
                          \/ tod(t1) >= s.start /\ tod(t2) >= s.start
          [] apart > 7 -> FALSE
          [] apart = 7 -> /\ weekday(t1) = s.start_day
                          /\ tod(earlier) >= s.start
                          /\ tod(later) <= s.end
          [] OTHER -> range_start_date(s, t1) = range_start_date(s, t2)

is_in_same_range(s, now, other) ==
    \/ s.non_stop
    \/ /\ is_in_range(s, now)
       /\ is_in_range(s, other)
       /\ \/ now = other
          \/ /\ s.start_day < 0
             /\ same_daily(s, now, other)
          \/ /\ s.start_day >= 0
             /\ s.start_day # s.end_day
             /\ range_start_date(s, now) = range_start_date(s, other)
          \/ /\ s.start_day >= 0
             /\ s.start_day = s.end_day
             /\ same_weekly_sameday(s, now, other)
================================================================================
