-------------------------- MODULE MCScheduleLoader --------------------------
(***************************************************************************)
(* load_schedule reads one row after the other of a CSV written for the    *)
(* days on which New York changes to summer time and back.  The unit is    *)
(* half an hour.                                                           *)
(***************************************************************************)
EXTENDS ScheduleLoader

VARIABLE row   \* the row load_schedule is at

\* Five hours behind UTC; from 2:00 of day 0 to 2:00 of day 2 one hour less.
NewYork == [std |-> -10, shift |-> 2, from |-> 14, to |-> 108]

Rows == [zone : {NewYork, Unknown}, server : {"s1"}, action : {"streaming", "party"},
         day : 0 .. 2, start : {2, 4, 5, 6, 47}, stop : {2, 4, 5, 6, 47}]

Init == row \in Rows
Next == row' \in Rows
Spec == Init /\ [][Next]_row

\* schedule_loader.py rejects a row unless its "stop_time ... must be after
\* start_time": an accepted session stops after it starts.
AcceptedStopsAfterStart == ~Rejected(row, Unknown) => StopsAfterStart(row)
=============================================================================
