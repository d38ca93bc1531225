--------------------------- MODULE MCLoadSchedule ---------------------------
(***************************************************************************)
(* The schedules on which TLC checks LoadSchedule, ScheduledMachine and    *)
(* ScheduleValidator: two sessions of one server, on a morning in London   *)
(* when summer time begins, their hours in UTC computed as load_schedule   *)
(* computes them.                                                          *)
(***************************************************************************)
EXTENDS ScheduleValidator, ScheduleLoader, TLC

CONSTANTS morning, evening

London == [std |-> 0, shift |-> 1, from |-> 1, to |-> 5000]

Row(start, stop) == [zone |-> London, server |-> "s1", action |-> "streaming",
                     day |-> 0, start |-> start, stop |-> stop]

\* From midnight to two o'clock, and from three to four.
RowOf == morning :> Row(0, 2) @@ evening :> Row(3, 4)

StartHours == [s \in DOMAIN RowOf |-> StartDt(RowOf[s])]
StopHours  == [s \in DOMAIN RowOf |-> StopDt(RowOf[s])]

\* current_week.csv with one of them or the other, with a mistake.
Versions == {<<evening>>, <<morning>>, <<evening, BadRow>>}

\* The runs are interchangeable.
Symmetry == Permutations(Runs)

\* Bounds.  A check counts as one of the MaxRuns runs until its OK is outdated, and while
\* it reads as one of those that are in progress side by side; the CSV changes just before
\* somebody reads it (nobody else could tell); when runs have overlapped, no more begin.
Checks  == IF check = "idle" THEN 0 ELSE 1
Reading == IF check \in {"fetch", "peek"} THEN 1 ELSE 0

WithinBounds ==
  /\ started + Checks <= MaxRuns
  /\ Cardinality({r \in Runs : pc[r] # "idle"}) + Reading <= Cardinality(Runs)

BeginsInTurn == started' = started \/ "overlap" \notin incidents

PushesAreRead ==
  csv' = csv \/ check = "fetch" \/ \E r \in Runs : pc[r] = "fetch"

BoundedSpec ==
  ValidatorInit /\ [][ValidatorNext /\ WithinBounds' /\ BeginsInTurn /\ PushesAreRead]_validatorVars
=============================================================================
