-------------------------- MODULE ScheduledMachine --------------------------
(***************************************************************************)
(* The jobs queue between LoadSchedule, which replaces its messages, and a *)
(* machine, on which OBSControl carries them out: a start puts its session *)
(* on the air, a stop closes OBS whatever it runs.  How a job is carried   *)
(* out, and what can go wrong with it, is the subject of ObsControl.       *)
(***************************************************************************)
EXTENDS LoadSchedule

VARIABLES
  onAir,     \* the sessions that have been started and not stopped since
  forsaken   \* history: those among them that a purge has left without a stop, as the
             \* schedule that was being loaded did not list them

machineVars == <<vars, onAir, forsaken>>

MachineInit == Init /\ onAir = {} /\ forsaken = {}

\* What the machine runs after a job: a start finds its own session on the air
\* when the schedule was loaded again in the middle of it, and changes nothing.
After_Toggles(job) == IF job[2] = "start" THEN SymDiff(onAir, {job[1]}) ELSE {}
After(job) == IF job[2] = "start" THEN onAir \cup {job[1]} ELSE {}

CarryOut(m) == /\ Take(m)
               /\ onAir' = After(m.job) /\ forsaken' = forsaken \cap onAir'

\* A purge for a schedule that does not list them.
Forsakes == {s \in onAir : \E r \in Runs : /\ pc[r] = "cancel" /\ pc'[r] = "send"
                                          /\ s \notin SessionsOf(text[r])}

MachineNext ==
  \/ \E m \in queue : CarryOut(m)
  \/ /\ Tick \/ Push \/ (\E m \in queue : Activate(m)) \/ (\E r \in Runs : Run(r))
     /\ UNCHANGED onAir /\ forsaken' = forsaken \cup Forsakes

MachineSpec == MachineInit /\ [][MachineNext]_machineVars

Quiet == /\ \A r \in Runs : pc[r] = "idle"
         /\ \A m \in queue : At(m.job) > now

InHours(s) == StartAt[s] <= now /\ now < StopAt[s]

\* The machine follows the schedule that was loaded last: once what is due has been
\* carried out, a session it lists is on the air in its hours and at no other
\* time, however often the schedule was changed and loaded again in the middle
\* of a session, refused, or failed to load - unless something has gone wrong
\* that a caller was told or could see (Mishaps).  Only a session whose row was taken
\* out while it was on stays on after its hours, also if the row comes back later.
FollowsSchedule ==
  Quiet /\ loaded # None /\ incidents = {} =>
    \A s \in SessionsOf(loaded) :
      /\ InHours(s) => s \in onAir
      /\ s \in onAir => InHours(s) \/ s \in forsaken

-----------------------------------------------------------------------------
(* Why it does: an inductive invariant *)

\* No two sessions meet, so that no stop closes the OBS of another session.
OneAtATime ==
  \A s, t \in Sessions :
    /\ StartAt[s] < StopAt[s]
    /\ s # t => StopAt[s] < StartAt[t] \/ StopAt[t] < StartAt[s]

\* A run is about to send the stop of s, or will report that it has failed to.
Ahead(s) ==
  \E r \in Runs : pc[r] = "send" /\ (errors[r] \/ RowsOf(text[r], s) \cap rows[r] # {})

\* Nothing due has waited for the clock.
DueNow ==
  /\ \A m \in queue : At(m.job) <= now =>
       At(m.job) = now \/ (m.job[2] = "start" /\ InHours(m.job[1]))
  /\ \A r \in Runs : \A n \in rows[r] : ~OverBy(text[r][n], now)

\* While a run purges, each message is among those it has peeked at, or its cancel
\* is going to fail.
PurgesAll ==
  \A r \in Runs : pc[r] = "cancel" =>
    (\A m \in queue : m.seq \in seqs[r]) \/ ~(seqs[r] \subseteq SeqsOf(queue))

\* The stop of s is to come.
HasStop(s) == Queued(<<s, "stop">>) # {} \/ Ahead(s)

\* What is on the air, or will be, has its stop.
StopsAhead ==
  /\ \A s \in onAir : StartAt[s] <= now
  /\ \A s \in onAir \ forsaken : HasStop(s)
  /\ \A s \in Sessions : Queued(<<s, "start">>) # {} => HasStop(s)

\* What should be on the air is, or its start is due.
OnTime(s) == InHours(s) => s \in onAir \/ Queued(<<s, "start">>) # {}

StartsBehind ==
  /\ loaded # None => \A s \in SessionsOf(loaded) : OnTime(s)
  /\ \A r \in Runs : pc[r] = "send" /\ ~errors[r] =>
       \A s \in Sessions : TriedRows(r, <<s, "start">>) # {} => OnTime(s)

AsScheduled == DueNow /\ PurgesAll /\ StopsAhead /\ StartsBehind

MachineInv ==
  /\ forsaken \subseteq onAir /\ onAir \subseteq Sessions
  /\ OneAtATime /\ incidents = {} => AsScheduled
=============================================================================
