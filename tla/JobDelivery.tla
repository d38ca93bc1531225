---------------------------- MODULE JobDelivery ----------------------------
(***************************************************************************)
(* What the "obs-jobs" queue promises of every message, seen from outside: *)
(* it is handed to OBSControl at most MaxDelivery times, and it leaves the *)
(* queue once - consumed, or moved to the dead-letter queue after the last *)
(* of those deliveries and never before (infra/main.bicep,                 *)
(* maxDeliveryCount; function_app.py, OBS_JOBS_MAX_DELIVERY_COUNT).        *)
(*                                                                         *)
(* ObsControl, with its invocations, locks, crashes and time-outs, is      *)
(* shown to implement this specification.                                  *)
(***************************************************************************)
EXTENDS Naturals

CONSTANTS Jobs,        \* the messages of the queue
          MaxDelivery  \* how often one message is delivered at most

VARIABLES phase,   \* where each message stands
          tries    \* how often it has been delivered
vars == <<phase, tries>>

Phases == {"waiting", "held", "done", "dead"}

Init == /\ phase = [j \in Jobs |-> "waiting"]
        /\ tries = [j \in Jobs |-> 0]

\* One more delivery of j: it is locked for the receiver.
Deliver(j) == /\ phase[j] = "waiting"
              /\ tries[j] < MaxDelivery
              /\ phase' = [phase EXCEPT ![j] = "held"]
              /\ tries' = [tries EXCEPT ![j] = @ + 1]

\* The receiver consumes j.
Finish(j) == /\ phase[j] = "held"
             /\ phase' = [phase EXCEPT ![j] = "done"]
             /\ UNCHANGED tries

\* The receiver gives j up, or disappears with it.
GiveBack(j) == /\ phase[j] = "held"
               /\ phase' = [phase EXCEPT ![j] =
                              IF tries[j] < MaxDelivery THEN "waiting" ELSE "dead"]
               /\ UNCHANGED tries

Next == \E j \in Jobs : Deliver(j) \/ Finish(j) \/ GiveBack(j)

Spec == Init /\ [][Next]_vars
=============================================================================
