-------------------------- MODULE ObsControlProofs --------------------------
(***************************************************************************)
(* Proofs about ObsControl, for every set of jobs, servers and             *)
(* invocations: its type invariant and the inductive invariant IInv, and   *)
(* from it the promises about alerts and announcements and the refinement  *)
(* of JobDelivery.                                                         *)
(***************************************************************************)
EXTENDS ObsControl, TLAPS

-----------------------------------------------------------------------------
(* The shapes a step of an invocation can have *)

\* What a step of invocation i does to the queue and to the invocations.
Goes(i)   == \E c \in Calls : Advance(i, c)
Fails(i)  == Fail(i)
Ends(i)   == /\ alerted' = alerted
             /\ \/ End(i, "prepare", AfterFailure(job[i]))
                \/ \E o \in {"completed", "ignored"} : End(i, "returned", o)
Shape(i)  == pc[i] # "idle" /\ (Goes(i) \/ Fails(i) \/ Ends(i))

\* Every call of the handler goes on, fails with the log line of the alert, or
\* ends the invocation quietly.
LEMMA StepShape ==
  ASSUME NEW i \in Invocations, Step(i)
  PROVE  Shape(i)
<1>1. CASE Prepare(i)
  BY <1>1 DEF Prepare, Shape, Goes, Ends, Calls
<1>2. CASE Cleanup(i)
  BY <1>2 DEF Cleanup, Answered, Shape, Goes, Fails, Calls
<1>3. CASE Launch(i)
  BY <1>3 DEF Launch, Answered, Shape, Goes, Fails, Calls
<1>4. CASE Connect(i)
  BY <1>4 DEF Connect, Refused, NextCall, Shape, Goes, Fails, Calls
<1>5. CASE StartAction(i)
  BY <1>5 DEF StartAction, Refused, AfterStart, Shape, Goes, Fails, Calls
<1>6. CASE Verify(i)
  BY <1>6 DEF Verify, Refused, AfterStart, Shape, Goes, Fails, Calls
<1>7. CASE Publish(i)
  BY <1>7 DEF Publish, Shape, Goes, Calls
<1>8. CASE StopAction(i)
  BY <1>8 DEF StopAction, Answered, Refused, Shape, Goes, Fails, Calls
<1>9. CASE Kill(i)
  BY <1>9 DEF Kill, Answered, Shape, Goes, Fails, Calls
<1>10. CASE Return(i)
  BY <1>10 DEF Return, Shape, Ends
<1> QED
  BY <1>1, <1>2, <1>3, <1>4, <1>5, <1>6, <1>7, <1>8, <1>9, <1>10 DEF Step

-----------------------------------------------------------------------------
(* The queue part of the invariant *)

QueueType ==
  /\ status \in [Jobs -> Statuses]
  /\ tries \in [Jobs -> 0 .. MaxDelivery]
  /\ owner \in [Jobs -> Invocations \cup {None}]
  /\ pc \in [Invocations -> Calls \cup {"idle"}]
  /\ job \in [Invocations -> Jobs \cup {None}]
  /\ attempt \in [Invocations -> 0 .. MaxDelivery]
  /\ alerted \in [Jobs -> BOOLEAN]
  /\ ending \in [Jobs -> Endings]

QueueSafe == /\ OwnerAtWork /\ AtWork /\ LastDelivery /\ DeliveriesLeft
             /\ AlertOnlyWhenLost /\ RemoteDeadLetterAlerts

QueuePart == QueueType /\ QueueSafe

USE DEF QueuePart, QueueSafe

\* A message given up waits if it has deliveries left, and is dead if it has none.
LEMMA AfterFailureSplits ==
  ASSUME QueueType, NEW j \in Jobs
  PROVE  \/ AfterFailure(j) = "waiting" /\ tries[j] < MaxDelivery
         \/ AfterFailure(j) = "dead" /\ tries[j] = MaxDelivery
<1>1. tries[j] \in 0 .. MaxDelivery /\ MaxDelivery \in Nat
  BY ControlAssumption DEF QueueType
<1> QED
  BY <1>1 DEF AfterFailure

\* A message is handed out: the only step that uses up a delivery.
LEMMA DeliverKeeps ==
  ASSUME NEW i \in Invocations, NEW j \in Jobs, QueuePart, Deliver(i, j)
  PROVE  QueuePart'
<1> USE ControlAssumption DEF historyVars
<1>1. /\ tries[j] < MaxDelivery /\ owner[j] = None /\ tries[j] + 1 \in 1 .. MaxDelivery
  BY DEF Deliver, QueueType, DeliveriesLeft, OwnerAtWork
<1>2. QueueType'
  BY <1>1 DEF QueueType, Deliver, Statuses, Calls
<1>3. OwnerAtWork'
  BY <1>1 DEF QueueType, Deliver, OwnerAtWork
<1>4. AtWork'
  BY <1>1 DEF QueueType, Deliver, AtWork
<1>5. LastDelivery'
  BY <1>1 DEF QueueType, Deliver, LastDelivery, AtWork
<1>6. DeliveriesLeft'
  BY <1>1 DEF QueueType, Deliver, DeliveriesLeft
<1>7. AlertOnlyWhenLost'
  BY <1>1 DEF QueueType, Deliver, AlertOnlyWhenLost
<1>8. RemoteDeadLetterAlerts'
  BY <1>1 DEF QueueType, Deliver, RemoteDeadLetterAlerts
<1> QED
  BY <1>2, <1>3, <1>4, <1>5, <1>6, <1>7, <1>8

\* A lock runs out, under its owner or after it has disappeared.
LEMMA LockExpiresKeeps ==
  ASSUME NEW j \in Jobs, QueuePart, LockExpires(j)
  PROVE  QueuePart'
<1> USE ControlAssumption DEF hostVars
<1>1. QueueType'
  BY DEF QueueType, LockExpires, AfterFailure, Statuses, Endings
<1>2. OwnerAtWork'
  BY DEF QueueType, LockExpires, OwnerAtWork
<1>3. AtWork'
  BY DEF QueueType, LockExpires, AtWork
<1>4. LastDelivery'
  <2> SUFFICES ASSUME NEW i \in Invocations, pc[i] # "idle", attempt[i] = MaxDelivery
               PROVE  owner'[job[i]] = i \/ status'[job[i]] = "dead"
    BY DEF LastDelivery, LockExpires
  <2>1. job[i] \in Jobs /\ attempt[i] <= tries[job[i]]
    BY DEF AtWork
  <2>2. tries[job[i]] = MaxDelivery
    BY <2>1 DEF QueueType
  <2> QED
    BY <2>1, <2>2 DEF LastDelivery, LockExpires, AfterFailure, QueueType
<1>5. DeliveriesLeft'
  BY AfterFailureSplits DEF QueueType, LockExpires, DeliveriesLeft
<1>6. AlertOnlyWhenLost'
  BY DEF QueueType, LockExpires, AlertOnlyWhenLost
<1>7. RemoteDeadLetterAlerts'
  BY DEF QueueType, LockExpires, RemoteDeadLetterAlerts
<1> QED
  BY <1>1, <1>2, <1>3, <1>4, <1>5, <1>6, <1>7

\* An invocation disappears and leaves its lock behind.
LEMMA CrashKeeps ==
  ASSUME NEW i \in Invocations, QueuePart, Crash(i)
  PROVE  QueuePart'
<1> USE ControlAssumption DEF historyVars
<1>1. QueueType'
  BY DEF QueueType, Crash
<1>2. OwnerAtWork'
  BY DEF QueueType, Crash, OwnerAtWork
<1>3. AtWork'
  BY DEF QueueType, Crash, AtWork
<1>4. LastDelivery'
  BY DEF QueueType, Crash, LastDelivery, AtWork
<1>5. DeliveriesLeft' /\ AlertOnlyWhenLost' /\ RemoteDeadLetterAlerts'
  BY DEF QueueType, Crash, DeliveriesLeft, AlertOnlyWhenLost, RemoteDeadLetterAlerts
<1> QED
  BY <1>1, <1>2, <1>3, <1>4, <1>5

\* A call is answered.
LEMMA GoesKeeps ==
  ASSUME NEW i \in Invocations, QueuePart, pc[i] # "idle", Goes(i)
  PROVE  QueuePart'
<1> USE ControlAssumption DEF queueVars
<1> PICK c \in Calls : Advance(i, c)
  BY DEF Goes
<1>0. c # "idle"
  BY DEF Calls
<1>1. QueueType'
  BY DEF QueueType, Advance
<1>2. OwnerAtWork'
  BY <1>0 DEF QueueType, Advance, OwnerAtWork
<1>3. AtWork' /\ LastDelivery'
  BY DEF QueueType, Advance, AtWork, LastDelivery
<1>4. DeliveriesLeft' /\ AlertOnlyWhenLost' /\ RemoteDeadLetterAlerts'
  BY DEF QueueType, Advance, DeliveriesLeft, AlertOnlyWhenLost, RemoteDeadLetterAlerts
<1> QED
  BY <1>1, <1>2, <1>3, <1>4

\* An invocation ends, whatever becomes of its message: all but the alerts.
LEMMA EndKeeps ==
  ASSUME NEW i \in Invocations, QueuePart, pc[i] # "idle",
         NEW how \in Endings, NEW outcome, End(i, how, outcome),
         outcome \in {"completed", "ignored"} \/ outcome = AfterFailure(job[i]),
         alerted' \in [Jobs -> BOOLEAN]
  PROVE  QueueType' /\ OwnerAtWork' /\ AtWork' /\ LastDelivery' /\ DeliveriesLeft'
<1> USE ControlAssumption
<1>0. job[i] \in Jobs
  BY DEF AtWork
<1>1. QueueType'
  <2>1. outcome \in Statuses
    <3>1. AfterFailure(job[i]) \in {"waiting", "dead"}
      BY <1>0, AfterFailureSplits
    <3> QED
      BY <3>1 DEF Statuses
  <2>2. pc' \in [Invocations -> Calls \cup {"idle"}] /\ job' \in [Invocations -> Jobs \cup {None}]
    BY <1>0 DEF QueueType, End
  <2>3. attempt' \in [Invocations -> 0 .. MaxDelivery] /\ tries' \in [Jobs -> 0 .. MaxDelivery]
    BY DEF QueueType, End
  <2>4. /\ status' \in [Jobs -> Statuses]
        /\ owner' \in [Jobs -> Invocations \cup {None}]
        /\ ending' \in [Jobs -> Endings]
    <3>1. CASE owner[job[i]] = i
      <4>1. /\ status' = [status EXCEPT ![job[i]] = outcome]
            /\ owner' = [owner EXCEPT ![job[i]] = None]
            /\ ending' = [ending EXCEPT ![job[i]] = how]
        BY <3>1 DEF End
      <4>2. status' \in [Jobs -> Statuses]
        BY <4>1, <2>1 DEF QueueType
      <4>3. owner' \in [Jobs -> Invocations \cup {None}]
        BY <4>1 DEF QueueType
      <4>4. ending' \in [Jobs -> Endings]
        BY <4>1 DEF QueueType
      <4> QED
        BY <4>2, <4>3, <4>4
    <3>2. CASE owner[job[i]] # i
      BY <3>2 DEF QueueType, End
    <3> QED
      BY <3>1, <3>2
  <2> QED
    BY <2>2, <2>3, <2>4 DEF QueueType
<1>2. OwnerAtWork'
  BY <1>0 DEF QueueType, End, OwnerAtWork
<1>3. AtWork'
  BY <1>0 DEF QueueType, End, AtWork
<1>4. LastDelivery'
  BY <1>0 DEF QueueType, End, LastDelivery, AtWork, OwnerAtWork
<1>5. DeliveriesLeft'
  BY <1>0, AfterFailureSplits DEF QueueType, End, DeliveriesLeft
<1> QED
  BY <1>1, <1>2, <1>3, <1>4, <1>5

\* A call fails: the alert is raised exactly when the message dies with it.
LEMMA FailKeeps ==
  ASSUME NEW i \in Invocations, QueuePart, pc[i] # "idle", Fail(i)
  PROVE  QueuePart'
<1> USE ControlAssumption
<1>0. job[i] \in Jobs /\ attempt[i] <= tries[job[i]] /\ tries[job[i]] \in 0 .. MaxDelivery
  BY DEF AtWork, QueueType
<1>1. QueueType' /\ OwnerAtWork' /\ AtWork' /\ LastDelivery' /\ DeliveriesLeft'
  <2>1. alerted' \in [Jobs -> BOOLEAN]
    BY <1>0 DEF Fail, QueueType, IsFinalAttempt
  <2>2. "remote" \in Endings /\ End(i, "remote", AfterFailure(job[i]))
    BY DEF Fail, Endings
  <2> QED
    BY <2>1, <2>2, EndKeeps
<1>2. AlertOnlyWhenLost'
  <2>1. IsFinalAttempt(i) => attempt[i] = MaxDelivery /\ tries[job[i]] = MaxDelivery
    <3>1. attempt[i] \in 0 .. MaxDelivery /\ MaxDelivery \in Nat
      BY DEF QueueType
    <3> QED
      BY <3>1, <1>0 DEF IsFinalAttempt
  <2>2. IsFinalAttempt(i) => status'[job[i]] = "dead"
    BY <1>0, <2>1 DEF Fail, End, AfterFailure, LastDelivery, QueueType
  <2>3. \A j \in Jobs : status[j] = "dead" => status'[j] = "dead"
    BY <1>0 DEF Fail, End, OwnerAtWork, QueueType
  <2>4. \A j \in Jobs : alerted'[j] => alerted[j] \/ (j = job[i] /\ IsFinalAttempt(i))
    <3>1. alerted' = [alerted EXCEPT ![job[i]] = alerted[job[i]] \/ IsFinalAttempt(i)]
      BY DEF Fail
    <3>2. alerted \in [Jobs -> BOOLEAN]
      BY DEF QueueType
    <3> QED
      BY <1>0, <3>1, <3>2, Zenon
  <2>5. tries' = tries
    BY DEF Fail, End
  <2> QED
    BY <1>0, <2>1, <2>2, <2>3, <2>4, <2>5 DEF AlertOnlyWhenLost
<1>3. RemoteDeadLetterAlerts'
  <2> SUFFICES ASSUME NEW j \in Jobs, status'[j] = "dead", ending'[j] = "remote"
               PROVE  alerted'[j]
    BY DEF RemoteDeadLetterAlerts
  <2>1. CASE j = job[i] /\ owner[j] = i
    <3>1. attempt[i] = tries[j]
      BY <2>1 DEF OwnerAtWork
    <3>2. tries[j] = MaxDelivery
      <4>1. status'[j] = AfterFailure(j)
        BY <2>1, <1>0 DEF Fail, End, QueueType
      <4> QED
        BY <4>1, AfterFailureSplits
    <3> QED
      BY <2>1, <1>0, <3>1, <3>2 DEF Fail, IsFinalAttempt, QueueType
  <2>2. CASE ~(j = job[i] /\ owner[j] = i)
    <3>1. status[j] = "dead" /\ ending[j] = "remote"
      BY <2>2, <1>0 DEF Fail, End, QueueType
    <3>2. alerted[j]
      BY <3>1 DEF RemoteDeadLetterAlerts
    <3> QED
      BY <3>2, <1>0 DEF Fail, QueueType
  <2> QED
    BY <2>1, <2>2
<1> QED
  BY <1>1, <1>2, <1>3

\* An invocation ends without the log line of the alert.
LEMMA EndsKeeps ==
  ASSUME NEW i \in Invocations, QueuePart, pc[i] # "idle", Ends(i)
  PROVE  QueuePart'
<1> USE ControlAssumption
<1>0. job[i] \in Jobs
  BY DEF AtWork
<1>1. PICK how \in {"prepare", "returned"}, outcome \in Statuses :
        /\ End(i, how, outcome)
        /\ outcome \in {"completed", "ignored"} \/ outcome = AfterFailure(job[i])
  BY DEF Ends, AfterFailure, Statuses
<1>2. alerted' = alerted
  BY DEF Ends
<1>3. QueueType' /\ OwnerAtWork' /\ AtWork' /\ LastDelivery' /\ DeliveriesLeft'
  <2>1. how \in Endings /\ alerted' \in [Jobs -> BOOLEAN]
    BY <1>2 DEF Endings, QueueType
  <2> QED
    BY <2>1, <1>1, EndKeeps
<1>4. AlertOnlyWhenLost'
  <2>1. \A j \in Jobs : status[j] = "dead" => status'[j] = "dead"
    BY <1>0, <1>1 DEF End, OwnerAtWork, QueueType
  <2> QED
    BY <2>1, <1>1, <1>2 DEF AlertOnlyWhenLost, End
<1>5. RemoteDeadLetterAlerts'
  BY <1>0, <1>1, <1>2 DEF RemoteDeadLetterAlerts, End, QueueType
<1> QED
  BY <1>3, <1>4, <1>5

\* Each step of the system keeps the queue part.
LEMMA QueueKeeps ==
  ASSUME QueuePart, [Next]_vars
  PROVE  QueuePart'
<1>1. ASSUME UNCHANGED <<queueVars, hostVars, alerted, ending>>
      PROVE  QueuePart'
  BY <1>1 DEF queueVars, hostVars, QueueType, OwnerAtWork, AtWork, LastDelivery,
       DeliveriesLeft, AlertOnlyWhenLost, RemoteDeadLetterAlerts
<1>2. CASE Tick \/ (\E s \in Servers : Machine(s)) \/ UNCHANGED vars
  BY <1>1, <1>2 DEF Tick, Machine, ObsUp, OutputComesUp, OutputEnds, ObsExit, ObsCrash, vars, historyVars
<1>3. ASSUME NEW i \in Invocations, Step(i)
      PROVE  QueuePart'
  BY <1>3, StepShape, GoesKeeps, FailKeeps, EndsKeeps DEF Shape, Fails
<1> QED
  BY <1>2, <1>3, DeliverKeeps, LockExpiresKeeps, CrashKeeps DEF Next

-----------------------------------------------------------------------------
(* The types of the machines and of the histories *)

MachineType ==
  /\ now \in 0 .. Horizon
  /\ obs \in [Servers -> ObsStates]
  /\ sentinel \in [Servers -> BOOLEAN]
  /\ out \in [Servers -> SUBSET Actions]
  /\ pending \in [Servers -> SUBSET Actions]
  /\ finishing \in [Servers -> SUBSET Actions]
  /\ crashes \in 0 .. MaxObsCrashes
  /\ lost \in [Jobs -> BOOLEAN]
  /\ checked \in [Jobs -> BOOLEAN]
  /\ live \in [Jobs -> BOOLEAN]
  /\ announced \in [Jobs -> Nat]

\* An invocation at work has a message with a well-formed body.
LEMMA BodyType ==
  ASSUME QueuePart, NEW i \in Invocations, pc[i] # "idle"
  PROVE  job[i] \in Jobs /\ Server(i) \in Servers /\ Action(i) \in Actions
<1>1. job[i] \in Jobs
  BY DEF AtWork
<1> QED
  BY <1>1, ControlAssumption DEF Server, Action

\* The steps of an invocation keep these types.
LEMMA MachineTypeStep ==
  ASSUME QueuePart, MachineType, NEW i \in Invocations, Step(i)
  PROVE  MachineType'
<1> USE ControlAssumption DEF machineVars
<1>0. pc[i] # "idle"
  BY StepShape DEF Shape
<1>1. job[i] \in Jobs /\ Server(i) \in Servers /\ Action(i) \in Actions
  BY <1>0, BodyType
<1>2. now' = now /\ crashes' = crashes /\ lost' = lost
  BY StepShape DEF Shape, Goes, Fails, Ends, Fail, Advance, End
<1>3. CASE Prepare(i)
  BY <1>2, <1>3 DEF Prepare, MachineType
<1>4. CASE Cleanup(i)
  BY <1>2, <1>4 DEF Cleanup, MachineType
<1>5. CASE Launch(i)
  <2>1. LaunchFlags(i) \in SUBSET Actions
    BY <1>1 DEF LaunchFlags
  <2>2. UNCHANGED <<out, finishing, crashes, checked, live, announced>>
    BY <1>5 DEF Launch
  <2>3. obs' \in [Servers -> ObsStates]
    BY <1>5 DEF Launch, LaunchOBS, MachineType, ObsStates
  <2>4. pending' \in [Servers -> SUBSET Actions]
    BY <1>5, <2>1 DEF Launch, LaunchOBS, MachineType
  <2>5. \/ sentinel' = sentinel
        \/ sentinel' = [sentinel EXCEPT ![Server(i)] = TRUE]
    BY <1>5 DEF Launch, LaunchOBS
  <2>6. sentinel' \in [Servers -> BOOLEAN]
    BY <2>5 DEF MachineType
  <2> QED
    BY <1>2, <2>2, <2>3, <2>4, <2>6 DEF MachineType
<1>6. CASE Connect(i)
  BY <1>2, <1>6 DEF Connect, Refused, MachineType
<1>7. CASE StartAction(i)
  <2>1. /\ UNCHANGED <<obs, sentinel, out, finishing, live, announced>>
        /\ \/ pending' = pending
           \/ pending' = [pending EXCEPT ![Server(i)] = @ \cup {Action(i)}]
        /\ \/ checked' = checked
           \/ checked' = [checked EXCEPT ![job[i]] = TRUE]
    BY <1>7 DEF StartAction, Refused
  <2>2. pending' \in [Servers -> SUBSET Actions]
    BY <2>1, <1>1 DEF MachineType
  <2>3. checked' \in [Jobs -> BOOLEAN]
    BY <2>1 DEF MachineType
  <2> QED
    BY <1>2, <2>1, <2>2, <2>3 DEF MachineType
<1>8. CASE Verify(i)
  <2>1. /\ UNCHANGED <<obs, sentinel, out, pending, finishing, announced>>
        /\ \/ UNCHANGED <<checked, live>>
           \/ /\ checked' = [checked EXCEPT ![job[i]] = TRUE]
              /\ live' = [live EXCEPT ![job[i]] = @ \/ (Action(i) \in out[Server(i)])]
    BY <1>8 DEF Verify, Refused
  <2>2. checked' \in [Jobs -> BOOLEAN]
    BY <2>1 DEF MachineType
  <2>3. live' \in [Jobs -> BOOLEAN]
    BY <2>1, <1>1, Zenon DEF MachineType
  <2> QED
    BY <1>2, <2>1, <2>2, <2>3 DEF MachineType
<1>9. CASE Publish(i)
  BY <1>1, <1>2, <1>9 DEF Publish, MachineType
<1>10. CASE StopAction(i)
  <2>1. /\ UNCHANGED <<obs, sentinel, pending, checked, live, announced>>
        /\ \/ UNCHANGED <<out, finishing>>
           \/ /\ out' = [out EXCEPT ![Server(i)] = @ \ {Action(i)}]
              /\ finishing' = [finishing EXCEPT ![Server(i)] =
                                 @ \cup (out[Server(i)] \cap {Action(i)})]
    BY <1>10 DEF StopAction, Refused
  <2>2. out' \in [Servers -> SUBSET Actions]
    BY <2>1, <1>1 DEF MachineType
  <2>3. finishing' \in [Servers -> SUBSET Actions]
    BY <2>1, <1>1 DEF MachineType
  <2> QED
    BY <1>2, <2>1, <2>2, <2>3 DEF MachineType
<1>11. CASE Kill(i)
  BY <1>1, <1>2, <1>11 DEF Kill, CloseOBS, MachineType, ObsStates
<1>12. CASE Return(i)
  BY <1>2, <1>12 DEF Return, MachineType
<1> QED
  BY <1>3, <1>4, <1>5, <1>6, <1>7, <1>8, <1>9, <1>10, <1>11, <1>12 DEF Step

\* So does every step of the system.
LEMMA MachineTypeKeeps ==
  ASSUME QueuePart, MachineType, [Next]_vars
  PROVE  MachineType'
<1> USE ControlAssumption DEF MachineType, machineVars, historyVars
<1>1. CASE Tick
  BY <1>1 DEF Tick
<1>2. ASSUME NEW i \in Invocations, NEW j \in Jobs, Deliver(i, j)
      PROVE  MachineType'
  BY <1>2 DEF Deliver
<1>3. ASSUME NEW j \in Jobs, LockExpires(j)
      PROVE  MachineType'
  BY <1>3 DEF LockExpires
<1>4. ASSUME NEW i \in Invocations, Crash(i)
      PROVE  MachineType'
  BY <1>4 DEF Crash
<1>5. ASSUME NEW s \in Servers, Machine(s)
      PROVE  MachineType'
  <2>1. CASE ObsUp(s)
    BY <2>1 DEF ObsUp, ObsStates
  <2>2. CASE OutputComesUp(s)
    BY <2>2 DEF OutputComesUp
  <2>3. CASE OutputEnds(s)
    BY <2>3 DEF OutputEnds
  <2>4. CASE ObsExit(s)
    BY <2>4 DEF ObsExit, ObsStates
  <2>5. CASE ObsCrash(s)
    BY <2>5 DEF ObsCrash, ObsStates
  <2> QED
    BY <1>5, <2>1, <2>2, <2>3, <2>4, <2>5 DEF Machine
<1>6. CASE UNCHANGED vars
  BY <1>6 DEF vars
<1> QED
  BY <1>1, <1>2, <1>3, <1>4, <1>5, <1>6, MachineTypeStep DEF Next

-----------------------------------------------------------------------------
(* What an invocation has seen, and what a job is reported to be *)

HistoryInv == CallsInPlace /\ SuccessIsChecked

\* The history of what was seen on the air only grows.
LEMMA LiveGrows ==
  ASSUME QueuePart, MachineType, [Next]_vars, NEW j \in Jobs, live[j]
  PROVE  live'[j]
<1>1. ASSUME NEW i \in Invocations, Step(i)
      PROVE  live'[j]
  <2>1. CASE Verify(i)
    <3>1. \/ live' = live
          \/ live' = [live EXCEPT ![job[i]] = @ \/ (Action(i) \in out[Server(i)])]
      BY <2>1 DEF Verify, Refused
    <3> QED
      BY <3>1, Zenon DEF MachineType
  <2>2. CASE UNCHANGED live
    BY <2>2
  <2> QED
    BY <1>1, <2>1, <2>2
       DEF Step, Prepare, Cleanup, Launch, Connect, StartAction, Refused, Publish, StopAction,
           Kill, Return
<1>2. ASSUME NEW s \in Servers, Machine(s)
      PROVE  live' = live
  BY <1>2 DEF Machine, ObsUp, OutputComesUp, OutputEnds, ObsExit, ObsCrash, historyVars
<1> QED
  BY <1>1, <1>2 DEF Next, vars, historyVars, Tick, Deliver, LockExpires, Crash

\* So does the history of what was checked.
LEMMA CheckedGrows ==
  ASSUME QueuePart, MachineType, [Next]_vars, NEW j \in Jobs, checked[j]
  PROVE  checked'[j]
<1>1. ASSUME NEW i \in Invocations, Step(i)
      PROVE  checked'[j]
  <2>1. \/ checked' = checked
        \/ checked' = [checked EXCEPT ![job[i]] = TRUE]
    BY <1>1 DEF Step, Prepare, Cleanup, Launch, Connect, StartAction, Verify, Refused, Publish,
         StopAction, Kill, Return
  <2> QED
    BY <2>1 DEF MachineType
<1>2. ASSUME NEW s \in Servers, Machine(s)
      PROVE  checked' = checked
  BY <1>2 DEF Machine, ObsUp, OutputComesUp, OutputEnds, ObsExit, ObsCrash, historyVars
<1> QED
  BY <1>1, <1>2 DEF Next, vars, historyVars, Tick, Deliver, LockExpires, Crash

\* An invocation that does not move stays where it may be.
LEMMA StaysInPlace ==
  ASSUME QueuePart, MachineType, [Next]_vars, NEW k \in Invocations, InPlace(k),
         pc'[k] = pc[k], job'[k] = job[k]
  PROVE  InPlace(k)'
<1>1. CASE pc[k] = "idle"
  BY <1>1 DEF InPlace
<1>2. CASE pc[k] # "idle"
  <2>1. job[k] \in Jobs
    BY <1>2 DEF QueuePart, QueueSafe, AtWork
  <2>2. checked[job[k]] => checked'[job[k]]
    BY <2>1, CheckedGrows
  <2> QED
    BY <2>2 DEF InPlace, Command, Action, Server
<1> QED
  BY <1>1, <1>2

\* The call an invocation goes on to is one its command has.
LEMMA MovesInPlace ==
  ASSUME QueuePart, MachineType, NEW i \in Invocations, InPlace(i), Step(i)
  PROVE  InPlace(i)'
<1>0. /\ pc[i] # "idle"
      /\ pc \in [Invocations -> Calls \cup {"idle"}]
  BY StepShape DEF Shape, QueuePart, QueueType
<1>1. job[i] \in Jobs /\ Command(i) \in Commands /\ Action(i) \in Actions
  BY <1>0, BodyType, ControlAssumption DEF Command
<1>2. CASE pc'[i] = "idle"
  BY <1>2 DEF InPlace
<1>3. ASSUME NEW c \in Calls, Advance(i, c),
             c \in {"cleanup", "launch", "start_action", "verify", "publish"}
                => Command(i) = "start",
             c \in {"stop_action", "kill"} => Command(i) = "stop",
             c = "start_action" => ~Scene[Server(i)],
             c = "publish" => Action(i) = "streaming",
             c \in {"publish", "return"} /\ Command(i) = "start" => checked'[job[i]]
      PROVE  InPlace(i)'
  BY <1>0, <1>3 DEF Advance, InPlace, Command, Action, Server
<1>4. Fail(i) => pc'[i] = "idle"
  BY <1>0 DEF Fail, End
<1>5. CASE Prepare(i)
  <2>1. CASE Advance(i, IF Command(i) = "start" THEN "cleanup" ELSE "connect")
    BY <2>1, <1>1, <1>3 DEF Calls, Commands
  <2> QED
    BY <1>0, <1>2, <1>5, <2>1 DEF Prepare, End
<1>6. CASE Cleanup(i)
  BY <1>2, <1>3, <1>4, <1>6 DEF Cleanup, Answered, InPlace, Calls
<1>7. CASE Launch(i)
  BY <1>2, <1>3, <1>4, <1>7 DEF Launch, Answered, InPlace, Calls
<1>8. CASE Connect(i)
  <2>1. CASE Advance(i, NextCall(i))
    BY <2>1, <1>1, <1>3 DEF NextCall, Calls, Commands
  <2> QED
    BY <1>2, <1>4, <1>8, <2>1 DEF Connect, Refused
<1>9. CASE StartAction(i)
  <2>1. CASE Advance(i, AfterStart(i)) /\ checked' = [checked EXCEPT ![job[i]] = TRUE]
    <3>1. checked'[job[i]]
      BY <2>1, <1>1 DEF MachineType
    <3> QED
      BY <2>1, <3>1, <1>3, <1>9 DEF StartAction, AfterStart, InPlace, Calls
  <2> QED
    BY <1>2, <1>4, <1>9, <2>1 DEF StartAction, Refused
<1>10. CASE Verify(i)
  <2>1. CASE Advance(i, AfterStart(i)) /\ checked' = [checked EXCEPT ![job[i]] = TRUE]
    <3>1. checked'[job[i]]
      BY <2>1, <1>1 DEF MachineType
    <3> QED
      BY <2>1, <3>1, <1>3, <1>10 DEF Verify, AfterStart, InPlace, Calls
  <2> QED
    BY <1>2, <1>4, <1>10, <2>1 DEF Verify, Refused
<1>11. CASE Publish(i)
  BY <1>3, <1>11 DEF Publish, InPlace, Calls
<1>12. CASE StopAction(i)
  BY <1>2, <1>3, <1>4, <1>12 DEF StopAction, Answered, Refused, InPlace, Calls
<1>13. CASE Kill(i)
  BY <1>1, <1>2, <1>3, <1>4, <1>13 DEF Kill, Answered, InPlace, Calls
<1>14. CASE Return(i)
  BY <1>0, <1>2, <1>14 DEF Return, End
<1> QED
  BY <1>5, <1>6, <1>7, <1>8, <1>9, <1>10, <1>11, <1>12, <1>13, <1>14 DEF Step

\* Only Step(i), Deliver(i, _) and Crash(i) move invocation i.
LEMMA CallsInPlaceKeeps ==
  ASSUME QueuePart, MachineType, CallsInPlace, [Next]_vars
  PROVE  CallsInPlace'
<1> SUFFICES ASSUME NEW k \in Invocations
             PROVE  InPlace(k)'
  BY DEF CallsInPlace
<1>0. InPlace(k) /\ pc \in [Invocations -> Calls \cup {"idle"}]
              /\ job \in [Invocations -> Jobs \cup {None}]
  BY DEF CallsInPlace, QueuePart, QueueType
<1>1. CASE pc'[k] = pc[k] /\ job'[k] = job[k]
  BY <1>0, <1>1, StaysInPlace
<1>2. CASE pc'[k] \in {"idle", "prepare"}
  BY <1>2 DEF InPlace
<1>3. CASE Step(k)
  BY <1>0, <1>3, MovesInPlace
<1>4. ASSUME NEW i \in Invocations \ {k}, Step(i)
      PROVE  pc'[k] = pc[k] /\ job'[k] = job[k]
  BY <1>0, <1>4, StepShape DEF Shape, Goes, Fails, Ends, Fail, Advance, End
<1>5. ASSUME NEW i \in Invocations, Crash(i)
      PROVE  pc'[k] = "idle" \/ (pc'[k] = pc[k] /\ job'[k] = job[k])
  BY <1>0, <1>5 DEF Crash
<1>6. ASSUME NEW i \in Invocations, NEW j \in Jobs, Deliver(i, j)
      PROVE  pc'[k] = "prepare" \/ (pc'[k] = pc[k] /\ job'[k] = job[k])
  BY <1>0, <1>6 DEF Deliver
<1>7. ASSUME NEW s \in Servers, Machine(s)
      PROVE  UNCHANGED hostVars
  BY <1>7 DEF Machine, ObsUp, OutputComesUp, OutputEnds, ObsExit, ObsCrash
<1>8. CASE UNCHANGED hostVars
  BY <1>1, <1>8 DEF hostVars
<1> QED
  BY <1>1, <1>2, <1>3, <1>4, <1>5, <1>6, <1>7, <1>8 DEF Next, Tick, LockExpires, vars

\* An announcement is a call of publish_stream_started.
LEMMA AnnouncedAtPublish ==
  ASSUME MachineType, [Next]_vars, NEW j \in Jobs, announced'[j] # announced[j]
  PROVE  \E i \in Invocations : Publish(i) /\ job[i] = j /\ pc[i] = "publish"
<1>1. PICK i \in Invocations : Publish(i)
  <2>1. ASSUME NEW i \in Invocations, Step(i), ~Publish(i)
        PROVE  announced' = announced
    BY <2>1 DEF Step, Prepare, Cleanup, Launch, Connect, StartAction, Verify, Refused,
         StopAction, Kill, Return
  <2>2. ASSUME NEW s \in Servers, Machine(s)
        PROVE  announced' = announced
    BY <2>2 DEF Machine, ObsUp, OutputComesUp, OutputEnds, ObsExit, ObsCrash, historyVars
  <2> QED
    BY <2>1, <2>2 DEF Next, vars, historyVars, Tick, Deliver, LockExpires, Crash
<1>2. job[i] = j /\ pc[i] = "publish"
  BY <1>1 DEF Publish, MachineType
<1> QED
  BY <1>1, <1>2

\* It is made for a streaming start that was checked.
LEMMA PublishedWhenChecked ==
  ASSUME QueuePart, MachineType, CallsInPlace, [Next]_vars,
         NEW j \in Jobs, announced'[j] # announced[j]
  PROVE  checked[j] /\ j \in Starts /\ Body[j].action = "streaming"
BY AnnouncedAtPublish DEF CallsInPlace, InPlace, Command, Action, Starts

\* A job is consumed as a success by the handler's return, after its last check.
LEMMA CompletedWhenChecked ==
  ASSUME QueuePart, MachineType, CallsInPlace, [Next]_vars,
         NEW j \in Starts, status'[j] = "completed", status[j] # "completed"
  PROVE  checked[j]
<1>0. j \in Jobs /\ status \in [Jobs -> Statuses]
  BY DEF Starts, QueuePart, QueueType
<1>1. PICK i \in Invocations : Return(i)
  <2>1. ASSUME NEW i \in Invocations, Step(i), ~Return(i)
        PROVE  status'[j] # "completed"
    <3>1. CASE Advance(i, pc'[i]) \/ UNCHANGED status
      BY <3>1, <1>0 DEF Advance, queueVars
    <3>2. CASE \E how \in Endings, o \in {AfterFailure(job[i]), "ignored"} : End(i, how, o)
      BY <3>2, <1>0 DEF End, AfterFailure
    <3>3. Fail(i) => \E how \in Endings, o \in {AfterFailure(job[i]), "ignored"} : End(i, how, o)
      BY DEF Fail, Endings
    <3>4. ASSUME NEW c \in Calls, Advance(i, c)
          PROVE  status' = status
      BY <3>4 DEF Advance, queueVars
    <3>5. Prepare(i) => \/ \E c \in Calls : Advance(i, c)
                        \/ \E how \in Endings, o \in {AfterFailure(job[i]), "ignored"} :
                              End(i, how, o)
      BY DEF Prepare, Endings, Calls
    <3>6. Step(i) /\ ~Return(i) /\ ~Prepare(i) => Fails(i) \/ \E c \in Calls : Advance(i, c)
      BY DEF Step, Cleanup, Launch, Connect, StartAction, Verify, Refused, Publish,
           StopAction, Kill, Answered, Fails, Calls, NextCall, AfterStart
    <3> QED
      BY <2>1, <3>1, <3>2, <3>3, <3>4, <3>5, <3>6 DEF Fails
  <2>2. ASSUME NEW s \in Servers, Machine(s)
        PROVE  status' = status
    BY <2>2 DEF Machine, ObsUp, OutputComesUp, OutputEnds, ObsExit, ObsCrash, queueVars
  <2>3. ASSUME NEW i \in Invocations, NEW k \in Jobs, Deliver(i, k)
        PROVE  status'[j] # "completed"
    BY <2>3, <1>0 DEF Deliver
  <2>4. ASSUME NEW k \in Jobs, LockExpires(k)
        PROVE  status'[j] # "completed"
    BY <2>4, <1>0 DEF LockExpires, AfterFailure
  <2> QED
    BY <2>1, <2>2, <2>3, <2>4 DEF Next, vars, queueVars, Tick, Crash
<1>2. job[i] = j /\ InPlace(i) /\ pc[i] = "return"
  BY <1>0, <1>1 DEF Return, End, CallsInPlace, QueueType
<1> QED
  BY <1>2 DEF InPlace, Command, Starts

\* Each step of the system keeps SuccessIsChecked.
LEMMA SuccessIsCheckedKeeps ==
  ASSUME QueuePart, MachineType, CallsInPlace, SuccessIsChecked, [Next]_vars
  PROVE  SuccessIsChecked'
<1> SUFFICES ASSUME NEW j \in Jobs
             PROVE  /\ j \in Starts /\ status'[j] = "completed" => checked'[j]
                    /\ announced'[j] > 0
                         => checked'[j] /\ j \in Starts /\ Body[j].action = "streaming"
  BY DEF SuccessIsChecked, Starts
<1>1. checked[j] => checked'[j]
  BY CheckedGrows
<1>2. j \in Starts /\ status'[j] = "completed" => checked[j]
  BY CompletedWhenChecked DEF SuccessIsChecked
<1>3. announced'[j] > 0 => checked[j] /\ j \in Starts /\ Body[j].action = "streaming"
  BY PublishedWhenChecked DEF SuccessIsChecked
<1> QED
  BY <1>1, <1>2, <1>3

-----------------------------------------------------------------------------
(* How often a stream is announced *)

\* A lock that never expired is held to the end, and the announcement is the last
\* thing that happens under it.
LEMMA OnceKeeps ==
  ASSUME QueuePart, MachineType, CallsInPlace, OnceInv, [Next]_vars
  PROVE  OnceInv'
<1> USE DEF OnceInv, HoldsItsLock, AnnouncedLast, AnnouncedOnce
<1>0. /\ status \in [Jobs -> Statuses]
      /\ owner \in [Jobs -> Invocations \cup {None}]
      /\ pc \in [Invocations -> Calls \cup {"idle"}]
      /\ job \in [Invocations -> Jobs \cup {None}]
      /\ lost \in [Jobs -> BOOLEAN]
      /\ announced \in [Jobs -> Nat]
      /\ None \notin Jobs \cup Invocations
      /\ OwnerAtWork /\ AtWork
  BY ControlAssumption DEF QueuePart, QueueType, QueueSafe, MachineType
<1>1. CASE UNCHANGED <<queueVars, hostVars, lost, announced>>
  BY <1>1 DEF queueVars, hostVars
<1>2. ASSUME NEW i \in Invocations, NEW j \in Jobs, Deliver(i, j)
      PROVE  OnceInv'
  <2>1. UNCHANGED <<lost, announced>>
    BY <1>2 DEF Deliver, historyVars
  <2>2. ~lost[j] => announced[j] = 0
    BY <1>0, <1>2 DEF Deliver
  <2>3. owner[j] = None
    BY <1>0, <1>2 DEF Deliver, OwnerAtWork
  <2>4. HoldsItsLock'
    BY <1>0, <1>2, <2>1, <2>3 DEF Deliver
  <2>5. AnnouncedLast'
    BY <1>0, <1>2, <2>1, <2>2 DEF Deliver, OwnerAtWork
  <2> QED
    BY <2>1, <2>4, <2>5
<1>3. ASSUME NEW j \in Jobs, LockExpires(j)
      PROVE  OnceInv'
  BY <1>0, <1>3 DEF LockExpires, hostVars
<1>4. ASSUME NEW i \in Invocations, Crash(i)
      PROVE  OnceInv'
  <2>1. /\ UNCHANGED <<status, lost, announced>>
        /\ \A k \in Invocations \ {i} : pc'[k] = pc[k] /\ job'[k] = job[k]
        /\ pc'[i] = "idle"
        /\ \A j \in Jobs : owner'[j] = IF owner[j] = i THEN None ELSE owner[j]
    BY <1>0, <1>4 DEF Crash, historyVars
  <2>2. HoldsItsLock'
    BY <1>0, <2>1 DEF AtWork
  <2>3. AnnouncedLast'
    BY <1>0, <2>1
  <2> QED
    BY <2>1, <2>2, <2>3
<1>5. ASSUME NEW i \in Invocations, Step(i)
      PROVE  OnceInv'
  <2>0. Shape(i) /\ job[i] \in Jobs
    BY <1>5, StepShape, BodyType DEF Shape
  <2>1. UNCHANGED <<tries, lost>>
    BY <2>0 DEF Shape, Goes, Fails, Ends, Fail, Advance, End, queueVars
  <2>2. \A k \in Invocations : k # i => pc'[k] = pc[k] /\ job'[k] = job[k]
    BY <1>0, <2>0 DEF Shape, Goes, Fails, Ends, Fail, Advance, End
  <2>6. ASSUME pc' = [pc EXCEPT ![i] = "idle"],
               \/ UNCHANGED <<status, owner>>
               \/ /\ owner[job[i]] = i
                  /\ \A j \in Jobs \ {job[i]} : owner'[j] = owner[j]
        PROVE  HoldsItsLock'
    <3> SUFFICES ASSUME NEW k \in Invocations, pc'[k] # "idle", ~lost'[job'[k]]
                 PROVE  owner'[job'[k]] = k
      OBVIOUS
    <3>1. k # i /\ pc[k] # "idle" /\ job'[k] = job[k]
      BY <1>0, <2>2, <2>6
    <3>2. job[k] \in Jobs /\ owner[job[k]] = k
      BY <1>0, <2>1, <3>1 DEF AtWork
    <3> QED
      BY <2>6, <3>1, <3>2
  <2>3. CASE Publish(i)
    <3>1. /\ pc[i] = "publish"
          /\ pc' = [pc EXCEPT ![i] = "return"]
          /\ UNCHANGED <<status, owner, job>>
          /\ announced' = [announced EXCEPT ![job[i]] = @ + 1]
      BY <2>3 DEF Publish, Advance, queueVars
    <3>2. ~lost[job[i]] => announced[job[i]] = 0 /\ owner[job[i]] = i /\ status[job[i]] = "locked"
      BY <1>0, <2>0, <3>1 DEF OwnerAtWork
    <3> QED
      BY <1>0, <2>0, <2>1, <3>1, <3>2
  <2>4. CASE Return(i)
    <3>1. /\ pc[i] = "return" /\ UNCHANGED announced
          /\ pc' = [pc EXCEPT ![i] = "idle"]
          /\ \/ UNCHANGED <<status, owner>>
             \/ /\ owner[job[i]] = i
                /\ status' = [status EXCEPT ![job[i]] = "completed"]
                /\ owner' = [owner EXCEPT ![job[i]] = None]
          /\ owner[job[i]] = i => status'[job[i]] = "completed"
      BY <1>0, <2>0, <2>4 DEF Return, End
    <3>2. HoldsItsLock'
      BY <1>0, <2>0, <2>6, <3>1
    <3>3. AnnouncedLast'
      BY <1>0, <2>0, <2>1, <2>2, <3>1 DEF OwnerAtWork
    <3> QED
      BY <2>1, <3>1, <3>2, <3>3
  <2>5. CASE ~Publish(i) /\ ~Return(i)
    <3>1. pc[i] # "return" /\ UNCHANGED announced
      BY <1>5, <2>5 DEF Step, Prepare, Cleanup, Launch, Connect, StartAction, Verify, Refused,
           StopAction, Kill, Return
    <3>2. ~lost[job[i]] => announced[job[i]] = 0 /\ owner[job[i]] = i
      BY <1>0, <2>0, <3>1 DEF OwnerAtWork, Shape
    <3>3. CASE Goes(i)
      BY <1>0, <2>0, <2>1, <2>2, <3>1, <3>2, <3>3 DEF Goes, Advance, queueVars
    <3>4. CASE \E how, o : End(i, how, o)
      <4>1. /\ pc' = [pc EXCEPT ![i] = "idle"]
            /\ \/ UNCHANGED <<status, owner>>
               \/ /\ owner[job[i]] = i
                  /\ \A j \in Jobs \ {job[i]} : status'[j] = status[j] /\ owner'[j] = owner[j]
        BY <1>0, <2>0, <3>4 DEF End
      <4>2. HoldsItsLock'
        BY <2>6, <4>1
      <4>3. AnnouncedLast'
        BY <1>0, <2>0, <2>1, <2>2, <3>1, <3>2, <4>1 DEF OwnerAtWork
      <4> QED
        BY <2>1, <3>1, <4>2, <4>3
    <3> QED
      BY <2>0, <3>3, <3>4 DEF Shape, Fails, Ends, Fail
  <2> QED
    BY <2>3, <2>4, <2>5
<1>6. ASSUME NEW s \in Servers, Machine(s)
      PROVE  UNCHANGED <<queueVars, hostVars, lost, announced>>
  BY <1>6 DEF Machine, ObsUp, OutputComesUp, OutputEnds, ObsExit, ObsCrash, historyVars
<1> QED
  BY <1>1, <1>2, <1>3, <1>4, <1>5, <1>6 DEF Next, vars, historyVars, Tick

-----------------------------------------------------------------------------
(* The inductive invariant, and the promises that follow from it *)

\* IInv, grouped as the lemmas above prove it.
LEMMA InvParts ==
  IInv <=> QueuePart /\ MachineType /\ CallsInPlace /\ SuccessIsChecked /\ OnceInv
BY DEF IInv, QueueInv, TypeOK, QueuePart, QueueType, QueueSafe, MachineType

\* The same grouping in the next state.
LEMMA InvPartsNext ==
  IInv' <=> QueuePart' /\ MachineType' /\ CallsInPlace' /\ SuccessIsChecked' /\ OnceInv'
BY InvParts, PTL

\* IInv holds when nothing has been delivered yet.
LEMMA InitInv == Init => IInv
<1> SUFFICES ASSUME Init PROVE IInv
  OBVIOUS
<1> USE ControlAssumption
<1>1. QueuePart
  BY DEF Init, QueuePart, QueueType, QueueSafe, OwnerAtWork, AtWork, LastDelivery,
     DeliveriesLeft, AlertOnlyWhenLost, RemoteDeadLetterAlerts, Statuses, Endings
<1>2. MachineType
  BY DEF Init, MachineType, ObsStates
<1>3. CallsInPlace
  BY DEF Init, CallsInPlace, InPlace
<1>4. SuccessIsChecked
  BY DEF Init, SuccessIsChecked, Starts
<1>5. OnceInv
  BY DEF Init, OnceInv, HoldsItsLock, AnnouncedLast, AnnouncedOnce
<1> QED
  BY <1>1, <1>2, <1>3, <1>4, <1>5, InvParts

\* Each step of the system keeps IInv.
LEMMA NextInv == IInv /\ [Next]_vars => IInv'
BY InvParts, InvPartsNext, QueueKeeps, MachineTypeKeeps, CallsInPlaceKeeps,
   SuccessIsCheckedKeeps, OnceKeeps

\* Whatever the jobs, the servers and the faults, an invocation of OBSControl and
\* the message it works on agree on which delivery this is (the lock's owner is
\* at its latest delivery, a last delivery still holds its lock unless the
\* message is dead), and no call is made out of its place in the handler.
THEOREM Invariance == Spec => []IInv
BY InitInv, NextInv, PTL DEF Spec

\* Every variable keeps its type.
THEOREM TypeCorrect == Spec => []TypeOK
<1>1. IInv => TypeOK
  BY DEF IInv, QueueInv
<1> QED
  BY <1>1, Invariance, PTL

\* The failure e-mail of obs_control_function is sent only for jobs that are
\* lost: never for one that is retried, even when locks expire under invocations
\* and two of them work on the same message.
THEOREM AlertsAreFinal == Spec => []AlertOnlyWhenLost
<1>1. IInv => AlertOnlyWhenLost
  BY DEF IInv, QueueInv
<1> QED
  BY <1>1, Invariance, PTL

\* A job whose last delivery failed in a remote call has its failure e-mail.
THEOREM LostJobsAreReported == Spec => []RemoteDeadLetterAlerts
<1>1. IInv => RemoteDeadLetterAlerts
  BY DEF IInv, QueueInv
<1> QED
  BY <1>1, Invariance, PTL

\* A stream is announced once, however often its start is retried, unless a lock
\* of its message expired.
THEOREM OneAnnouncement == Spec => []AnnouncedOnce
<1>1. IInv => AnnouncedOnce
  BY DEF IInv, OnceInv
<1> QED
  BY <1>1, Invariance, PTL

-----------------------------------------------------------------------------
(* ObsControl implements JobDelivery *)

\* The phase of every message, as JobDelivery sees it.
Phase == [j \in Jobs |-> PhaseOf(status[j])]

\* The queue sees nothing of a step that leaves states and counts alone.
LEMMA Unseen ==
  ASSUME UNCHANGED <<status, tries>>
  PROVE  UNCHANGED Delivery!vars
BY DEF Delivery!vars

\* A message that changes hands.
LEMMA PhaseChange ==
  ASSUME QueueType, NEW j \in Jobs, NEW st \in Statuses,
         status' = [status EXCEPT ![j] = st]
  PROVE  Phase' = [Phase EXCEPT ![j] = PhaseOf(st)]
BY DEF QueueType, Phase

\* A message that is given up goes back or dies, as JobDelivery says.
LEMMA GivenBack ==
  ASSUME QueueType, NEW j \in Jobs, status[j] = "locked", UNCHANGED tries,
         status' = [status EXCEPT ![j] = AfterFailure(j)]
  PROVE  Delivery!GiveBack(j)
<1>1. AfterFailure(j) \in Statuses
  BY DEF AfterFailure, Statuses
<1>2. Phase' = [Phase EXCEPT ![j] = PhaseOf(AfterFailure(j))]
  BY <1>1, PhaseChange
<1>3. PhaseOf(AfterFailure(j)) = IF tries[j] < MaxDelivery THEN "waiting" ELSE "dead"
  BY DEF AfterFailure, PhaseOf
<1>4. Phase[j] = "held"
  BY DEF Phase, PhaseOf
<1> QED
  BY <1>2, <1>3, <1>4 DEF Delivery!GiveBack, Phase

\* A message that is consumed is finished.
LEMMA Consumed ==
  ASSUME QueueType, NEW j \in Jobs, status[j] = "locked", UNCHANGED tries,
         NEW o \in {"completed", "ignored"}, status' = [status EXCEPT ![j] = o]
  PROVE  Delivery!Finish(j)
<1>0. o \in Statuses
  BY DEF Statuses
<1>1. Phase' = [Phase EXCEPT ![j] = PhaseOf(o)]
  BY <1>0, PhaseChange
<1>2. PhaseOf(o) = "done" /\ Phase[j] = "held"
  BY DEF Phase, PhaseOf
<1> QED
  BY <1>1, <1>2 DEF Delivery!Finish, Phase

\* A step of an invocation finishes its message, gives it back, or is not seen.
LEMMA StepIsSeen ==
  ASSUME QueuePart, NEW i \in Invocations, Step(i)
  PROVE  [Delivery!Next]_Delivery!vars
<1>0. QueueType /\ pc[i] # "idle" /\ job[i] \in Jobs
  BY StepShape DEF Shape, QueuePart, QueueSafe, AtWork
<1>1. ASSUME owner[job[i]] # i, UNCHANGED tries,
             \E how, o : End(i, how, o)
      PROVE  UNCHANGED <<status, tries>>
  BY <1>1 DEF End
<1>2. owner[job[i]] = i => status[job[i]] = "locked"
  <2>1. i # None
    BY ControlAssumption
  <2> QED
    BY <1>0, <2>1 DEF QueuePart, QueueSafe, OwnerAtWork
<1>3. ASSUME NEW c \in Calls, Advance(i, c)
      PROVE  UNCHANGED Delivery!vars
  BY <1>3, Unseen DEF Advance, queueVars
<1>4. ASSUME NEW how, End(i, how, AfterFailure(job[i]))
      PROVE  [Delivery!Next]_Delivery!vars
  <2>1. CASE owner[job[i]] = i
    BY <1>0, <1>2, <1>4, <2>1, GivenBack DEF End, Delivery!Next
  <2>2. CASE owner[job[i]] # i
    BY <1>4, <2>2, Unseen DEF End
  <2> QED
    BY <2>1, <2>2
<1>5. ASSUME NEW how, NEW o \in {"completed", "ignored"}, End(i, how, o)
      PROVE  [Delivery!Next]_Delivery!vars
  <2>1. CASE owner[job[i]] = i
    BY <1>0, <1>2, <1>5, <2>1, Consumed DEF End, Delivery!Next
  <2>2. CASE owner[job[i]] # i
    BY <1>5, <2>2, Unseen DEF End
  <2> QED
    BY <2>1, <2>2
<1> QED
  BY <1>3, <1>4, <1>5, StepShape DEF Shape, Goes, Fails, Ends, Fail

\* So is every step of the system.
LEMMA NextIsSeen ==
  ASSUME QueuePart, [Next]_vars
  PROVE  [Delivery!Next]_Delivery!vars
<1>1. ASSUME NEW i \in Invocations, NEW j \in Jobs, Deliver(i, j)
      PROVE  Delivery!Deliver(j)
  <2>1. Phase' = [Phase EXCEPT ![j] = "held"]
    <3>1. PhaseOf("locked") = "held"
      BY DEF PhaseOf
    <3> QED
      BY <1>1, <3>1, PhaseChange DEF Deliver, Statuses, QueuePart
  <2>2. Phase[j] = "waiting" /\ tries[j] < MaxDelivery
    BY <1>1 DEF Deliver, Phase, PhaseOf, QueuePart, QueueSafe, DeliveriesLeft
  <2> QED
    BY <1>1, <2>1, <2>2 DEF Deliver, Delivery!Deliver, Phase
<1>2. ASSUME NEW j \in Jobs, LockExpires(j)
      PROVE  Delivery!GiveBack(j)
  BY <1>2, GivenBack DEF LockExpires, QueuePart
<1>3. ASSUME NEW i \in Invocations, Crash(i)
      PROVE  UNCHANGED <<status, tries>>
  BY <1>3 DEF Crash
<1>4. ASSUME NEW s \in Servers, Machine(s)
      PROVE  UNCHANGED <<status, tries>>
  BY <1>4 DEF Machine, ObsUp, OutputComesUp, OutputEnds, ObsExit, ObsCrash, queueVars
<1>5. CASE Tick \/ UNCHANGED vars
  BY <1>5, Unseen DEF Tick, vars, queueVars
<1> QED
  BY <1>1, <1>2, <1>3, <1>4, <1>5, StepIsSeen, Unseen DEF Next, Delivery!Next

\* The initial states are initial states of JobDelivery.
LEMMA InitIsSeen == Init => Delivery!Init
BY DEF Init, Delivery!Init, PhaseOf

\* Every behaviour of OBSControl is, seen from the queue, a behaviour of
\* JobDelivery: a message is handed over MaxDelivery times at most and settled
\* once, whatever fails, crashes or expires.
THEOREM Refinement == Spec => ImplementsDelivery
<1>1. IInv => QueuePart
  BY InvParts
<1>2. IInv /\ [Next]_vars => [Delivery!Next]_Delivery!vars
  BY <1>1, NextIsSeen
<1> QED
  BY <1>2, InitIsSeen, Invariance, PTL DEF Spec, ImplementsDelivery, Delivery!Spec
=============================================================================
