-------------------------- MODULE ObsSessionProofs --------------------------
(***************************************************************************)
(* Proofs about the sessions of ObsControl: for jobs that are carried out  *)
(* in their hour, and machines that have one job an hour, the machine is   *)
(* in the state of the session, whatever is retried, lost or interrupted.  *)
(***************************************************************************)
EXTENDS ObsControlProofs

-----------------------------------------------------------------------------
(* What a step does to the invocations and to settled messages *)

USE DEF QueuePart, QueueSafe

\* A step of invocation i leaves the other ones alone, the clock, the counts, and every
\* message that is not locked.
LEMMA HostStep ==
  ASSUME QueuePart, NEW i \in Invocations, Step(i)
  PROVE  /\ pc[i] # "idle" /\ job[i] \in Jobs
         /\ UNCHANGED <<now, tries, crashes, lost>>
         /\ \A k \in Invocations \ {i} : pc'[k] = pc[k] /\ job'[k] = job[k]
         /\ pc'[i] = "idle" \/ job' = job
         /\ \A j \in Jobs : status[j] # "locked" => status'[j] = status[j]
<1>1. Shape(i) /\ job[i] \in Jobs BY StepShape DEF Shape, AtWork
<1>2. owner[job[i]] = i => status[job[i]] = "locked"
  BY <1>1, ControlAssumption DEF OwnerAtWork
<1>3. ASSUME NEW c \in Calls, Advance(i, c)
      PROVE  /\ UNCHANGED <<now, status, tries, job, crashes, lost>>
             /\ \A k \in Invocations \ {i} : pc'[k] = pc[k]
  BY <1>3 DEF Advance, queueVars, QueueType
<1>4. ASSUME NEW how, NEW o, End(i, how, o)
      PROVE  /\ UNCHANGED <<now, tries, crashes, lost>>
             /\ \A k \in Invocations \ {i} : pc'[k] = pc[k] /\ job'[k] = job[k]
             /\ pc'[i] = "idle"
             /\ \A j \in Jobs : status[j] # "locked" => status'[j] = status[j]
  <2>1. /\ pc' = [pc EXCEPT ![i] = "idle"] /\ job' = [job EXCEPT ![i] = None]
        /\ UNCHANGED <<now, tries, crashes, lost>>
        /\ status' = status \/ (status[job[i]] = "locked" /\ status' = [status EXCEPT ![job[i]] = o])
    BY <1>2, <1>4 DEF End
  <2> QED BY <2>1 DEF QueueType
<1>5. Goes(i) \/ \E how, o : End(i, how, o)
  BY <1>1 DEF Shape, Fails, Ends, Fail
<1> QED BY <1>1, <1>3, <1>4, <1>5 DEF Shape, Goes

\* The steps that touch the clock, the machines, or what was seen on the air.
LEMMA StepKinds ==
  ASSUME [Next]_vars
  PROVE  \/ Tick
         \/ \E i \in Invocations : Step(i)
         \/ \E s \in Servers : Machine(s)
         \/ UNCHANGED <<now, obs, sentinel, out, pending, finishing, crashes, live>>
BY DEF Next, Deliver, LockExpires, Crash, vars, historyVars, machineVars

\* The machines move by themselves.
LEMMA MachineStep ==
  ASSUME NEW s \in Servers, Machine(s)
  PROVE  UNCHANGED <<now, queueVars, hostVars, historyVars>>
BY DEF Machine, ObsUp, OutputComesUp, OutputEnds, ObsExit, ObsCrash

\* How an invocation comes to be at work after a step: it was, or it has been started.
LEMMA AtWorkBefore ==
  ASSUME QueuePart, [Next]_vars, NEW i \in Invocations, pc'[i] # "idle"
  PROVE  \/ pc[i] # "idle" /\ job'[i] = job[i] /\ (pc'[i] = pc[i] \/ Step(i))
         \/ pc'[i] = "prepare" /\ job'[i] \in Jobs /\ Deliver(i, job'[i])
<1> USE DEF QueueType
<1>1. ASSUME NEW k \in Invocations, Step(k) PROVE pc[i] # "idle" /\ job'[i] = job[i] /\ (pc'[i] = pc[i] \/ Step(i))
  BY <1>1, HostStep
<1>2. ASSUME NEW k \in Invocations, Crash(k) PROVE pc[i] # "idle" /\ job'[i] = job[i] /\ pc'[i] = pc[i]
  BY <1>2 DEF Crash
<1>3. ASSUME NEW k \in Invocations, NEW j \in Jobs, Deliver(k, j)
      PROVE  \/ pc[i] # "idle" /\ job'[i] = job[i] /\ pc'[i] = pc[i]
             \/ pc'[i] = "prepare" /\ job'[i] \in Jobs /\ Deliver(i, job'[i])
  BY <1>3 DEF Deliver
<1>4. CASE UNCHANGED hostVars BY <1>4 DEF hostVars
<1> QED BY <1>1, <1>2, <1>3, <1>4, MachineStep DEF Next, vars, Tick, LockExpires

-----------------------------------------------------------------------------
(* Time *)

\* Jobs are carried out in their hour.
LEMMA InItsHourKeeps ==
  ASSUME Prompt, QueuePart, MachineType, InItsHour, [Next]_vars
  PROVE  InItsHour'
<1> USE DEF QueueType, MachineType
<1>0. /\ \A j \in Jobs : Body[j].at \in Nat
      /\ now \in Nat
  BY ControlAssumption
<1>1. CASE Tick
  <2>1. Quiet /\ now' = now + 1 /\ UNCHANGED <<status, tries, pc, job>>
    BY <1>1 DEF Tick, queueVars, hostVars
  <2>2. \A i \in Invocations : pc'[i] = "idle" BY <2>1 DEF Quiet
  <2>3. ASSUME NEW j \in Jobs
        PROVE  /\ Body[j].at > now' => status'[j] = "waiting" /\ tries'[j] = 0
               /\ Body[j].at < now' => status'[j] \in Settled
    <3>1. Body[j].at > now' => Body[j].at > now BY <1>0, <2>1
    <3>2. Body[j].at < now' => Body[j].at <= now BY <1>0, <2>1
    <3> QED BY <2>1, <3>1, <3>2 DEF Quiet, Due, InItsHour
  <2> QED BY <2>2, <2>3 DEF InItsHour
<1>2. ASSUME now' = now, \A j \in Jobs : status[j] # "locked" => status'[j] = status[j],
             \A i \in Invocations : pc'[i] # "idle" => pc[i] # "idle" /\ job'[i] = job[i],
             UNCHANGED tries
      PROVE  InItsHour'
  BY <1>2 DEF InItsHour, Settled
<1>3. ASSUME NEW i \in Invocations, NEW j \in Jobs, Deliver(i, j) PROVE InItsHour'
  <2>1. /\ pc' = [pc EXCEPT ![i] = "prepare"] /\ job' = [job EXCEPT ![i] = j]
        /\ status' = [status EXCEPT ![j] = "locked"] /\ tries' = [tries EXCEPT ![j] = tries[j] + 1]
        /\ now' = now /\ status[j] = "waiting" /\ Body[j].at <= now
    BY <1>3 DEF Deliver, Due
  <2>2. Body[j].at = now
    <3>1. ~(Body[j].at < now) BY <2>1 DEF InItsHour, Settled
    <3> HIDE DEF QueueType, MachineType, QueuePart, QueueSafe
    <3>2. Body[j].at \in Nat /\ now \in Nat BY <1>0
    <3>3. \A a, b \in Nat : a <= b /\ ~(a < b) => a = b OBVIOUS
    <3> QED BY <2>1, <3>1, <3>2, <3>3
  <2>3. tries[j] \in Nat /\ tries[j] + 1 > 0 BY ControlAssumption
  <2>4. ASSUME NEW k \in Invocations, pc'[k] # "idle"
        PROVE  Body[job'[k]].at = now' /\ tries'[job'[k]] > 0
    <3>1. CASE k = i BY <2>1, <2>2, <2>3, <3>1
    <3>2. CASE k # i
      <4>1. pc[k] # "idle" /\ job'[k] = job[k] /\ job[k] \in Jobs
        BY <2>1, <2>4, <3>2 DEF AtWork
      <4> QED BY <2>1, <2>3, <4>1 DEF InItsHour
    <3> QED BY <3>1, <3>2
  <2>5. ASSUME NEW k \in Jobs
        PROVE  /\ Body[k].at > now' => status'[k] = "waiting" /\ tries'[k] = 0
               /\ Body[k].at < now' => status'[k] \in Settled
    BY <1>0, <2>1, <2>2 DEF InItsHour
  <2> QED BY <2>4, <2>5 DEF InItsHour
<1>4. ASSUME NEW j \in Jobs, LockExpires(j) PROVE InItsHour'
  BY <1>2, <1>4 DEF LockExpires, hostVars
<1>5. ASSUME NEW i \in Invocations, Step(i) PROVE InItsHour'
  BY <1>2, <1>5, HostStep
<1>6. ASSUME NEW i \in Invocations, Crash(i) PROVE InItsHour'
  BY <1>2, <1>6 DEF Crash
<1>7. ASSUME NEW s \in Servers, Machine(s) PROVE InItsHour'
  BY <1>2, <1>7, MachineStep DEF queueVars, hostVars
<1>8. CASE UNCHANGED vars BY <1>2, <1>8 DEF vars, queueVars, hostVars
<1> QED BY <1>1, <1>3, <1>4, <1>5, <1>6, <1>7, <1>8 DEF Next

\* All invocations at work for one machine are at work on the same job.
LEMMA OneJobAtATime ==
  ASSUME OneJobAnHour, QueuePart, InItsHour,
         NEW i \in Invocations, pc[i] # "idle", NEW j \in Jobs,
         Body[j].server = Server(i), Body[j].at = now
  PROVE  job[i] = j
BY DEF InItsHour, AtWork, Server, OneJobAnHour

\* In the hour of a stop nothing on its machine comes up, in that of a start nothing ends.
LEMMA OneMotionAtATime ==
  ASSUME OneJobAnHour, QueuePart, InItsHour, MotionInItsHour, NEW i \in Invocations, pc[i] # "idle"
  PROVE  /\ Command(i) = "start" => obs[Server(i)] # "closing" /\ finishing[Server(i)] = {}
         /\ Command(i) = "stop" => obs[Server(i)] # "starting" /\ pending[Server(i)] = {}
<1>1. Server(i) \in Servers BY BodyType
<1>2. HourOf(Stops, Server(i)) => Command(i) = "stop"
  BY OneJobAtATime DEF HourOf, Stops, Command
<1>3. HourOf(Starts, Server(i)) => Command(i) = "start"
  BY OneJobAtATime DEF HourOf, Starts, Command
<1> QED BY <1>1, <1>2, <1>3 DEF MotionInItsHour

-----------------------------------------------------------------------------
(* What the calls do to the machine *)

\* An invocation at work is in the hour of its job; the job is of the command its call
\* belongs to.
LEMMA CallHour ==
  ASSUME QueuePart, InItsHour, CallsInPlace, NEW i \in Invocations, pc[i] # "idle"
  PROVE  /\ pc[i] \in {"cleanup", "launch", "start_action", "verify", "publish"}
              => job[i] \in Starts /\ HourOf(Starts, Server(i))
         /\ pc[i] \in {"stop_action", "kill"} => job[i] \in Stops /\ HourOf(Stops, Server(i))
         /\ Body[job[i]].at = now /\ tries[job[i]] > 0
BY BodyType DEF InItsHour, CallsInPlace, InPlace, Command, Server, HourOf, Starts, Stops

\* Only a launch and a kill change the OBS process, only start_action and stop_action
\* its outputs otherwise, only a clean-up and a launch its sentinel; only
\* verify_action_active looks at an output.
LEMMA CallEffects ==
  ASSUME NEW i \in Invocations, Step(i)
  PROVE  /\ Launch(i) \/ Kill(i) \/ UNCHANGED obs
         /\ Launch(i) \/ Kill(i) \/ StartAction(i) \/ UNCHANGED pending
         /\ Kill(i) \/ StopAction(i) \/ UNCHANGED <<out, finishing>>
         /\ Cleanup(i) \/ Launch(i) \/ UNCHANGED sentinel
         /\ Verify(i) \/ UNCHANGED live
BY DEF Step, Prepare, Cleanup, Launch, Connect, StartAction, Verify, Publish, StopAction, Kill,
   Return, Refused, machineVars

\* OBS comes up and closes in the hours of the jobs that ask for it.
LEMMA MotionKeeps ==
  ASSUME Prompt, QueuePart, MachineType, CallsInPlace, InItsHour, MotionInItsHour, [Next]_vars
  PROVE  MotionInItsHour'
<1>1. CASE Tick
  BY <1>1 DEF Tick, Quiet, machineVars, MotionInItsHour
<1>2. ASSUME now' = now, UNCHANGED <<obs, pending, finishing>>
      PROVE  MotionInItsHour'
  BY <1>2 DEF MotionInItsHour, HourOf
<1>3. ASSUME NEW i \in Invocations, Step(i)
      PROVE  MotionInItsHour'
  <2>1. now' = now /\ pc[i] # "idle" BY <1>3, HostStep
  <2>2. CASE Launch(i)
    <3>1. pc[i] = "launch" /\ finishing' = finishing BY <2>2 DEF Launch
    <3>2. HourOf(Starts, Server(i)) BY <2>1, <3>1, CallHour
    <3>3. \/ UNCHANGED <<obs, pending>>
          \/ \E o \in {"dialog", "starting"} : \E f :
                obs' = [obs EXCEPT ![Server(i)] = o] /\ pending' = [pending EXCEPT ![Server(i)] = f]
      BY <2>2 DEF Launch, LaunchOBS
    <3> QED BY <1>2, <2>1, <3>1, <3>2, <3>3 DEF MotionInItsHour, HourOf, MachineType
  <2>3. CASE Kill(i)
    <3>1. pc[i] = "kill" BY <2>3 DEF Kill
    <3>2. HourOf(Stops, Server(i)) BY <2>1, <3>1, CallHour
    <3>3. \/ UNCHANGED <<obs, pending, finishing>>
          \/ /\ obs' = [obs EXCEPT ![Server(i)] = "closing"]
             /\ pending' = [pending EXCEPT ![Server(i)] = {}]
             /\ finishing' = [finishing EXCEPT ![Server(i)] = {}]
      BY <2>3 DEF Kill, CloseOBS
    <3> QED BY <1>2, <2>1, <3>2, <3>3 DEF MotionInItsHour, HourOf, MachineType
  <2>4. CASE StartAction(i)
    <3>1. pc[i] = "start_action" BY <2>4 DEF StartAction
    <3>2. HourOf(Starts, Server(i)) BY <2>1, <3>1, CallHour
    <3>3. /\ UNCHANGED <<obs, finishing>>
          /\ pending' = pending \/ \E f : pending' = [pending EXCEPT ![Server(i)] = f]
      BY <2>4 DEF StartAction, Refused, machineVars
    <3> QED BY <1>2, <2>1, <3>2, <3>3 DEF MotionInItsHour, HourOf, MachineType
  <2>5. CASE StopAction(i)
    <3>1. pc[i] = "stop_action" BY <2>5 DEF StopAction
    <3>2. HourOf(Stops, Server(i)) BY <2>1, <3>1, CallHour
    <3>3. /\ UNCHANGED <<obs, pending>>
          /\ finishing' = finishing \/ \E f : finishing' = [finishing EXCEPT ![Server(i)] = f]
      BY <2>5 DEF StopAction, Refused, machineVars
    <3> QED BY <1>2, <2>1, <3>2, <3>3 DEF MotionInItsHour, HourOf, MachineType
  <2> QED BY <1>2, <1>3, <2>1, <2>2, <2>3, <2>4, <2>5, CallEffects
<1>4. ASSUME NEW s \in Servers, Machine(s)
      PROVE  MotionInItsHour'
  <2>1. now' = now BY <1>4, MachineStep
  <2>2. /\ obs' = obs \/ \E o \in {"up", "off"} : obs' = [obs EXCEPT ![s] = o]
        /\ \A z \in Servers : pending'[z] \subseteq pending[z] /\ finishing'[z] \subseteq finishing[z]
    BY <1>4 DEF Machine, ObsUp, OutputComesUp, OutputEnds, ObsExit, ObsCrash, MachineType
  <2>3. \A z \in Servers : obs'[z] \in {"starting", "closing"} => obs'[z] = obs[z]
    BY <2>2 DEF MachineType
  <2>4. ASSUME NEW z \in Servers
        PROVE  /\ obs'[z] = "starting" \/ pending'[z] # {} => HourOf(Starts, z)
               /\ obs'[z] = "closing" \/ finishing'[z] # {} => HourOf(Stops, z)
    BY <2>2, <2>3 DEF MotionInItsHour
  <2> QED BY <2>1, <2>4 DEF MotionInItsHour, HourOf
<1> QED BY <1>1, <1>2, <1>3, <1>4, StepKinds

\* An OBS that is not up has no output.
LEMMA OutputsKeep ==
  ASSUME QueuePart, MachineType, OutputsNeedObs, [Next]_vars
  PROVE  OutputsNeedObs'
<1>1. ASSUME UNCHANGED <<obs, out>> PROVE OutputsNeedObs'
  BY <1>1 DEF OutputsNeedObs
<1>2. ASSUME NEW i \in Invocations, Step(i)
      PROVE  OutputsNeedObs'
  <2>1. CASE Launch(i)
    <3>1. \/ obs' = obs
          \/ obs[Server(i)] = "off" /\ \E o : obs' = [obs EXCEPT ![Server(i)] = o]
      BY <2>1 DEF Launch, LaunchOBS
    <3>2. out' = out BY <2>1 DEF Launch
    <3> QED BY <3>1, <3>2 DEF OutputsNeedObs, MachineType
  <2>2. CASE Kill(i)
    <3>1. \/ UNCHANGED <<obs, out>>
          \/ \E o : obs' = [obs EXCEPT ![Server(i)] = o] /\ out' = [out EXCEPT ![Server(i)] = {}]
      BY <2>2 DEF Kill, CloseOBS
    <3> QED BY <3>1 DEF OutputsNeedObs, MachineType
  <2>3. CASE StopAction(i)
    <3>1. /\ obs' = obs
          /\ \/ out' = out
             \/ obs[Server(i)] = "up" /\ \E o : out' = [out EXCEPT ![Server(i)] = o]
      BY <2>3 DEF StopAction, Refused, machineVars
    <3> QED BY <3>1 DEF OutputsNeedObs, MachineType
  <2> QED BY <1>1, <1>2, <2>1, <2>2, <2>3, CallEffects
<1>3. ASSUME NEW s \in Servers, Machine(s)
      PROVE  OutputsNeedObs'
  <2>1. CASE ObsUp(s)
    BY <2>1 DEF ObsUp, OutputsNeedObs, MachineType
  <2>2. CASE OutputComesUp(s)
    BY <2>2 DEF OutputComesUp, OutputsNeedObs, MachineType
  <2>3. CASE OutputEnds(s)
    BY <1>1, <2>3 DEF OutputEnds
  <2>4. CASE ObsExit(s)
    BY <2>4 DEF ObsExit, OutputsNeedObs, MachineType
  <2>5. CASE ObsCrash(s)
    BY <2>5 DEF ObsCrash, OutputsNeedObs, MachineType
  <2> QED BY <1>3, <2>1, <2>2, <2>3, <2>4, <2>5 DEF Machine
<1> QED BY <1>1, <1>2, <1>3, StepKinds DEF Tick, machineVars

-----------------------------------------------------------------------------
(* Outputs begin and end *)

\* An output is asked for, by a launch flag or by start_action, before it begins.
LEMMA OutputBegins ==
  ASSUME QueuePart, MachineType, [Next]_vars,
         NEW s \in Servers, NEW a \in out'[s], a \notin out[s]
  PROVE  a \in pending[s]
<1>1. ASSUME NEW i \in Invocations, Step(i)
      PROVE  FALSE
  <2>1. ~Kill(i)
    BY DEF Kill, CloseOBS, MachineType
  <2>2. ~StopAction(i)
    BY DEF StopAction, Refused, machineVars, MachineType
  <2> QED BY <1>1, <2>1, <2>2, CallEffects
<1>2. ASSUME NEW z \in Servers, Machine(z)
      PROVE  a \in pending[s]
  BY <1>2 DEF Machine, ObsUp, OutputComesUp, OutputEnds, ObsExit, ObsCrash, MachineType
<1> QED BY <1>1, <1>2, StepKinds DEF Tick, machineVars

\* It is on the air until its stop_action, a kill of its OBS, or the death of OBS.
LEMMA OutputStops ==
  ASSUME QueuePart, MachineType, [Next]_vars,
         NEW s \in Servers, NEW a \in out[s], a \notin out'[s]
  PROVE  /\ now' = now
         /\ \/ crashes' > 0
            \/ \E i \in Invocations : /\ Server(i) = s
                                      /\ \/ pc[i] = "stop_action" /\ Action(i) = a
                                         \/ pc[i] = "kill"
<1>1. ASSUME NEW i \in Invocations, Step(i)
      PROVE  Server(i) = s /\ ((pc[i] = "stop_action" /\ Action(i) = a) \/ pc[i] = "kill")
  <2>1. CASE Kill(i)
    <3>1. pc[i] = "kill" /\ (out' = out \/ out' = [out EXCEPT ![Server(i)] = {}])
      BY <2>1 DEF Kill, CloseOBS
    <3> QED BY <3>1 DEF MachineType
  <2>2. CASE StopAction(i)
    <3>1. /\ pc[i] = "stop_action"
          /\ out' = out \/ out' = [out EXCEPT ![Server(i)] = @ \ {Action(i)}]
      BY <2>2 DEF StopAction, Refused, machineVars
    <3> QED BY <3>1 DEF MachineType
  <2> QED BY <1>1, <2>1, <2>2, CallEffects
<1>2. ASSUME NEW z \in Servers, Machine(z)
      PROVE  crashes' > 0
  <2>1. ~ObsUp(z) /\ ~OutputEnds(z) /\ ~ObsExit(z)
    BY DEF ObsUp, OutputEnds, ObsExit
  <2>2. ~OutputComesUp(z)
    BY DEF OutputComesUp, MachineType
  <2>3. ObsCrash(z)
    BY <1>2, <2>1, <2>2 DEF Machine
  <2>4. crashes' = crashes + 1 /\ crashes \in Nat
    BY <2>3, ControlAssumption DEF ObsCrash, MachineType
  <2> QED BY <2>4
<1>3. ~Tick
  BY DEF Tick, machineVars
<1> QED BY <1>1, <1>2, <1>3, StepKinds, HostStep, MachineStep

\* The kill comes after stop_action.
LEMMA KillComesAfter ==
  ASSUME QueuePart, NEW i \in Invocations, Step(i), pc'[i] = "kill"
  PROVE  StopAction(i) /\ (out' = [out EXCEPT ![Server(i)] = @ \ {Action(i)}])
<1>1. \A c : Advance(i, c) => c = "kill"
  BY DEF Advance, QueueType
<1>2. ~Fail(i) /\ \A how, o : ~End(i, how, o)
  BY DEF Fail, End, QueueType
<1>3. StopAction(i)
  BY <1>1, <1>2 DEF Step, Prepare, Cleanup, Launch, Connect, StartAction, Verify, Publish, Kill,
     Return, Refused, Answered, NextCall, AfterStart
<1> QED BY <1>2, <1>3 DEF StopAction, Refused

\* No output of its kind begins, or is asked for, between the stop_action and the kill of a
\* stop.
LEMMA ToldToEndKeeps ==
  ASSUME OneJobAnHour, QueuePart, MachineType, CallsInPlace, InItsHour, MotionInItsHour,
         InItsHour', MotionInItsHour', QueuePart', CallsInPlace', ToldToEnd, [Next]_vars
  PROVE  ToldToEnd'
<1> SUFFICES ASSUME NEW i \in Invocations, pc'[i] = "kill"
             PROVE  Action(i)' \notin out'[Server(i)'] \cup pending'[Server(i)']
  BY DEF ToldToEnd
<1>1. pc[i] # "idle" /\ job'[i] = job[i] /\ (pc[i] = "kill" \/ Step(i))
  BY AtWorkBefore
<1>2. Action(i)' = Action(i) /\ Server(i)' = Server(i) /\ Server(i) \in Servers
  BY <1>1, BodyType DEF Action, Server
<1>3. pc[i] \in {"stop_action", "kill"}
  BY <1>1, KillComesAfter DEF StopAction
<1>4. Command(i) = "stop" /\ pending[Server(i)] = {}
  BY <1>1, <1>3, CallHour, OneMotionAtATime DEF Stops, Command
<1>5. pending'[Server(i)] = {}
  <2>1. ASSUME NEW j \in Starts, Body[j].server = Server(i), Body[j].at = now'
        PROVE  FALSE
    <3>1. Body[job[i]].at = now' /\ job[i] \in Stops /\ job[i] \in Jobs /\ j \in Jobs
      BY <1>1, <1>3, <2>1, CallHour, BodyType DEF InItsHour, Starts
    <3> QED BY <2>1, <3>1 DEF OneJobAnHour, Server, Starts, Stops
  <2> QED BY <1>2, <2>1 DEF MotionInItsHour, HourOf, Starts
<1>6. Action(i) \notin out'[Server(i)]
  <2>1. CASE Step(i)
    BY <1>2, <2>1, KillComesAfter DEF MachineType
  <2>2. CASE pc[i] = "kill"
    BY <1>2, <1>4, <2>2, OutputBegins DEF ToldToEnd
  <2> QED BY <1>1, <2>1, <2>2
<1> QED BY <1>2, <1>5, <1>6

-----------------------------------------------------------------------------
(* A session stays live *)

\* Nothing takes back the hour, a delivery or a crash.
LEMMA Monotone ==
  ASSUME QueuePart, MachineType, [Next]_vars
  PROVE  /\ now \in Nat /\ now' \in Nat /\ now' >= now
         /\ \A j \in Jobs : tries[j] > 0 => tries'[j] > 0
         /\ crashes' = 0 => crashes = 0
<1>1. /\ tries \in [Jobs -> 0 .. MaxDelivery] /\ crashes \in Nat
      /\ now \in Nat /\ now' \in Nat
  BY MachineTypeKeeps, ControlAssumption DEF QueueType, MachineType
<1>2. ASSUME NEW i \in Invocations, NEW j \in Jobs, Deliver(i, j)
      PROVE  \A k \in Jobs : tries[k] > 0 => tries'[k] > 0
  <2>1. tries' = [tries EXCEPT ![j] = tries[j] + 1] /\ tries[j] \in Nat
    BY <1>1, <1>2, ControlAssumption DEF Deliver
  <2> QED BY <1>1, <2>1
<1>3. ASSUME ~ \E i \in Invocations, j \in Jobs : Deliver(i, j)
      PROVE  tries' = tries
  BY <1>3, HostStep, MachineStep DEF Next, Tick, LockExpires, Crash, vars, queueVars
<1>4. Tick => now' = now + 1 /\ crashes' = crashes
  BY DEF Tick, machineVars
<1>5. (\E i \in Invocations : Step(i)) => now' = now /\ crashes' = crashes
  BY HostStep
<1>6. (\E s \in Servers : Machine(s)) => now' = now /\ (crashes' = crashes \/ crashes' = crashes + 1)
  BY MachineStep DEF Machine, ObsUp, OutputComesUp, OutputEnds, ObsExit, ObsCrash
<1> QED BY <1>1, <1>2, <1>3, <1>4, <1>5, <1>6, StepKinds

\* What is seen on the air for a start is so.
LEMMA SeenIsLive ==
  ASSUME QueuePart, MachineType, CallsInPlace, InItsHour, [Next]_vars,
         NEW j \in Jobs, ~live[j], live'[j]
  PROVE  tries[j] > 0 /\ Body[j].action \in out'[Body[j].server]
<1>1. PICK i \in Invocations : Step(i) /\ Verify(i)
  <2>1. ~Tick BY DEF Tick, historyVars
  <2> QED BY <2>1, StepKinds, MachineStep, CallEffects DEF historyVars
<1>2. job[i] \in Jobs /\ Server(i) \in Servers /\ tries[job[i]] > 0
  BY <1>1, HostStep, BodyType, CallHour
<1>3. live' = [live EXCEPT ![job[i]] = @ \/ (Action(i) \in out[Server(i)])] /\ out' = out
  BY <1>1 DEF Verify, Refused, machineVars
<1>4. j = job[i] /\ Action(i) \in out[Server(i)]
  BY <1>2, <1>3, Zenon DEF MachineType
<1> QED BY <1>2, <1>3, <1>4 DEF Server, Action

\* Nothing ends the output of a session before its stop is due.
LEMMA LiveKeeps ==
  ASSUME OneJobAnHour, EndsItsOutput, QueuePart, MachineType, CallsInPlace, InItsHour,
         LiveUntilItsEnd, [Next]_vars
  PROVE  LiveUntilItsEnd'
<1> SUFFICES ASSUME NEW j \in Starts, live'[j]
             PROVE  /\ tries'[j] > 0
                    /\ crashes' = 0 /\ ~EndDue(j)' => Body[j].action \in out'[Body[j].server]
  BY DEF LiveUntilItsEnd
<1>0. /\ j \in Jobs /\ Body[j].server \in Servers
      /\ \A k \in Jobs : Body[k].at \in Nat
  BY ControlAssumption DEF Starts
<1>1. CASE ~live[j]
  BY <1>0, <1>1, SeenIsLive, Monotone
<1>2. CASE live[j]
  <2>1. tries[j] > 0 /\ (crashes = 0 /\ ~EndDue(j) => Body[j].action \in out[Body[j].server])
    BY <1>2 DEF LiveUntilItsEnd
  <2>2. Body[j].at <= now
    <3>1. ~(Body[j].at > now)
      <4>1. Body[j].at > now => tries[j] = 0 BY <1>0 DEF InItsHour
      <4> QED BY <2>1, <4>1
    <3> QED BY <1>0, <3>1, Monotone
  <2>3. EndDue(j) => EndDue(j)'
    <3>1. \A k \in Jobs : Body[k].at <= now => Body[k].at <= now'
      BY <1>0, Monotone
    <3> QED BY <3>1 DEF EndDue, Due, Stops
  <2>4. ASSUME NEW i \in Invocations, Server(i) = Body[j].server,
               \/ pc[i] = "stop_action" /\ Action(i) = Body[j].action
               \/ pc[i] = "kill"
        PROVE  EndDue(j)
    <3>1. /\ job[i] \in Stops /\ Body[job[i]].at = now
          /\ Body[job[i]].server = Body[j].server /\ job[i] \in Jobs
      BY <2>4, CallHour DEF Server, Stops
    <3>2. job[i] # j
      BY <3>1 DEF Starts, Stops
    <3>3. Body[job[i]].at > Body[j].at
      <4>1. Body[job[i]].at # Body[j].at
        BY <1>0, <3>1, <3>2 DEF OneJobAnHour
      <4>2. Body[j].at \in Nat /\ now \in Nat
        BY <1>0, Monotone
      <4> QED BY <2>2, <3>1, <4>1, <4>2
    <3>4. CASE Action(i) = Body[j].action
      BY <3>1, <3>3, <3>4, <1>0, Monotone DEF EndDue, Due, Action
    <3>5. CASE pc[i] = "kill"
      <4>1. PICK l \in Stops : /\ Body[l].server = Body[j].server
                               /\ Body[l].action = Body[j].action
                               /\ Body[l].at > Body[j].at /\ Body[l].at <= Body[job[i]].at
        BY <3>1, <3>3 DEF EndsItsOutput
      <4> QED BY <3>1, <4>1 DEF EndDue, Due
    <3> QED BY <2>4, <3>4, <3>5
  <2>5. ASSUME crashes' = 0, ~EndDue(j)'
        PROVE  Body[j].action \in out'[Body[j].server]
    <3>1. Body[j].action \in out[Body[j].server]
      BY <2>1, <2>3, <2>5, Monotone
    <3>2. ~(crashes' > 0)
      BY <2>5
    <3> QED BY <1>0, <2>3, <2>4, <2>5, <3>1, <3>2, OutputStops
  <2> QED BY <1>0, <2>1, <2>5, Monotone
<1> QED BY <1>1, <1>2

-----------------------------------------------------------------------------
(* A start is a success only when it is on the air *)

\* verify_action_active looks at an output that nothing has told to stop: in the hour of a
\* start no earlier session is still being finished.
LEMMA VerifySees ==
  ASSUME OneJobAnHour, QueuePart, MachineType, CallsInPlace, InItsHour, MotionInItsHour,
         NEW i \in Invocations, Step(i), Command(i) = "start", Scene[Server(i)],
         pc[i] \notin {"publish", "return"}, pc'[i] \in {"publish", "return"}
  PROVE  live'[job[i]]
<1>1. pc[i] # "idle" /\ job[i] \in Jobs
  BY HostStep
<1>2. \A c : Advance(i, c) => c \in {"publish", "return"}
  BY DEF Advance, QueueType
<1>3. ~Fail(i) /\ \A how, o : ~End(i, how, o)
  BY DEF Fail, End, QueueType
<1>4. ~Kill(i) /\ ~StartAction(i) /\ ~Publish(i) /\ ~Return(i)
  BY DEF Kill, StartAction, Publish, Return, CallsInPlace, InPlace
<1>5. Verify(i)
  BY <1>2, <1>3, <1>4 DEF Step, Prepare, Cleanup, Launch, Connect, StopAction, Refused,
     Answered, NextCall
<1>6. Action(i) \in out[Server(i)]
  BY <1>1, <1>3, <1>5, OneMotionAtATime DEF Verify, Refused, SeenActive
<1>7. live' = [live EXCEPT ![job[i]] = @ \/ (Action(i) \in out[Server(i)])]
  BY <1>3, <1>5 DEF Verify, Refused
<1> QED BY <1>1, <1>6, <1>7, Zenon DEF MachineType

\* A start that goes on has been seen.
LEMMA SeenInPlaceKeeps ==
  ASSUME OneJobAnHour, QueuePart, MachineType, CallsInPlace, InItsHour, MotionInItsHour,
         SeenInPlace, [Next]_vars
  PROVE  SeenInPlace'
<1> SUFFICES ASSUME NEW i \in Invocations, pc'[i] \in {"publish", "return"},
                    Command(i)' = "start", Scene[Server(i)']
             PROVE  live'[job'[i]]
  BY DEF SeenInPlace
<1>1. pc[i] # "idle" /\ job'[i] = job[i] /\ (pc'[i] = pc[i] \/ Step(i))
  BY AtWorkBefore
<1>2. job[i] \in Jobs /\ Command(i) = "start" /\ Scene[Server(i)]
  BY <1>1, BodyType DEF Command, Server
<1>3. CASE pc[i] \in {"publish", "return"}
  <2>1. live[job[i]] BY <1>2, <1>3 DEF SeenInPlace
  <2> QED BY <1>1, <1>2, <2>1, LiveGrows
<1>4. CASE pc[i] \notin {"publish", "return"}
  BY <1>1, <1>2, <1>4, VerifySees
<1> QED BY <1>3, <1>4

\* A message is completed when its handler returns.
LEMMA CompletedAtReturn ==
  ASSUME QueuePart, [Next]_vars, NEW j \in Jobs, status[j] # "completed", status'[j] = "completed"
  PROVE  \E i \in Invocations : Return(i) /\ pc[i] = "return" /\ job[i] = j
<1>1. ASSUME NEW i \in Invocations, Step(i)
      PROVE  Return(i) /\ pc[i] = "return" /\ job[i] = j
  <2>1. pc[i] # "idle" /\ job[i] \in Jobs
    BY <1>1, HostStep
  <2>2. ASSUME NEW how, NEW o, End(i, how, o)
        PROVE  o = "completed" /\ job[i] = j
    BY <2>2 DEF End, QueueType
  <2>3. ~Fail(i)
    BY <2>1, <2>2, AfterFailureSplits DEF Fail
  <2>4. \A c : ~Advance(i, c)
    BY DEF Advance, queueVars
  <2>5. ~Prepare(i)
    <3>1. AfterFailure(job[i]) # "completed"
      BY <2>1, AfterFailureSplits
    <3> QED BY <2>2, <2>4, <3>1 DEF Prepare
  <2>6. Return(i)
    BY <1>1, <2>3, <2>4, <2>5 DEF Step, Cleanup, Launch, Connect, StartAction, Verify,
       Publish, StopAction, Kill, Refused, Answered
  <2> QED BY <2>2, <2>6 DEF Return
<1>2. ASSUME NEW i \in Invocations, NEW k \in Jobs, Deliver(i, k) PROVE FALSE
  BY <1>2 DEF Deliver, QueueType
<1>3. ASSUME NEW k \in Jobs, LockExpires(k) PROVE FALSE
  BY <1>3, AfterFailureSplits DEF LockExpires, QueueType
<1> QED BY <1>1, <1>2, <1>3, MachineStep DEF Next, Tick, Crash, vars, queueVars

\* A start that is consumed or announced has been seen on the air.
LEMMA NoFalseSuccessKeeps ==
  ASSUME QueuePart, MachineType, SeenInPlace, NoFalseSuccess, SuccessIsChecked', [Next]_vars
  PROVE  NoFalseSuccess'
<1> SUFFICES ASSUME NEW j \in Starts, status'[j] = "completed" \/ announced'[j] > 0
             PROVE  checked'[j] /\ (Scene[Body[j].server] => live'[j])
  BY DEF NoFalseSuccess
<1>0. j \in Jobs
  BY DEF Starts
<1>1. checked'[j]
  BY <1>0 DEF SuccessIsChecked
<1>2. ASSUME Scene[Body[j].server] PROVE live[j]
  <2>1. CASE status[j] = "completed" \/ announced[j] > 0
    BY <1>2, <2>1 DEF NoFalseSuccess
  <2>2. CASE status[j] # "completed" /\ status'[j] = "completed"
    <3>1. PICK i \in Invocations : pc[i] = "return" /\ job[i] = j
      BY <1>0, <2>2, CompletedAtReturn
    <3> QED BY <1>2, <3>1 DEF SeenInPlace, Command, Server, Starts
  <2>3. CASE announced'[j] # announced[j]
    <3>1. PICK i \in Invocations : pc[i] = "publish" /\ job[i] = j
      BY <1>0, <2>3, AnnouncedAtPublish
    <3> QED BY <1>2, <3>1 DEF SeenInPlace, Command, Server, Starts
  <2> QED BY <2>1, <2>2, <2>3
<1> QED BY <1>0, <1>1, <1>2, LiveGrows

-----------------------------------------------------------------------------
(* A stopped session is down *)

\* A machine that is down stays down, unless OBS is launched.
LEMMA DownStays ==
  ASSUME QueuePart, MachineType, [Next]_vars, NEW s \in Servers, Down(s)
  PROVE  Down(s)' \/ \E i \in Invocations : Launch(i) /\ Server(i) = s
<1> USE DEF Down
<1>1. ASSUME NEW i \in Invocations, Step(i), ~(Launch(i) /\ Server(i) = s)
      PROVE  Down(s)'
  <2>1. CASE Launch(i)
    <3>1. out' = out /\ (obs' = obs \/ \E o : obs' = [obs EXCEPT ![Server(i)] = o])
      BY <2>1 DEF Launch, LaunchOBS
    <3> QED BY <1>1, <2>1, <3>1 DEF MachineType
  <2>2. CASE Kill(i)
    <3>1. \/ UNCHANGED <<obs, out>>
          \/ /\ obs' = [obs EXCEPT ![Server(i)] = "closing"]
             /\ out' = [out EXCEPT ![Server(i)] = {}]
      BY <2>2 DEF Kill, CloseOBS
    <3> QED BY <3>1 DEF MachineType
  <2>3. CASE StopAction(i)
    <3>1. obs' = obs /\ (out' = out \/ out' = [out EXCEPT ![Server(i)] = @ \ {Action(i)}])
      BY <2>3 DEF StopAction, Refused, machineVars
    <3> QED BY <3>1 DEF MachineType
  <2> QED BY <1>1, <2>1, <2>2, <2>3, CallEffects
<1>2. ASSUME NEW z \in Servers, Machine(z)
      PROVE  Down(s)'
  <2>1. CASE ObsUp(z)
    BY <2>1 DEF ObsUp, MachineType
  <2>2. CASE OutputComesUp(z)
    BY <2>2 DEF OutputComesUp, MachineType
  <2>3. CASE OutputEnds(z)
    BY <2>3 DEF OutputEnds
  <2>4. CASE ObsExit(z)
    BY <2>4 DEF ObsExit, MachineType
  <2>5. CASE ObsCrash(z)
    BY <2>5 DEF ObsCrash, MachineType
  <2> QED BY <1>2, <2>1, <2>2, <2>3, <2>4, <2>5 DEF Machine
<1> QED BY <1>1, <1>2, StepKinds DEF Tick, machineVars

\* The handler of a stop returns after the kill, which has had its effect.
LEMMA StopReturnsAfter ==
  ASSUME "silent" \notin Faults, QueuePart, MachineType, CallsInPlace, OutputsNeedObs,
         NEW i \in Invocations, Command(i) = "stop", Step(i), pc'[i] = "return"
  PROVE  Down(Server(i))'
<1>1. \A c : Advance(i, c) => c = "return"
  BY DEF Advance, QueueType
<1>2. ~Fail(i) /\ \A how, o : ~End(i, how, o)
  BY DEF Fail, End, QueueType
<1>3. ~StartAction(i) /\ ~Verify(i) /\ ~Publish(i)
  BY DEF StartAction, Verify, Publish, CallsInPlace, InPlace
<1>4. Kill(i)
  BY <1>1, <1>2, <1>3 DEF Step, Prepare, Cleanup, Launch, Connect, StopAction, Return,
     Refused, Answered, NextCall
<1>5. CloseOBS(Server(i)) /\ Server(i) \in Servers /\ Server(i)' = Server(i)
  BY <1>2, <1>4, HostStep, BodyType DEF Kill, Server
<1>6. CASE obs[Server(i)] = "off"
  BY <1>5, <1>6 DEF CloseOBS, Down, OutputsNeedObs
<1>7. CASE obs[Server(i)] # "off"
  BY <1>5, <1>7 DEF CloseOBS, Down, MachineType
<1> QED BY <1>6, <1>7

\* In the hour of a stop nothing is launched on its machine.
LEMMA NoLaunch ==
  ASSUME OneJobAnHour, QueuePart, CallsInPlace, InItsHour,
         NEW i \in Invocations, pc[i] # "idle", Command(i) = "stop",
         NEW k \in Invocations, pc[k] = "launch", Server(k) = Server(i)
  PROVE  FALSE
<1>1. job[k] \in Starts /\ job[k] \in Jobs /\ Body[job[k]].at = now
  BY CallHour DEF Starts
<1>2. job[i] = job[k]
  BY <1>1, OneJobAtATime DEF Server
<1> QED BY <1>1, <1>2 DEF Starts, Command

\* A stop that is about to return has its machine down.
LEMMA DownAtReturnKeeps ==
  ASSUME "silent" \notin Faults, OneJobAnHour, QueuePart, MachineType, CallsInPlace, InItsHour,
         OutputsNeedObs, DownAtReturn, [Next]_vars
  PROVE  DownAtReturn'
<1> SUFFICES ASSUME NEW i \in Invocations, pc'[i] = "return", Command(i)' = "stop"
             PROVE  Down(Server(i))'
  BY DEF DownAtReturn, Down
<1>1. pc[i] # "idle" /\ job'[i] = job[i] /\ (pc[i] = "return" \/ Step(i))
  BY AtWorkBefore
<1>2. Command(i) = "stop" /\ Server(i)' = Server(i) /\ Server(i) \in Servers
  BY <1>1, BodyType DEF Command, Server
<1>3. CASE Step(i)
  BY <1>2, <1>3, StopReturnsAfter DEF Down
<1>4. CASE pc[i] = "return"
  <2>1. Down(Server(i))
    BY <1>2, <1>4 DEF DownAtReturn
  <2>2. ASSUME NEW k \in Invocations, Launch(k), Server(k) = Server(i) PROVE FALSE
    BY <1>1, <1>2, <2>2, NoLaunch DEF Launch
  <2> QED BY <1>2, <2>1, <2>2, DownStays DEF Down
<1> QED BY <1>1, <1>3, <1>4

\* A machine that a consumed stop has left down is so until a later start is delivered.
LEMMA StoppedKeeps ==
  ASSUME OneJobAnHour, QueuePart, MachineType, CallsInPlace, InItsHour, DownAtReturn,
         StoppedSessionIsDown, [Next]_vars
  PROVE  StoppedSessionIsDown'
<1> SUFFICES ASSUME NEW j \in Stops, status'[j] = "completed",
                    \A k \in Starts : Body[k].server = Body[j].server /\ Body[k].at > Body[j].at
                                        => tries'[k] = 0
             PROVE  Down(Body[j].server)'
  BY DEF StoppedSessionIsDown, Down
<1>0. /\ j \in Jobs /\ Body[j].server \in Servers
      /\ \A k \in Jobs : Body[k].at \in Nat /\ tries[k] \in Nat
  BY ControlAssumption DEF Stops, QueueType
<1>1. CASE status[j] = "completed"
  <2>1. \A k \in Starts : Body[k].server = Body[j].server /\ Body[k].at > Body[j].at => tries[k] = 0
    <3>1. \A k \in Jobs : tries'[k] = 0 => tries[k] = 0
      <4>1. \A k \in Jobs : tries[k] > 0 => tries'[k] > 0 BY Monotone
      <4> QED BY <1>0, <4>1
    <3> QED BY <3>1 DEF Starts
  <2>2. Down(Body[j].server)
    BY <1>1, <2>1 DEF StoppedSessionIsDown, Down
  <2>3. ASSUME NEW i \in Invocations, Launch(i), Server(i) = Body[j].server
        PROVE  FALSE
    <3>1. /\ job[i] \in Starts /\ job[i] \in Jobs /\ Body[job[i]].at = now
          /\ Body[job[i]].server = Body[j].server /\ tries[job[i]] > 0
      BY <2>3, CallHour DEF Launch, Server, Starts
    <3>2. Body[j].at # Body[job[i]].at
      BY <1>0, <3>1 DEF OneJobAnHour, Starts, Stops
    <3>3. ~(Body[j].at > now)
      BY <1>0, <1>1 DEF InItsHour
    <3>4. Body[job[i]].at > Body[j].at
      <4>1. Body[j].at \in Nat /\ now \in Nat BY <1>0, Monotone
      <4> QED BY <3>1, <3>2, <3>3, <4>1
    <3>5. tries[job[i]] = 0 BY <2>1, <3>1, <3>4
    <3> QED BY <3>1, <3>5
  <2> QED BY <1>0, <2>2, <2>3, DownStays
<1>2. CASE status[j] # "completed"
  <2>1. PICK i \in Invocations : Return(i) /\ pc[i] = "return" /\ job[i] = j
    BY <1>0, <1>2, CompletedAtReturn
  <2>2. Down(Body[j].server)
    BY <2>1 DEF DownAtReturn, Command, Server, Stops
  <2> QED BY <2>1, <2>2 DEF Return, machineVars, Down
<1> QED BY <1>1, <1>2

-----------------------------------------------------------------------------
(* Launches are clean *)

\* Nothing takes back that a lock has expired.
LEMMA LostGrows ==
  ASSUME QueuePart, MachineType, [Next]_vars, NEW j \in Jobs, lost[j]
  PROVE  lost'[j]
BY HostStep, MachineStep DEF Next, Tick, Deliver, LockExpires, Crash, vars, historyVars, MachineType

\* Two invocations are at work on one message only if a lock of it has expired.
LEMMA TwoAtWork ==
  ASSUME HoldsItsLock, NEW i \in Invocations, NEW k \in Invocations, i # k,
         pc[i] # "idle", pc[k] # "idle", job[i] = job[k]
  PROVE  lost[job[i]]
BY DEF HoldsItsLock

\* The launch comes after the clean-up, which has had its effect.
LEMMA LaunchComesAfter ==
  ASSUME "silent" \notin Faults, QueuePart, NEW i \in Invocations, Step(i), pc'[i] = "launch"
  PROVE  sentinel' = [sentinel EXCEPT ![Server(i)] = FALSE]
<1>1. \A c : Advance(i, c) => c = "launch"
  BY DEF Advance, QueueType
<1>2. ~Fail(i) /\ \A how, o : ~End(i, how, o)
  BY DEF Fail, End, QueueType
<1>3. Cleanup(i)
  BY <1>1, <1>2 DEF Step, Prepare, Launch, Connect, StartAction, Verify, Publish, StopAction,
     Kill, Return, Refused, Answered, NextCall, AfterStart
<1> QED BY <1>2, <1>3 DEF Cleanup

\* A launch that is to come finds no sentinel, or a message that was redelivered.
LEMMA SentinelKeeps ==
  ASSUME "silent" \notin Faults, OneJobAnHour, QueuePart, MachineType, CallsInPlace, HoldsItsLock,
         InItsHour, MotionInItsHour, SentinelRemoved, [Next]_vars
  PROVE  SentinelRemoved'
<1> SUFFICES ASSUME NEW i \in Invocations, pc'[i] = "launch", sentinel'[Server(i)']
             PROVE  lost'[job'[i]] /\ (obs'[Server(i)'] = "off" => crashes' > 0)
  BY DEF SentinelRemoved
<1> DEFINE s == Server(i)
<1>1. pc[i] # "idle" /\ job'[i] = job[i] /\ (pc[i] = "launch" \/ Step(i))
  BY AtWorkBefore
<1>2. Server(i)' = s /\ s \in Servers /\ job[i] \in Jobs
  BY <1>1, BodyType DEF Server
<1>3. ~Step(i)
  BY <1>2, LaunchComesAfter DEF MachineType
<1>4. pc[i] = "launch"
  BY <1>1, <1>3
<1>5. job[i] \in Starts /\ Body[job[i]].at = now /\ Command(i) = "start" /\ obs[s] # "closing"
  BY <1>4, CallHour, OneMotionAtATime DEF Starts, Command
<1>6. CASE sentinel[s]
  <2>1. lost[job[i]] /\ (obs[s] = "off" => crashes > 0)
    BY <1>4, <1>6 DEF SentinelRemoved
  <2>2. crashes \in Nat /\ crashes' \in Nat /\ (crashes' = 0 => crashes = 0)
    BY Monotone, MachineTypeKeeps, ControlAssumption DEF MachineType
  <2>3. obs[s] = "off" => crashes' > 0
    BY <2>1, <2>2
  <2>4. ASSUME obs[s] # "off", obs'[s] = "off" PROVE crashes' > 0
    <3>1. ASSUME NEW k \in Invocations, Step(k) PROVE FALSE
      <4>1. CASE Launch(k)
        <5>1. obs' = obs \/ \E o : o # "off" /\ obs' = [obs EXCEPT ![Server(k)] = o]
          BY <4>1 DEF Launch, LaunchOBS
        <5> QED BY <1>2, <2>4, <5>1 DEF MachineType
      <4>2. CASE Kill(k)
        <5>1. obs' = obs \/ \E o : o # "off" /\ obs' = [obs EXCEPT ![Server(k)] = o]
          BY <4>2 DEF Kill, CloseOBS
        <5> QED BY <1>2, <2>4, <5>1 DEF MachineType
      <4> QED BY <2>4, <3>1, <4>1, <4>2, CallEffects
    <3>2. ASSUME NEW z \in Servers, Machine(z) PROVE crashes' > 0
      <4>1. ~ObsUp(z) /\ ~OutputComesUp(z) /\ ~OutputEnds(z) /\ ~ObsExit(z)
        BY <1>2, <1>5, <2>4 DEF ObsUp, OutputComesUp, OutputEnds, ObsExit, MachineType
      <4>2. crashes' = crashes + 1
        BY <3>2, <4>1 DEF Machine, ObsCrash
      <4> QED BY <2>2, <4>2
    <3> QED BY <2>4, <3>1, <3>2, StepKinds DEF Tick, machineVars
  <2>5. lost'[job[i]]
    BY <1>2, <2>1, LostGrows
  <2> QED BY <1>1, <1>2, <2>3, <2>4, <2>5
<1>7. CASE ~sentinel[s]
  <2>1. ASSUME NEW z \in Servers, Machine(z) PROVE FALSE
    <3>1. sentinel' = sentinel \/ \E b \in BOOLEAN : sentinel' = [sentinel EXCEPT ![z] = @ /\ b]
      BY <2>1 DEF Machine, ObsUp, OutputComesUp, OutputEnds, ObsExit, ObsCrash
    <3> QED BY <1>2, <1>7, <3>1, Zenon DEF MachineType
  <2>2. PICK k \in Invocations : Step(k) /\ (Cleanup(k) \/ Launch(k))
    BY <1>2, <1>7, <2>1, StepKinds, CallEffects DEF Tick, machineVars
  <2>3. Launch(k)
    <3>1. Cleanup(k) => sentinel' = sentinel \/ sentinel' = [sentinel EXCEPT ![Server(k)] = FALSE]
      BY DEF Cleanup
    <3> QED BY <1>2, <1>7, <2>2, <3>1 DEF MachineType
  <2>4. /\ Server(k) = s /\ obs[s] = "off" /\ pc[k] = "launch"
        /\ obs' = [obs EXCEPT ![s] = "starting"]
    BY <1>2, <1>7, <2>3 DEF Launch, LaunchOBS, MachineType
  <2>5. job[k] \in Jobs /\ Body[job[k]].at = now
    BY <2>4, BodyType, CallHour
  <2>6. job[i] = job[k]
    BY <1>1, <2>4, <2>5, OneJobAtATime DEF Server
  <2>7. lost[job[i]]
    BY <1>1, <1>3, <2>2, <2>4, <2>6, TwoAtWork
  <2>8. obs'[s] = "starting"
    BY <1>2, <2>4 DEF MachineType
  <2> QED BY <1>1, <1>2, <2>7, <2>8, LostGrows
<1> QED BY <1>6, <1>7

\* OBS stops at the dialog only at a launch that finds a sentinel.
LEMMA CleanLaunchKeeps ==
  ASSUME QueuePart, MachineType, SentinelRemoved, CleanLaunch, [Next]_vars
  PROVE  CleanLaunch'
<1> SUFFICES ASSUME NEW s \in Servers, obs'[s] = "dialog"
             PROVE  crashes' > 0 /\ \E j \in Jobs : lost'[j]
  BY DEF CleanLaunch
<1>0. crashes > 0 => crashes' > 0
  <2>1. crashes \in Nat /\ crashes' \in Nat /\ (crashes' = 0 => crashes = 0)
    BY Monotone, MachineTypeKeeps, ControlAssumption DEF MachineType
  <2> QED BY <2>1
<1>1. CASE obs[s] = "dialog"
  BY <1>0, <1>1, LostGrows DEF CleanLaunch
<1>2. CASE obs[s] # "dialog"
  <2>1. ASSUME NEW z \in Servers, Machine(z) PROVE FALSE
    BY <1>2, <2>1 DEF Machine, ObsUp, OutputComesUp, OutputEnds, ObsExit, ObsCrash, MachineType
  <2>2. PICK i \in Invocations : Step(i) /\ (Launch(i) \/ Kill(i))
    BY <1>2, <2>1, StepKinds, CallEffects DEF Tick, machineVars
  <2>3. ~Kill(i)
    <3>1. Kill(i) => obs' = obs \/ obs' = [obs EXCEPT ![Server(i)] = "closing"]
      BY DEF Kill, CloseOBS
    <3> QED BY <1>2, <3>1 DEF MachineType
  <2>4. pc[i] = "launch" /\ obs[Server(i)] = "off" /\ sentinel[Server(i)]
    BY <1>2, <2>2, <2>3 DEF Launch, LaunchOBS, MachineType
  <2>5. job[i] \in Jobs /\ lost[job[i]] /\ crashes > 0
    BY <2>2, <2>4, HostStep DEF SentinelRemoved
  <2> QED BY <1>0, <2>5, LostGrows
<1> QED BY <1>1, <1>2

-----------------------------------------------------------------------------
(* The invariants, and the promises about the sessions *)

\* The invariant holds when nothing has been delivered yet.
LEMMA SessionInit ==
  ASSUME Init PROVE SessionInv /\ SpokenInv
<1> USE ControlAssumption
<1>1. InItsHour
  <2>1. \A j \in Jobs : ~(Body[j].at < 0)
    <3>1. \A n \in Nat : ~(n < 0) OBVIOUS
    <3> QED BY <3>1
  <2> QED BY <2>1 DEF Init, InItsHour
<1>2. MotionInItsHour /\ OutputsNeedObs /\ ToldToEnd
  BY DEF Init, MotionInItsHour, OutputsNeedObs, ToldToEnd
<1>3. LiveUntilItsEnd
  BY DEF Init, LiveUntilItsEnd, Starts
<1>4. SeenInPlace /\ NoFalseSuccess
  BY DEF Init, SeenInPlace, NoFalseSuccess, Starts
<1>5. DownAtReturn /\ StoppedSessionIsDown /\ SentinelRemoved /\ CleanLaunch
  BY DEF Init, DownAtReturn, StoppedSessionIsDown, SentinelRemoved, CleanLaunch, Stops
<1> QED BY <1>1, <1>2, <1>3, <1>4, <1>5 DEF SessionInv, SpokenInv

\* Every step keeps it, for schedules with one job an hour on each machine, carried out
\* in its hour.
LEMMA SessionNext ==
  ASSUME Apart, IInv, SessionInv, [Next]_vars
  PROVE  SessionInv'
<1> USE DEF Apart, SessionInv
<1>1. QueuePart /\ MachineType /\ CallsInPlace
  BY InvParts
<1>2. InItsHour'
  BY <1>1, InItsHourKeeps
<1>3. MotionInItsHour' /\ OutputsNeedObs'
  BY <1>1, MotionKeeps, OutputsKeep
<1>4. ToldToEnd'
  <2>1. QueuePart' /\ CallsInPlace'
    BY NextInv, InvPartsNext
  <2> QED BY <1>1, <1>2, <1>3, <2>1, ToldToEndKeeps
<1>5. SeenInPlace' /\ NoFalseSuccess'
  <2>1. SuccessIsChecked'
    BY NextInv, InvPartsNext
  <2> QED BY <1>1, <2>1, SeenInPlaceKeeps, NoFalseSuccessKeeps
<1>6. EndsItsOutput => LiveUntilItsEnd'
  BY <1>1, LiveKeeps
<1>7. EndsItsOutput' = EndsItsOutput
  BY DEF EndsItsOutput, Starts, Stops
<1> QED BY <1>2, <1>3, <1>4, <1>5, <1>6, <1>7

LEMMA SpokenNext ==
  ASSUME Apart, "silent" \notin Faults, IInv, SessionInv, SpokenInv, [Next]_vars
  PROVE  SpokenInv'
<1> USE DEF Apart, SessionInv, SpokenInv
<1>1. QueuePart /\ MachineType /\ CallsInPlace /\ HoldsItsLock
  BY InvParts DEF OnceInv
<1>2. DownAtReturn'
  BY <1>1, DownAtReturnKeeps
<1>3. StoppedSessionIsDown'
  BY <1>1, StoppedKeeps
<1>4. SentinelRemoved' /\ CleanLaunch'
  BY <1>1, SentinelKeeps, CleanLaunchKeeps
<1> QED BY <1>2, <1>3, <1>4

\* In every behaviour with such a schedule, jobs, machines and outputs are in step with
\* the hour: what is under way on a machine belongs to the one job of the hour.
THEOREM SessionInvariance ==
  ASSUME Apart
  PROVE  Spec => []SessionInv
<1>1. IInv /\ SessionInv /\ [Next]_vars => SessionInv'
  BY SessionNext
<1>2. Init => SessionInv
  BY SessionInit
<1> QED BY <1>1, <1>2, Invariance, PTL DEF Spec

\* If remote commands do not fail silently (_ssh_exec only logs stderr): a stop that is
\* about to return has left OBS down, and a launch finds no trace of a crash.
THEOREM SpokenInvariance ==
  ASSUME Apart, "silent" \notin Faults
  PROVE  Spec => []SpokenInv
<1>1. IInv /\ SessionInv /\ SpokenInv /\ [Next]_vars => SpokenInv'
  BY SpokenNext
<1>2. Init => SpokenInv
  BY SessionInit
<1> QED BY <1>1, <1>2, Invariance, SessionInvariance, PTL DEF Spec

\* On a server with a scene a start is reported as a success, and its stream announced,
\* only after its own output was on the air when verify_action_active looked at it: what an
\* earlier session is still finishing never passes for it.
THEOREM SuccessIsSeen ==
  ASSUME Apart
  PROVE  Spec => []NoFalseSuccess
<1>1. SessionInv => NoFalseSuccess
  BY DEF SessionInv
<1> QED BY <1>1, SessionInvariance, PTL

\* OBS is never closed by a stop job while the output this job ends is on the air untold,
\* or still coming up, however often the two halves of the stop are repeated by
\* redeliveries and by invocations that have lost their lock: nothing brings the output
\* back between stop_action and kill_obs, and code 501 never hides one that comes up late.
THEOREM StopsAreToldBeforeKill ==
  ASSUME Apart
  PROVE  Spec => ToldBeforeKill
<1>1. ToldToEnd =>
        [\A i \in Invocations :
           pc[i] = "kill" /\ pc'[i] # "kill" /\ obs[Server(i)] # "closing"
             /\ obs'[Server(i)] = "closing"
           => Action(i) \notin out[Server(i)] \cup pending[Server(i)]]_vars
  BY DEF ToldToEnd
<1>2. SessionInv => ToldToEnd
  BY DEF SessionInv
<1> QED BY <1>1, <1>2, SessionInvariance, PTL DEF ToldBeforeKill

\* On a server with a scene, a session whose start was reported as a success is on the air
\* until its own stop is due, if OBS does not die: neither a late duplicate of another job
\* nor a stop of another output ends it, when the first stop after a start is one of the
\* same output.
THEOREM SessionsStayLive ==
  ASSUME Apart, EndsItsOutput
  PROVE  Spec => []SessionStaysLive
<1>1. SessionInv => SessionStaysLive
  <2> SUFFICES ASSUME LiveUntilItsEnd, NoFalseSuccess, NEW j \in Starts, InSession(j),
                      Scene[Body[j].server], crashes = 0
               PROVE  Body[j].action \in out[Body[j].server]
    BY DEF SessionInv, SessionStaysLive
  <2>1. live[j] BY DEF NoFalseSuccess, InSession
  <2>2. ~EndDue(j) BY DEF InSession, EndDue
  <2> QED BY <2>1, <2>2 DEF LiveUntilItsEnd
<1> QED BY <1>1, SessionInvariance, PTL

\* A consumed stop means that OBS is closed or closing on its machine and produces
\* nothing, until a later start is delivered: no invocation left over from the start
\* brings it up again.
THEOREM StopsHold ==
  ASSUME Apart, "silent" \notin Faults
  PROVE  Spec => []StoppedSessionIsDown
<1>1. SpokenInv => StoppedSessionIsDown
  BY DEF SpokenInv
<1> QED BY <1>1, SpokenInvariance, PTL

\* launch_obs does not stop at the "did not shut down properly" dialog, unless OBS dies
\* between two launches of a message whose lock has expired.
THEOREM LaunchesAreClean ==
  ASSUME Apart, "silent" \notin Faults
  PROVE  Spec => []CleanLaunch
<1>1. SpokenInv => CleanLaunch
  BY DEF SpokenInv
<1> QED BY <1>1, SpokenInvariance, PTL

=============================================================================
