----------------------------- MODULE ObsControl -----------------------------
(***************************************************************************)
(* The OBSControl function (function_app.py) at work: the host delivers    *)
(* the due messages of "obs-jobs" to concurrent invocations, an invocation *)
(* drives OBS on a remote machine over SSH (remote_controller.py) and over *)
(* the OBS WebSocket (obs_websocket.py), and the message is consumed when  *)
(* the handler returns, given back when it raises.                         *)
(*                                                                         *)
(* A remote call is one step with three outcomes: it fails, it takes       *)
(* effect and is answered, or it takes effect and the answer is lost (the  *)
(* handler sees an exception although the machine has changed).  SSH and   *)
(* WebSocket retries inside one call are part of the step.  An answer from *)
(* OBS says that it has accepted a command: the output it is to start      *)
(* comes up later, or never, and the one it is to stop ends later.         *)
(***************************************************************************)
EXTENDS Naturals, FiniteSets

CONSTANTS
  Jobs,           \* the messages sent to obs-jobs
  Body,           \* Body[j]: the payload of j, with the hour it is scheduled at
  Servers,        \* the keys of servers.yaml
  Platform,       \* Platform[s]: servers.yaml "platform"
  Scene,          \* Scene[s]: does servers.yaml give the server an obs.scene?
  Invocations,    \* how many OBSControl invocations may be in progress
  None,           \* no job, no invocation
  MaxDelivery,    \* OBS_JOBS_MAX_DELIVERY_COUNT = maxDeliveryCount
  Faults,         \* the faults the environment may produce (see FaultKinds)
  Prompt,         \* TRUE: nothing is late (see Tick)
  Horizon,        \* bound: the last hour of the clock
  MaxObsCrashes   \* bound: how often OBS or its machine goes down by itself

Actions    == {"recording", "streaming"}
Commands   == {"start", "stop"}

\* "config":    servers.yaml or the Key Vault cannot be read, or lacks a key.
\* "unknown":   the servers.yaml of the day does not list the server.
\* "silent":    a remote command fails and says so on stderr only.
\* "crash":     an invocation disappears (scale-in, functionTimeout, crash).
\* "lock_loss": a message's lock expires while its invocation still works.
FaultKinds == {"config", "unknown", "silent", "crash", "lock_loss"}

ASSUME ControlAssumption ==
  /\ Body \in [Jobs -> [command : Commands, server : Servers,
                        action : Actions, at : Nat]]
  /\ Platform \in [Servers -> {"windows", "mac"}]
  /\ Scene \in [Servers -> BOOLEAN]
  /\ None \notin Jobs \cup Invocations
  /\ MaxDelivery \in Nat \ {0}
  /\ Faults \subseteq FaultKinds
  /\ Prompt \in BOOLEAN
  /\ Horizon \in Nat
  /\ MaxObsCrashes \in Nat

VARIABLES
  now,        \* the hour
  status,     \* status[j]: where message j stands
  tries,      \* tries[j]: its delivery count
  owner,      \* owner[j]: the invocation that holds its lock
  pc,         \* pc[i]: the call invocation i makes next
  job,        \* job[i]: the message it was started for
  attempt,    \* attempt[i]: msg.delivery_count as i received it (0: idle)
  obs,        \* obs[s]: the OBS process on machine s
  sentinel,   \* sentinel[s]: does an unclean-shutdown sentinel exist on s?
  out,        \* out[s]: the outputs that are active and have not been told to stop
  pending,    \* pending[s]: outputs OBS was asked to start, not yet active
  finishing,  \* finishing[s]: outputs OBS was told to stop, still active
  crashes,    \* how often OBS went down by itself
  alerted,    \* history: "OBSControl failed" was logged at Error for j
  ending,     \* history: how the last delivery of j ended
  lost,       \* history: a lock of j has expired
  checked,    \* history: OBS has accepted StartRecord or StartStream for j, or a
              \* status poll for j has said "active"
  live,       \* history: when a poll for j said so, the output was on the air
  announced   \* history: number of publish_stream_started calls made for j

queueVars   == <<status, tries, owner>>
hostVars    == <<pc, job, attempt>>
machineVars == <<obs, sentinel, out, pending, finishing, crashes>>
historyVars == <<alerted, ending, lost, checked, live, announced>>
vars == <<now, queueVars, hostVars, machineVars, historyVars>>

Statuses == {"waiting", "locked", "completed", "ignored", "dead"}
Settled  == {"completed", "ignored", "dead"}
Calls    == {"prepare", "cleanup", "launch", "connect", "start_action", "verify",
             "publish", "stop_action", "kill", "return"}
Endings  == {"none", "prepare", "remote", "gone", "returned"}
ObsStates == {"off", "starting", "dialog", "up", "closing"}

TypeOK ==
  /\ now \in 0 .. Horizon
  /\ status \in [Jobs -> Statuses]
  /\ tries \in [Jobs -> 0 .. MaxDelivery]
  /\ owner \in [Jobs -> Invocations \cup {None}]
  /\ pc \in [Invocations -> Calls \cup {"idle"}]
  /\ job \in [Invocations -> Jobs \cup {None}]
  /\ attempt \in [Invocations -> 0 .. MaxDelivery]
  /\ obs \in [Servers -> ObsStates]
  /\ sentinel \in [Servers -> BOOLEAN]
  /\ out \in [Servers -> SUBSET Actions]
  /\ pending \in [Servers -> SUBSET Actions]
  /\ finishing \in [Servers -> SUBSET Actions]
  /\ crashes \in 0 .. MaxObsCrashes
  /\ alerted \in [Jobs -> BOOLEAN]
  /\ ending \in [Jobs -> Endings]
  /\ lost \in [Jobs -> BOOLEAN]
  /\ checked \in [Jobs -> BOOLEAN]
  /\ live \in [Jobs -> BOOLEAN]
  /\ announced \in [Jobs -> Nat]

Init ==
  /\ now = 0
  /\ status = [j \in Jobs |-> "waiting"]
  /\ tries = [j \in Jobs |-> 0]
  /\ owner = [j \in Jobs |-> None]
  /\ pc = [i \in Invocations |-> "idle"]
  /\ job = [i \in Invocations |-> None]
  /\ attempt = [i \in Invocations |-> 0]
  /\ obs = [s \in Servers |-> "off"]
  /\ sentinel \in [Servers -> BOOLEAN]
  /\ out = [s \in Servers |-> {}]
  /\ pending = [s \in Servers |-> {}]
  /\ finishing = [s \in Servers |-> {}]
  /\ crashes = 0
  /\ alerted = [j \in Jobs |-> FALSE]
  /\ ending = [j \in Jobs |-> "none"]
  /\ lost = [j \in Jobs |-> FALSE]
  /\ checked = [j \in Jobs |-> FALSE]
  /\ live = [j \in Jobs |-> FALSE]
  /\ announced = [j \in Jobs |-> 0]

-----------------------------------------------------------------------------
(* The clock and the queue *)

Due(j) == Body[j].at <= now

\* Everything that is due has been dealt with and no machine is in motion.
Quiet ==
  /\ \A j \in Jobs : Due(j) => status[j] \in Settled
  /\ \A i \in Invocations : pc[i] = "idle"
  /\ \A s \in Servers : /\ obs[s] \notin {"starting", "closing"}
                         /\ pending[s] = {} /\ finishing[s] = {}

\* Prompt is the assumption the timing of the schedule rests on: all deliveries
\* of the messages of an hour end before the next hour.
Tick ==
  /\ now < Horizon
  /\ Prompt => Quiet
  /\ now' = now + 1
  /\ UNCHANGED <<queueVars, hostVars, machineVars, historyVars>>

\* The trigger hands a due message to an idle invocation, under a lock.
Deliver(i, j) ==
  /\ pc[i] = "idle"
  /\ status[j] = "waiting"
  /\ Due(j)
  /\ status' = [status EXCEPT ![j] = "locked"]
  /\ tries' = [tries EXCEPT ![j] = @ + 1]
  /\ owner' = [owner EXCEPT ![j] = i]
  /\ pc' = [pc EXCEPT ![i] = "prepare"]
  /\ job' = [job EXCEPT ![i] = j]
  /\ attempt' = [attempt EXCEPT ![i] = tries[j] + 1]
  /\ UNCHANGED <<now, machineVars, historyVars>>

\* Where a message goes that was given up: back, or to the dead-letter queue.
AfterFailure_NeverDead(j) == "waiting"
AfterFailure_DeadTooSoon(j) == IF tries[j] + 1 < MaxDelivery THEN "waiting" ELSE "dead"
AfterFailure(j) == IF tries[j] < MaxDelivery THEN "waiting" ELSE "dead"

\* The lock of j runs out: its invocation has disappeared, or is too slow.
LockExpires(j) ==
  /\ status[j] = "locked"
  /\ owner[j] = None \/ "lock_loss" \in Faults
  /\ status' = [status EXCEPT ![j] = AfterFailure(j)]
  /\ owner' = [owner EXCEPT ![j] = None]
  /\ ending' = [ending EXCEPT ![j] = "gone"]
  /\ lost' = [lost EXCEPT ![j] = TRUE]
  /\ UNCHANGED <<now, tries, hostVars, machineVars, alerted, checked, live, announced>>

-----------------------------------------------------------------------------
(* How an invocation goes on, and how it ends *)

Command(i) == Body[job[i]].command
Action(i)  == Body[job[i]].action
Server(i)  == Body[job[i]].server

\* The call was answered: go on with the next one.
Advance(i, next) ==
  /\ pc' = [pc EXCEPT ![i] = next]
  /\ UNCHANGED <<now, queueVars, job, attempt, crashes, alerted, ending, lost>>

\* The invocation ends.  Its message is settled if it still holds the lock;
\* settling a message whose lock is lost has no effect.
End(i, how, outcome) ==
  /\ pc' = [pc EXCEPT ![i] = "idle"]
  /\ job' = [job EXCEPT ![i] = None]
  /\ attempt' = [attempt EXCEPT ![i] = 0]
  /\ IF owner[job[i]] = i
     THEN /\ status' = [status EXCEPT ![job[i]] = outcome]
          /\ owner' = [owner EXCEPT ![job[i]] = None]
          /\ ending' = [ending EXCEPT ![job[i]] = how]
     ELSE UNCHANGED <<status, owner, ending>>
  /\ UNCHANGED <<now, tries, crashes, lost>>

IsFinalAttempt_OneEarly(i) == attempt[i] >= MaxDelivery - 1
IsFinalAttempt_OneLate(i) == attempt[i] > MaxDelivery
IsFinalAttempt(i) == attempt[i] >= MaxDelivery

\* A remote call raised: log, at Error on the final attempt, and re-raise.
Fail(i) ==
  /\ alerted' = [alerted EXCEPT ![job[i]] = @ \/ IsFinalAttempt(i)]
  /\ End(i, "remote", AfterFailure(job[i]))

\* A remote call took effect: its answer arrives, or is lost.
Answered(i, next) == Advance(i, next) \/ Fail(i)

\* A remote call failed before it took effect.
Refused(i) == Fail(i) /\ UNCHANGED <<machineVars, checked, live, announced>>

\* The handler starts: parse the body, fetch servers.yaml, look the server up,
\* fetch the secrets.  A failure here is re-raised outside the try block that
\* logs "OBSControl failed"; an unknown server is logged and the job consumed.
Prepare(i) ==
  /\ pc[i] = "prepare"
  /\ \/ Advance(i, IF Command(i) = "start" THEN "cleanup" ELSE "connect")
     \/ /\ "config" \in Faults
        /\ End(i, "prepare", AfterFailure(job[i])) /\ UNCHANGED alerted
     \/ /\ "unknown" \in Faults
        /\ End(i, "returned", "ignored") /\ UNCHANGED alerted
  /\ UNCHANGED <<machineVars, checked, live, announced>>

-----------------------------------------------------------------------------
(* launch_obs *)

\* launch_obs, first command: remove the sentinel.  Only a warning is logged if
\* the command complains.
Cleanup_Skipped(i) ==
  /\ pc[i] = "cleanup"
  /\ Advance(i, "launch") /\ UNCHANGED sentinel
  /\ UNCHANGED <<obs, out, pending, finishing, crashes, checked, live, announced>>

Cleanup(i) ==
  /\ pc[i] = "cleanup"
  /\ \/ /\ \/ sentinel' = [sentinel EXCEPT ![Server(i)] = FALSE]
           \/ "silent" \in Faults /\ UNCHANGED sentinel
        /\ Answered(i, "launch")
     \/ Fail(i) /\ UNCHANGED sentinel
  /\ UNCHANGED <<obs, out, pending, finishing, crashes, checked, live, announced>>

\* The outputs the launch command line asks for: --startstreaming or
\* --startrecording if the server has a scene, on a Mac only.
LaunchFlags(i) == IF Scene[Server(i)] /\ Platform[Server(i)] = "mac"
                  THEN {Action(i)} ELSE {}

\* OBS is launched on s.  Nothing happens if it is running; a sentinel left by
\* an earlier run stops it at the "did not shut down properly" dialog.
LaunchOBS(s, flags) ==
  IF obs[s] = "off"
  THEN /\ obs' = [obs EXCEPT ![s] = IF sentinel[s] THEN "dialog" ELSE "starting"]
       /\ pending' = [pending EXCEPT ![s] = IF sentinel[s] THEN {} ELSE flags]
       /\ sentinel' = [sentinel EXCEPT ![s] = TRUE]
  ELSE UNCHANGED <<obs, pending, sentinel>>

\* launch_obs, second part: Task Scheduler or `open`; stderr is only logged.
Launch(i) ==
  /\ pc[i] = "launch"
  /\ \/ LaunchOBS(Server(i), LaunchFlags(i)) /\ Answered(i, "connect")
     \/ "silent" \in Faults /\ Advance(i, "connect") /\ UNCHANGED <<obs, pending, sentinel>>
     \/ Fail(i) /\ UNCHANGED <<obs, pending, sentinel>>
  /\ UNCHANGED <<out, finishing, crashes, checked, live, announced>>

-----------------------------------------------------------------------------
(* obs_tunnel and the WebSocket calls *)

\* What the handler does with the WebSocket once it is connected.
NextCall(i) == IF Command(i) = "stop" THEN "stop_action"
               ELSE IF Scene[Server(i)] THEN "verify" ELSE "start_action"

\* Open the tunnel and _connect: OBS must be up and listening.  The attempts
\* are limited (WS_MAX_RETRIES), so an unreachable OBS fails the job.
Connect_RetriesForever(i) ==
  /\ pc[i] = "connect"
  /\ obs[Server(i)] = "up"
  /\ Advance(i, NextCall(i))
  /\ UNCHANGED <<machineVars, checked, live, announced>>

Connect(i) ==
  /\ pc[i] = "connect"
  /\ \/ /\ obs[Server(i)] = "up"
        /\ Advance(i, NextCall(i))
        /\ UNCHANGED <<machineVars, checked, live, announced>>
     \/ Refused(i)

\* After a start: streams are announced, recordings are not.
AfterStart(i) == IF Action(i) = "streaming" THEN "publish" ELSE "return"

\* start_action: StartRecord or StartStream; OBS refuses to start an output that is
\* active.  The answer says that the command was accepted; nothing looks at the
\* output afterwards (an output that is still coming up may be asked for again).
StartAction_ErrorSwallowed(i) ==
  /\ pc[i] = "start_action"
  /\ Advance(i, AfterStart(i))
  /\ UNCHANGED <<machineVars, checked, live, announced>>

StartAction(i) ==
  /\ pc[i] = "start_action"
  /\ \/ /\ obs[Server(i)] = "up"
        /\ Action(i) \notin out[Server(i)] \cup finishing[Server(i)]
        /\ pending' = [pending EXCEPT ![Server(i)] = @ \cup {Action(i)}]
        /\ \/ /\ Advance(i, AfterStart(i))
              /\ checked' = [checked EXCEPT ![job[i]] = TRUE]
           \/ Fail(i) /\ UNCHANGED checked
        /\ UNCHANGED <<obs, sentinel, out, finishing, live, announced>>
     \/ Refused(i)

\* What a status poll of verify_action_active looks at: output_active, which an
\* output that is being stopped still has.
SeenActive_Reachable(i) == obs[Server(i)] = "up"
SeenActive(i) ==
  /\ obs[Server(i)] = "up"
  /\ Action(i) \in out[Server(i)] \cup finishing[Server(i)]

\* verify_action_active: one of the polls finds the output active, or none does.
Verify_NeverRaises(i) ==
  /\ pc[i] = "verify"
  /\ Advance(i, AfterStart(i))
  /\ checked' = [checked EXCEPT ![job[i]] = TRUE]
  /\ live' = [live EXCEPT ![job[i]] = @ \/ Action(i) \in out[Server(i)]]
  /\ UNCHANGED <<machineVars, announced>>

Verify(i) ==
  /\ pc[i] = "verify"
  /\ \/ /\ SeenActive(i)
        /\ Advance(i, AfterStart(i))
        /\ checked' = [checked EXCEPT ![job[i]] = TRUE]
        /\ live' = [live EXCEPT ![job[i]] = @ \/ Action(i) \in out[Server(i)]]
        /\ UNCHANGED <<machineVars, announced>>
     \/ Refused(i)

\* stop_action: StopRecord or StopStream.  The answer says that the output has been
\* told to stop; nothing waits for it to end.  Code 501 (not running) is accepted, also
\* for an output that is still coming up.
StopAction_NotSent(i) ==
  /\ pc[i] = "stop_action"
  /\ Advance(i, "kill")
  /\ UNCHANGED <<machineVars, checked, live, announced>>

StopAction(i) ==
  /\ pc[i] = "stop_action"
  /\ \/ /\ obs[Server(i)] = "up"
        /\ out' = [out EXCEPT ![Server(i)] = @ \ {Action(i)}]
        /\ finishing' = [finishing EXCEPT ![Server(i)] = @ \cup (out[Server(i)] \cap {Action(i)})]
        /\ Answered(i, "kill")
        /\ UNCHANGED <<obs, sentinel, pending, crashes, checked, live, announced>>
     \/ Refused(i)

-----------------------------------------------------------------------------
(* The end of a stop, the end of a start *)

\* OBS on s is asked to close: taskkill, pkill, or close.exe.  Nobody looks whether it
\* is still finishing an output; from here on that is part of its closing.
CloseOBS(s) ==
  IF obs[s] = "off" THEN UNCHANGED <<obs, out, pending, finishing>>
  ELSE /\ obs' = [obs EXCEPT ![s] = "closing"]
       /\ out' = [out EXCEPT ![s] = {}]
       /\ pending' = [pending EXCEPT ![s] = {}]
       /\ finishing' = [finishing EXCEPT ![s] = {}]

\* kill_obs or run_close_exe; the outcome of the command is not looked at.
Kill_Skipped(i) ==
  /\ pc[i] = "kill"
  /\ Advance(i, "return")
  /\ UNCHANGED <<machineVars, checked, live, announced>>

Kill(i) ==
  /\ pc[i] = "kill"
  /\ \/ CloseOBS(Server(i)) /\ Answered(i, "return")
     \/ "silent" \in Faults /\ Advance(i, "return") /\ UNCHANGED <<obs, out, pending, finishing>>
     \/ Fail(i) /\ UNCHANGED <<obs, out, pending, finishing>>
  /\ UNCHANGED <<sentinel, crashes, checked, live, announced>>

\* publish_stream_started: fire and forget, it never raises.
Publish_Raises(i) ==
  /\ pc[i] = "publish"
  /\ announced' = [announced EXCEPT ![job[i]] = @ + 1]
  /\ Answered(i, "return")
  /\ UNCHANGED <<machineVars, checked, live>>

Publish(i) ==
  /\ pc[i] = "publish"
  /\ announced' = [announced EXCEPT ![job[i]] = @ + 1]
  /\ Advance(i, "return")
  /\ UNCHANGED <<machineVars, checked, live>>

\* The handler returns and the host completes the message.
Return(i) ==
  /\ pc[i] = "return"
  /\ End(i, "returned", "completed")
  /\ UNCHANGED <<machineVars, alerted, checked, live, announced>>

\* The invocation disappears; its message stays locked until the lock expires.
Crash(i) ==
  /\ "crash" \in Faults
  /\ pc[i] # "idle"
  /\ pc' = [pc EXCEPT ![i] = "idle"]
  /\ job' = [job EXCEPT ![i] = None]
  /\ attempt' = [attempt EXCEPT ![i] = 0]
  /\ owner' = [j \in Jobs |-> IF owner[j] = i THEN None ELSE owner[j]]
  /\ UNCHANGED <<now, status, tries, machineVars, historyVars>>

Step(i) == \/ Prepare(i) \/ Cleanup(i) \/ Launch(i) \/ Connect(i)
           \/ StartAction(i) \/ Verify(i) \/ Publish(i)
           \/ StopAction(i) \/ Kill(i) \/ Return(i)

-----------------------------------------------------------------------------
(* The remote machine, by itself *)

\* OBS has started and listens on its WebSocket port.
ObsUp(s) ==
  /\ obs[s] = "starting"
  /\ obs' = [obs EXCEPT ![s] = "up"]
  /\ UNCHANGED <<now, queueVars, hostVars, sentinel, out, pending, finishing, crashes,
                 historyVars>>

\* An output that a launch flag or start_action has asked for becomes active, or never will.
OutputComesUp(s) ==
  /\ obs[s] = "up"
  /\ \E a \in pending[s] :
       /\ pending' = [pending EXCEPT ![s] = @ \ {a}]
       /\ out' = [out EXCEPT ![s] = @ \cup {a}] \/ UNCHANGED out
  /\ UNCHANGED <<now, queueVars, hostVars, obs, sentinel, finishing, crashes, historyVars>>

\* An output that was told to stop has ended, its file is written.
OutputEnds(s) ==
  /\ obs[s] = "up"
  /\ \E a \in finishing[s] : finishing' = [finishing EXCEPT ![s] = @ \ {a}]
  /\ UNCHANGED <<now, queueVars, hostVars, obs, sentinel, out, pending, crashes, historyVars>>

\* OBS, asked to close, has gone: cleanly, or leaving its sentinel behind.
ObsExit(s) ==
  /\ obs[s] = "closing"
  /\ obs' = [obs EXCEPT ![s] = "off"]
  /\ \E clean \in BOOLEAN :
        sentinel' = [sentinel EXCEPT ![s] = @ /\ ~clean]
  /\ UNCHANGED <<now, queueVars, hostVars, out, pending, finishing, crashes, historyVars>>

\* OBS crashes, or its machine reboots: the sentinel survives.
ObsCrash(s) ==
  /\ obs[s] # "off"
  /\ crashes < MaxObsCrashes
  /\ crashes' = crashes + 1
  /\ obs' = [obs EXCEPT ![s] = "off"]
  /\ out' = [out EXCEPT ![s] = {}]
  /\ pending' = [pending EXCEPT ![s] = {}]
  /\ finishing' = [finishing EXCEPT ![s] = {}]
  /\ UNCHANGED <<now, queueVars, hostVars, sentinel, historyVars>>

Machine(s) == ObsUp(s) \/ OutputComesUp(s) \/ OutputEnds(s) \/ ObsExit(s) \/ ObsCrash(s)

Next == \/ Tick
        \/ \E i \in Invocations, j \in Jobs : Deliver(i, j)
        \/ \E j \in Jobs : LockExpires(j)
        \/ \E i \in Invocations : Step(i) \/ Crash(i)
        \/ \E s \in Servers : Machine(s)

Spec == Init /\ [][Next]_vars

\* The clock runs, the host keeps delivering, the calls of an invocation all end
\* (each has a time-out, the invocation has functionTimeout) and a lock nobody
\* holds expires (lockDuration).  Nothing is assumed of OBS or its machine.
Fairness == /\ WF_vars(Tick)
            /\ WF_vars(\E i \in Invocations, j \in Jobs : Deliver(i, j))
            /\ \A i \in Invocations : WF_vars(Step(i))
            /\ \A j \in Jobs : WF_vars(owner[j] = None /\ LockExpires(j))

FairSpec == Spec /\ Fairness

-----------------------------------------------------------------------------
(* What OBSControl promises *)

Starts == {j \in Jobs : Body[j].command = "start"}
Stops  == {j \in Jobs : Body[j].command = "stop"}

\* A start is consumed, and a stream announced, only when the handler's last check has
\* succeeded for it: verify_action_active, or the answer to StartRecord or StartStream.
SuccessIsChecked ==
  \A j \in Jobs :
    /\ j \in Starts /\ status[j] = "completed" => checked[j]
    /\ announced[j] > 0 => checked[j] /\ j \in Starts /\ Body[j].action = "streaming"

\* A start of a server with a scene is consumed, and its stream announced, only after its
\* own output was on the air when a status poll looked at it: neither a machine stuck
\* on the safe-mode dialog nor a launch flag without effect nor what an earlier
\* session is still finishing is "reported as a successful start (and falsely
\* announced)" (function_app.py, the comment above verify_action_active).  Without a
\* scene the handler knows only that OBS has accepted the command.
NoFalseSuccess ==
  \A j \in Starts :
    status[j] = "completed" \/ announced[j] > 0 =>
      checked[j] /\ (Scene[Body[j].server] => live[j])

\* The failure e-mail is sent for a job only when the job is lost, all its
\* deliveries used up: a failure that a retry repairs "must NOT trigger the
\* alert" (TestFailureLogSeverityByAttempt) - also when a message's lock
\* expired and two invocations work on the same job.
AlertOnlyWhenLost ==
  \A j \in Jobs : alerted[j] => status[j] = "dead" /\ tries[j] = MaxDelivery

\* Conversely, a job whose last delivery failed in a remote call has the e-mail.
RemoteDeadLetterAlerts ==
  \A j \in Jobs : status[j] = "dead" /\ ending[j] = "remote" => alerted[j]

\* A stream is announced once, however often its start is retried, unless a lock
\* of it expired (with its invocation at work, or gone): nothing that comes after
\* the publication can make the job fail.
AnnouncedOnce ==
  \A j \in Jobs : ~lost[j] => announced[j] <= 1

\* Seen from the queue, OBSControl keeps the promise of JobDelivery.
PhaseOf(st) == CASE st = "waiting" -> "waiting"
                 [] st = "locked"  -> "held"
                 [] st = "dead"    -> "dead"
                 [] OTHER          -> "done"

Delivery == INSTANCE JobDelivery WITH phase <- [j \in Jobs |-> PhaseOf(status[j])]
ImplementsDelivery == Delivery!Spec

\* A consumed stop means the machine is down: OBS is closing or closed and
\* produces nothing, until a start that is scheduled later has been delivered.
StoppedSessionIsDown ==
  \A j \in Stops :
    LET s == Body[j].server
    IN  /\ status[j] = "completed"
        /\ \A k \in Starts : Body[k].server = s /\ Body[k].at > Body[j].at => tries[k] = 0
        => obs[s] \in {"off", "closing"} /\ out[s] = {}

\* The session that start j opened is still to run: a stop of the same output
\* on the same server has not come due since.
InSession(j) ==
  /\ status[j] = "completed"
  /\ ~ \E k \in Stops : /\ Body[k].server = Body[j].server
                         /\ Body[k].action = Body[j].action
                         /\ Body[k].at > Body[j].at
                         /\ Due(k)

\* Once its start is consumed a session stays live until its own stop is due,
\* whatever the jobs of the other sessions do, if OBS itself does not crash, on a
\* server with a scene (without one nothing has looked at the output).
SessionStaysLive ==
  \A j \in Starts :
    InSession(j) /\ Scene[Body[j].server] /\ crashes = 0
      => Body[j].action \in out[Body[j].server]

\* A stop job closes OBS only when the output it is to end is neither active, unless
\* OBS has accepted the command to stop it, nor still coming up: the code 501 that
\* stop_action takes for an output that "was already stopped" has not hidden one that
\* comes up after it, and no other delivery has started it again before the kill.  (OBS
\* may still be finishing the output: nothing waits for it to end.)
ToldBeforeKill ==
  [][\A i \in Invocations :
       pc[i] = "kill" /\ pc'[i] # "kill" /\ obs[Server(i)] # "closing"
         /\ obs'[Server(i)] = "closing"
       => Action(i) \notin out[Server(i)] \cup pending[Server(i)]]_vars

\* A launch never stops at the "did not shut down properly" dialog, "regardless of
\* how the previous run ended" (launch_obs) - unless OBS dies while a job is carried
\* out a second time because its lock expired, between the two launches.
CleanLaunch ==
  (\E s \in Servers : obs[s] = "dialog") => crashes > 0 /\ \E j \in Jobs : lost[j]

\* Every message is consumed or dead-lettered in the end: no call blocks an
\* invocation for ever and no failure is retried for ever.
EveryJobSettles ==
  \A j \in Jobs : Body[j].at <= Horizon => <>(status[j] \in Settled)

-----------------------------------------------------------------------------
(* Why the promises about the queue hold: an inductive invariant *)

\* The owner of a lock is at work on that message, in its latest delivery.
OwnerAtWork ==
  \A j \in Jobs : owner[j] # None =>
    /\ status[j] = "locked"
    /\ pc[owner[j]] # "idle"
    /\ job[owner[j]] = j
    /\ attempt[owner[j]] = tries[j]

\* An invocation at work has a message, and no newer delivery than its last one.
AtWork ==
  \A i \in Invocations : pc[i] # "idle" =>
    /\ job[i] \in Jobs
    /\ attempt[i] <= tries[job[i]]

\* The last delivery still holds its lock, or the message is already dead.
LastDelivery ==
  \A i \in Invocations : pc[i] # "idle" /\ attempt[i] = MaxDelivery =>
    owner[job[i]] = i \/ status[job[i]] = "dead"

\* A message that waits has deliveries left, a dead one has none.
DeliveriesLeft ==
  \A j \in Jobs : /\ status[j] = "waiting" => tries[j] < MaxDelivery
                  /\ status[j] = "dead" => tries[j] = MaxDelivery

\* Each call belongs to one command, start_action to servers without a scene, and what
\* comes after the last check comes after that only.
InPlace(i) ==
  /\ pc[i] \in {"cleanup", "launch", "start_action", "verify", "publish"}
       => Command(i) = "start"
  /\ pc[i] \in {"stop_action", "kill"} => Command(i) = "stop"
  /\ pc[i] = "start_action" => ~Scene[Server(i)]
  /\ pc[i] = "publish" => Action(i) = "streaming"
  /\ pc[i] \in {"publish", "return"} /\ Command(i) = "start" => checked[job[i]]

CallsInPlace == \A i \in Invocations : InPlace(i)

\* An invocation at work owns its message, unless a lock of the message expired.
HoldsItsLock ==
  \A i \in Invocations : pc[i] # "idle" /\ ~lost[job[i]] => owner[job[i]] = i

\* A stream is announced at the very end of a delivery: by then the handler only
\* returns, or its invocation has disappeared.
AnnouncedLast ==
  \A j \in Jobs : ~lost[j] /\ announced[j] > 0 =>
    \/ status[j] = "completed"
    \/ status[j] = "locked" /\ (owner[j] # None => pc[owner[j]] = "return")

QueueInv == /\ TypeOK
            /\ OwnerAtWork /\ AtWork /\ LastDelivery /\ DeliveriesLeft
            /\ AlertOnlyWhenLost /\ RemoteDeadLetterAlerts

OnceInv == HoldsItsLock /\ AnnouncedLast /\ AnnouncedOnce

\* The inductive invariant: who works on which delivery of which message, and
\* with it the promises about alerts and announcements.
IInv == QueueInv /\ CallsInPlace /\ SuccessIsChecked /\ OnceInv

-----------------------------------------------------------------------------
(* Why the promises about the sessions hold: for schedules like these ... *)

\* The jobs of one machine are at different hours.
OneJobAnHour ==
  \A j, k \in Jobs :
    j # k /\ Body[j].server = Body[k].server => Body[j].at # Body[k].at

\* The first stop that follows a start on its machine ends the same output.
EndsItsOutput ==
  \A j \in Starts, k \in Stops :
    Body[k].server = Body[j].server /\ Body[k].at > Body[j].at =>
      \E l \in Stops : /\ Body[l].server = Body[j].server
                       /\ Body[l].action = Body[j].action
                       /\ Body[l].at > Body[j].at /\ Body[l].at <= Body[k].at

Apart == Prompt /\ OneJobAnHour

-----------------------------------------------------------------------------
(* ... an inductive invariant *)

\* A job is carried out in its hour: not before it, and it is settled after it.
InItsHour ==
  /\ \A i \in Invocations : pc[i] # "idle" => Body[job[i]].at = now /\ tries[job[i]] > 0
  /\ \A j \in Jobs : /\ Body[j].at > now => status[j] = "waiting" /\ tries[j] = 0
                     /\ Body[j].at < now => status[j] \in Settled

\* The hour of a start, or of a stop, on machine s.
HourOf(jobs, s) == \E j \in jobs : Body[j].server = s /\ Body[j].at = now

\* OBS and its outputs come up only in the hour of a start, and end only in that of a stop.
MotionInItsHour ==
  \A s \in Servers :
    /\ obs[s] = "starting" \/ pending[s] # {} => HourOf(Starts, s)
    /\ obs[s] = "closing" \/ finishing[s] # {} => HourOf(Stops, s)

\* An OBS that is not up has no output.
OutputsNeedObs == \A s \in Servers : obs[s] # "up" => out[s] = {}

\* A stop that goes on to close OBS has told its output to end, and none is coming up.
ToldToEnd ==
  \A i \in Invocations :
    pc[i] = "kill" => Action(i) \notin out[Server(i)] \cup pending[Server(i)]

\* A start that has been verified goes on only with its output seen on the air.
SeenInPlace ==
  \A i \in Invocations :
    pc[i] \in {"publish", "return"} /\ Command(i) = "start" /\ Scene[Server(i)]
      => live[job[i]]

\* A stop of the output that j starts has come due since.
EndDue(j) == \E k \in Stops : /\ Body[k].server = Body[j].server
                              /\ Body[k].action = Body[j].action
                              /\ Body[k].at > Body[j].at
                              /\ Due(k)

\* What was seen on the air for a start stays so until its stop is due, unless OBS dies.
LiveUntilItsEnd ==
  \A j \in Starts : live[j] =>
    /\ tries[j] > 0
    /\ crashes = 0 /\ ~EndDue(j) => Body[j].action \in out[Body[j].server]

SessionInv == /\ InItsHour /\ MotionInItsHour /\ OutputsNeedObs /\ ToldToEnd
              /\ SeenInPlace /\ NoFalseSuccess
              /\ EndsItsOutput => LiveUntilItsEnd

\* OBS is going down, or down, and produces nothing.
Down(s) == obs[s] \in {"off", "closing"} /\ out[s] = {}

\* A stop that has closed OBS has done so.
DownAtReturn ==
  \A i \in Invocations : pc[i] = "return" /\ Command(i) = "stop" => Down(Server(i))

\* A launch that is to come finds no sentinel, unless another invocation of the same
\* job has launched OBS since the clean-up; it may find OBS off then only if it has died.
SentinelRemoved ==
  \A i \in Invocations : pc[i] = "launch" /\ sentinel[Server(i)] =>
    lost[job[i]] /\ (obs[Server(i)] = "off" => crashes > 0)

\* What holds in addition if remote commands do not fail silently.
SpokenInv == DownAtReturn /\ StoppedSessionIsDown /\ SentinelRemoved /\ CleanLaunch

-----------------------------------------------------------------------------
(* What a document says and the code does not do *)

\* infra/main.bicep: "Alert when OBSControl function fails to start/stop OBS on
\* a remote server": no alert is raised by a start that reaches OBS and finds its
\* output on the air already.
NoAlertOnAir ==
  [][\A i \in Invocations :
       pc[i] = "start_action" /\ ~alerted[job[i]] /\ alerted'[job[i]]
       => Action(i) \notin out[Server(i)]]_vars
=============================================================================
