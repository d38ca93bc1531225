# Automated OBS Trigger in TLA+

A verification development for the program in this repository: the modules
model its components, TLC checks them on small instances, and TLAPS proves the
safety properties of every component, and the refinement, for every instance.  Paths below are
those of the repository.

## The system

A weekly schedule (`schedules/current_week.csv`) is pushed to GitHub.  A workflow
calls **LoadSchedule**, which reads the CSV, cancels what an earlier run left in
the Service Bus queue `obs-jobs`, and enqueues a *start* and a *stop* message for
every session, each to appear at its time.  **OBSControl** is triggered by each
message; it drives OBS Studio on a Windows or Mac machine over SSH and over the
OBS WebSocket (tunnelled through SSH).  A failure is re-raised so that the
message is delivered again, three times at most; the last failure logs a line an
Azure Monitor alert looks for.

| Component | Code | State it keeps | Operations | Interacts with |
|---|---|---|---|---|
| OBSControl | `function_app.py:189-311` | none between invocations; the message, its delivery count | one handler: start, stop | queue (lock, complete, abandon), GitHub, Key Vault, the machine, Event Grid, the alert |
| Remote controller | `src/remote_controller.py` | SSH client | `launch_obs`, `kill_obs`, `run_close_exe` | Task Scheduler / `open`, `taskkill` / `pkill`, OBS's sentinel directory |
| OBS tunnel | `src/remote_controller.py:296-385` | SSH transport, listening socket, one SSH channel and two threads per connection | enter, accept, forward, leave | paramiko, sockets, OBS's port |
| OBS WebSocket | `src/obs_websocket.py` | one client per call | `_connect`, `start_action`, `verify_action_active`, `stop_action` | OBS through the tunnel |
| Jobs queue | `infra/main.bicep:91-100` | messages, delivery counts, locks, dead letters | schedule, activate, deliver, settle, cancel | both functions |
| LoadSchedule | `function_app.py:97-182` | per run: CSV text, entries, errors | one handler | GitHub, queue |
| Queue manager | `src/queue_manager.py` | none | `purge_scheduled_messages`: peek, then cancel | queue |
| Schedule loader | `src/schedule_loader.py` | none (pure) | `load_schedule` | LoadSchedule, validator |
| Queue validator | `scripts/validate_sb_messages.py` | none | compares the queue with the schedule | GitHub, queue |
| Event publisher | `src/event_publisher.py` | a circuit breaker shared by a host's invocations | `publish_stream_started` | Event Grid |
| Smoke test | `scripts/smoke_test.py` | queue counts before and after | `run` | queue |
| Cancel script | `scripts/cancel_sb_messages.py` | none | cancels messages that match a filter | queue |
| Health, start-up validator, telemetry | `src/health.py`, `src/startup_validator.py`, `src/telemetry.py` | none | read-only checks, configuration | – |
| Workflows, infrastructure | `.github/workflows`, `infra` | – | deployment; the queue's parameters | – |

### What is hard in it, and what makes it correct

* **OBSControl** is one long sequence of remote calls with no transaction around
  it.  Each call can fail before it took effect, after it took effect, or without
  saying so; the invocation can vanish between two calls; the message's lock can
  expire while it works, so that two invocations carry out the same message; and
  invocations for different sessions of one machine run side by side.  It is
  correct if what it *says* is true (a start is consumed, a stream announced, only
  after the last check the handler has for it; the alert is raised for lost jobs), and if the machine
  is in the state of the session it is in, whatever was retried on the way.
* **The machine** has a state of its own: an OBS that died leaves a sentinel, and
  the next launch stops at a dialog; OBS accepts a command, and what it asks for
  happens later or never; OBS may close slowly or crash.
* **The tunnel** is four kinds of threads around sockets and channels with two
  different time-outs.  It is correct if the handler's retries and polls work
  through it, and if it leaves nothing behind.
* **LoadSchedule** replaces a queue message by message, with nothing keeping two
  runs apart and no undo.  It is correct if the queue ends up holding the schedule
  once, or if a failure is reported, and if a bad schedule leaves the queue alone.
* **The queue** turns a scheduled message into an active one with another sequence
  number, under the hands of the purge.
* **Event publisher**: three attempts in front of a circuit breaker that the publications
  of a host share and queue up for.  It is correct if it spares a bus that fails, loses
  nothing by itself and always lets the handler go on.
* **Schedule loader**: wall-clock times over midnight and over a change of daylight
  saving.  It is correct if a job is due when the zone's clock shows its time, and a
  stop after its start.
* **Smoke test**: a verdict read off counts that other jobs change, and a machine that
  must not be left recording.  It is correct if the exit code says what happened.
* **Queue validator**: it compares three things it has read at three moments, while the clock
  goes on and runs change the queue.  It is correct if its OK can be relied on.
* **Cancel script**: a second purge, by hand, next to everything above; it must not
  separate a start from its stop.

## The modules

| Module | Models | Built on |
|---|---|---|
| `JobDelivery` | abstract: what the queue promises of a message | – |
| `ObsControl` | OBSControl, the remote and WebSocket calls, the queue's delivery side, the machines | instantiates `JobDelivery` |
| `MCObsControl` | schedules and machines for TLC | extends `ObsControl` |
| `ObsControlProofs` | theorems about what `ObsControl` says (types, alerts, success, refinement) | extends `ObsControl`, `TLAPS` |
| `ObsSessionProofs` | theorems about the machine in and after a session | extends `ObsControlProofs` |
| `ObsTunnel` | `obs_tunnel`, `_forward`, and `_connect` / `verify_action_active` through them | – |
| `ObsTunnelProofs` | theorems about `ObsTunnel` | extends `ObsTunnel`, `TLAPS` |
| `LoadSchedule` | LoadSchedule, the purge, the cancel script, the queue's sending side | – |
| `ScheduledMachine` | the queue between LoadSchedule and a machine | extends `LoadSchedule` |
| `ScheduleValidator` | `validate_sb_messages.py` next to all that | extends `ScheduledMachine` |
| `ScheduleLoader` | `load_schedule`: rows, zones, UTC (no state) | – |
| `MCLoadSchedule` | versions of the CSV for TLC, their hours computed from rows | extends `ScheduleValidator`, `ScheduleLoader` |
| `MCScheduleLoader` | a file of rows around both changes of the clock | extends `ScheduleLoader` |
| `LoadScheduleProofs` | theorems about any runs: types, pairs of starts and stops | extends `LoadSchedule`, `TLAPS` |
| `LoadQueueProofs` | theorems about runs in turn, the machine and the validator | extends `LoadScheduleProofs`, `ScheduleValidator` |
| `ScheduleLoaderProofs` | theorems about the conversion of times | extends `ScheduleLoader`, `TLAPS` |
| `EventPublisher`, `EventPublisherProofs` | `publish_stream_started`, the retry and the breaker; theorems | – |
| `SmokeTest`, `MCSmokeTest` | the smoke tests of the workflow on one queue | instantiates `JobDelivery` |
| `SmokeTestProofs` | theorems about `SmokeTest` | extends `SmokeTest`, `TLAPS` |

### ObsControl

State: the queue (`status`, `tries`, `owner` of the lock), the invocations (`pc` is
the call an invocation makes next, `job` its message, `attempt` the delivery count
*it was given*), the machines (`obs`, `sentinel`, and the outputs: `pending` those asked for
and not yet active, `out` those active, `finishing` those told to stop and still active), and
history variables that no action reads (`alerted`, `ending`, `lost`, `checked`, `live`,
`announced`).

There is one action per call of the handler: `Prepare` (body, servers.yaml, secrets),
`Cleanup` and `Launch` (the two commands of `launch_obs`), `Connect`, `StartAction`,
`Verify`, `Publish`, `StopAction`, `Kill` (`kill_obs` or `run_close_exe`), `Return`.
The order is that of `function_app.py:253-300`: a start on a server with a scene relies
on the launch flag and verifies, one without starts over the WebSocket; the flags
themselves are added on a Mac only (`LaunchFlags`, from `remote_controller.py`), so a
Windows server with a scene is one the two places disagree about.  A call is
*refused* (no effect, exception), *answered*, or it takes effect and its answer is
lost; a remote shell command may also fail *silently*, since its stderr is only logged.
An exception in a call goes through `Fail` (log at Error if `attempt >= MaxDelivery`, give
the message back); one in `Prepare` goes past it, as lines 222-251 do.  `End` settles the
message only if the invocation still holds its lock.

An answer of OBS is an acceptance, not an effect.  `StartAction` leaves the output `pending`, as
`Launch` does with its flag; `OutputComesUp` makes it active at some later time, or drops it.
`StopAction` leaves an active output `finishing` until `OutputEnds`, and accepts the code 501 for
one that is not active, a pending one too.  `Kill` waits for neither.  `checked` is the last
thing the handler has learnt of a start (the acceptance, or an active poll), `live` that its
output really was on the air when a poll of `Verify` looked at it: `output_active` is also true of
one that is still finishing.

The environment: `Deliver`, `LockExpires`, `Crash` of an invocation, `Tick`, and of each
machine `ObsUp`, `OutputComesUp`, `OutputEnds`, `ObsExit` (cleanly or not), `ObsCrash`.

Constants: `Faults` is the set of faults a run allows (see `FaultKinds`); `Prompt` is the
assumption that nothing is late: every delivery of an hour's messages ends before the
next hour.  The properties of sessions need it, since the handler never looks at the
clock (see the third point under *What the documents say*).

### JobDelivery

Each message is handed out at most `MaxDelivery` times, and is finished or dead-lettered
once, dead-lettered only after its last delivery.  The refinement maps the two ways of
consuming a message (completed, ignored because its server is unknown) to `"done"` and
forgets owners; the whole handler is a stutter until its invocation ends.

### ObsTunnel

State: the handler's thread (`main`, `tries`, `polls`, `outcome`), the accept thread
(`acceptor`, `accepted`), and per local connection its socket, its channel, its two pipe
threads and how far the request or the answer has come.  The actions are the blocking points
of the threads.  Time is in the guards: half a second without data ends the pipe that
reads from the channel (`Silent`, `DownEnds`; `channel.settimeout(0.5)` raises an OSError
for `_forward`), a pause between two polls (2 s) is longer than that (`Wake`).
`open_channel` on a port nobody listens on ends the accept thread (`OpenChannel`), since
paramiko's ChannelException is neither `socket.timeout` nor `OSError`.  `seenActive` is
history: the output was active when the last poll was made, or has been since.

### LoadSchedule, ScheduledMachine and ScheduleValidator

State: the CSV on GitHub, the queue as a set of messages (sequence number, job, active or
scheduled), and per run where it is, what it fetched, what it peeked, which rows it has still
to enqueue (and whether the start of the first one is sent), whether a send failed.  The actions
are the run's steps `Fetch`, `FetchServers`, `Parse`, `Peek`, `Cancel`, one `Send` per message,
`Finish`; `Crash`; and `Push`, `Tick`, `Activate` (a new sequence number; the old one cannot be
cancelled any more) and `Take` (OBSControl consumed or dead-lettered it).  The cancel call names every
sequence number at once and fails as a whole when one of them is no longer scheduled, with the
others cancelled or not (`CancelRaises`).  A run may also be one of `cancel_sb_messages.py`:
`Match` peeks and picks a session, `Withdraw` cancels what it picked.  Sequence numbers are used again once no message
and no run knows them, as only their order matters; the state space is finite without a bound.

`incidents` is history: what went wrong in a way that a caller was told, or could see
(`Mishaps`).  The properties about a whole schedule are conditional on some of them.
`Calm` says that runs have not overlapped and every peek has reached the end of the queue.

`ScheduledMachine` adds the machine: `CarryOut` takes an active message and a start puts its
session on the air, a stop closes OBS.  It abstracts `ObsControl` to the effect of a job that
succeeds, so that what is left is the order in which LoadSchedule lets jobs come.  `forsaken` is
history: the sessions on the air whose stop was purged by a run whose file does not list them.

`ScheduleValidator` adds `validate_sb_messages.py`, whose three reads are three steps
with everything else in between: `ReadClock`, `ReadPage` (the CSV, from which `load_schedule`
drops what is over by the clock of *that* moment), and `Compare` (the peek, filtered by the
clock read first, and the verdict).  After an OK the script is over; `check` stays "ok" until a
run cancels or sends, or the script is called again, so that `ValidatorIsSound` says how long the OK
can be relied on.  An OK that rests on a short peek is forgotten at once, as any other end of the script.

### ScheduleLoader

Pure operators: a zone is a standard offset and one period of summer time; `ToUTC` is
`tz.localize(...).astimezone(utc)` with pytz's default `is_dst=False`, which takes the later of
two instants and, for a time that is skipped in spring, standard time all the same; `Rejected`,
`StopWall` (the next day if it is earlier), `StartDt`, `StopDt` and `Skipped` are the steps of
`load_schedule` on a row.  `MCLoadSchedule` computes the hours of its sessions with them, on
the morning on which London changes to summer time.

### EventPublisher

State: per publication its stage and its attempts; the breaker, its counter, the ticks since
it opened; and history.  `Rejected` and `LetThrough` are the breaker's two answers to an attempt,
`SendReturns` and `SendRaises` the ends of a send.  pybreaker holds its lock during the
call it protects, so one publication sends at a time (`Locked`).  The waits between attempts
(1 s, 2 s) are short against `reset_timeout` (60 s): the clock does not tick between them unless a
send holds the lock, and a send may take any time.

### SmokeTest

State: the queue, of which a test relies on no more than `JobDelivery` (a job may be delivered
late, again, dead-lettered or never), the servers left recording, and per test its phase,
baseline, polls, first code and exit code.  `Baseline`, `Send`, `Poll` (with `Judge`), `TimeOut` are
the steps of `_run_phase`; `Result` is what `run` does with its code; `Raise` is a call that
raises, which nothing catches.

## What is checked

Nothing is assumed of the runs below beyond their constants; deadlock is not checked
in any of them, because the systems do come to rest (clock at its horizon, all jobs
settled, calls used up, tunnel closed).

| Run | Instance | Result |
|---|---|---|
| `session` | one streaming session on Windows started over the WebSocket; 2 invocations, 2 deliveries, all faults, an OBS that dies once, nothing prompt, under fairness | `TypeOK`, `AlertOnlyWhenLost`, `RemoteDeadLetterAlerts`, `AnnouncedOnce`, the inductive invariant `IInv` (with `SuccessIsChecked`), `ImplementsDelivery` and `EveryJobSettles` hold |
| `sessions` | a stream and, an hour after its end, the start of the next on a Mac with a scene, prompt; 3 deliveries, crashes, lost locks | `NoFalseSuccess`, `StoppedSessionIsDown`, `SessionStaysLive`, `CleanLaunch`, `ToldBeforeKill` and the inductive invariants `SessionInv`, `SpokenInv` hold |
| `load` | three runs of LoadSchedule, the script or the validator, the first two side by side, over three versions of the CSV (one invalid), before, in and after the sessions, all faults, a peek of 3 messages; a machine | `TypeOK`, `QueueMatchesSchedule`, `NoDuplicatesInTurn`, `SessionsComeInPairs`, `ValidatorIsSound`, `FollowsSchedule` and the inductive invariants `CalmInv`, `MachineInv`, `ValidatorInv` hold |
| `tunnel` | two connection attempts, two polls, all faults, under fairness | `TypeOK`, `NothingIsOrphaned`, `VerifiedWasActive`, the inductive invariant `TunnelInv` and `TunnelEnds` hold |
| `publisher` | four publications, three attempts, three failures to open, under fairness | `TypeOK`, `BusIsSpared`, `LostInTroubleOnly`, `EveryPublicationEnds` hold |
| `smoke` | a test that starts and one that stops another server, two deliveries, two polls, calls that raise, under fairness of the tests only | `TypeOK`, `ExitTells`, `ReleasesTheRecording`, the inductive invariant `SmokeInv` and `EveryTestEnds` hold |
| `false_alert` | a session over the WebSocket, no fault but lost answers | `NoAlertOnAir` is violated |
| `back_to_back` | one session starts when another stops | `SessionStaysLive` is violated |
| `tunnel_retries` | OBS comes up between two attempts | `RetriesReachObs` is violated |
| `tunnel_polls` | the output comes up between two polls | `PollsReachObs` is violated |
| `smoke_verdict` | the workflow's two tests | `PassMeansConsumed` is violated |
| `dst_gap` | rows in New York around both changes of the clock | `AcceptedStopsAfterStart` is violated |

### What the properties say

* `SuccessIsChecked` (in `IInv`): a start is consumed, and a stream announced, only after the
  handler's last check succeeded *for that message*: an active poll, or, without a scene, the
  acceptance of StartRecord or StartStream.  The latter says nothing of the output: one that never
  comes up after it is a success to the code, and is announced.
* `NoFalseSuccess`: on a server with a scene the output of that message was on the air when a
  poll looked at it; neither a launch flag without effect nor the tail of an earlier
  session passes for it, while sessions are apart in time.
* `AlertOnlyWhenLost`, `RemoteDeadLetterAlerts`: the alert is raised only for jobs
  that are dead-lettered, and for every one whose last delivery failed in a remote call.  The first could break when a lock expires: an old
  invocation at delivery 2 fails after delivery 3 has begun.  It does not, because
  the handler compares the count it was given, and an invocation given the last one
  fails either with its lock (the message dies) or after the lock's expiry (it is dead).
* `AnnouncedOnce`: no retry announces a stream again, unless a lock of its message
  expired.  With an expired lock it can be announced twice; the code has nothing that
  would tell.
* `StoppedSessionIsDown`, `SessionStaysLive`: the machine and the queue agree about the
  session, through retries and crashes, while sessions are apart in time (the latter on servers
  with a scene, where an output was seen at all).
* `CleanLaunch`: a launch never stops at the safe-mode dialog, *unless* OBS dies between
  the launches of two invocations of the same message.  The condition is the exception
  TLC found: the second invocation's clean-up precedes the first one's launch.
* `ToldBeforeKill` (an action property): a stop closes OBS only when OBS has accepted to end the
  output, and none is on its way up that the code 501 has hidden or another delivery has asked
  for since.  It does *not* say that the output has ended: nothing in the code waits for that, and OBS may
  be closed while it is finishing a recording.
* `EveryJobSettles`: every message that comes due is consumed or dead-lettered, whatever OBS and
  its machine do.
* `QueueMatchesSchedule`: as long as runs do not overlap and no peek has fallen short, after a
  200 and until something is cancelled again, the queue holds each job to come as often as that
  schedule has rows for it, whatever runs were refused, failed or died before and since.
  (`Holds` leaves out the start to come of a session that is over: one that stops before it
  starts, see 8 below.)
* `NoDuplicatesInTurn`: more messages for a job to come than a version of the schedule has rows for
  it need overlapping runs or a short peek, not just a failing run.
* `SessionsComeInPairs`: a start to come without its stop is reported (207), or its run died or is
  about to send the stop.  This holds with overlapping runs, short peeks, cancels that
  fail half-way and the script, because a stop is always behind its start in the queue, and
  who cancels the stop has peeked the start.
* `ValidatorIsSound`: "OK" means that the queue holds what is to come of the schedule the script
  has fetched, when it is printed and until a run cancels or sends, although hours
  pass, jobs come due and runs purge and send between its reads.  It holds because the clock
  that filters the queue is the oldest of the three and that of the schedule is older than the
  peek.  It says nothing of the CSV of the moment (which may have been pushed since), and the
  converse is not true: in the hours of a session its start is expected (the session is not over) but
  no longer in the future, and is reported as missing.
* `FollowsSchedule`: once what is due has been carried out, the sessions of the schedule that was
  loaded last are on the air in their hours and at no other time, however often it was
  loaded, in the middle of a session or not.  The conditions are necessary: TLC finds a
  counterexample when runs may overlap, and one when the clock strikes in the middle of a run.
  So is the exception for `forsaken` sessions, which the proof brought out: a session is on the air; a
  run loads a file without its row, which purges its stop; after its hours the row comes back,
  and the run that loads it skips the row, as the session is over.  Nothing ends it then.
* `TunnelEnds`: the tunnel's end leaves no thread, socket or channel.
* `NothingIsOrphaned`: at any moment every connection and every channel has somebody who will close
  it: the listening socket, the accept thread, its two pipes, and when the call has returned none
  of the first two is there to be waited for.  It would break if a thread could open a channel
  after the transport is gone, or accept after the listener is closed.
* `VerifiedWasActive`: an output is reported active only if it was active during the poll that says
  so, or since.
* `BusIsSpared`: at most `fail_max` sends fail before `reset_timeout` passes without one, however many
  publications retry at once.
* `LostInTroubleOnly`: a publication is lost only if a send failed during it or less than
  `reset_timeout` before it began; attempts made while the breaker is open do not keep it so.
* `EveryPublicationEnds`: no publication is stuck behind the breaker's lock or its own retries.
* `ExitTells`: for a test that had the queue for itself, 0 means that all its messages were consumed, 1
  that one was dead-lettered or a call raised.
* `ReleasesTheRecording`: such a test leaves a server recording only until a stop it has sent is
  carried out, also when its start was dead-lettered after it had reached OBS.
* `EveryTestEnds`: every test ends, whether or not the queue ever delivers.

### What the documents say and the code does not do

1. *Alerts.*  `infra/main.bicep:267` describes the alert as "Alert when OBSControl function
   fails to start/stop OBS on a remote server".  When the answer to StartStream is lost,
   the stream may come up all the same: the retries are refused because it runs, and the last one
   raises the alert for a live stream (`false_alert`).  Failures before the `try` block (servers.yaml, Key Vault)
   dead-letter the job under another log text and raise no alert; `RemoteDeadLetterAlerts`
   therefore speaks of failures in a remote call only.
2. *Several sessions.*  `README.md:50`: "Multiple rows per server per week are fully
   supported."  A stop closes the machine's OBS whatever session it runs, so a session that
   starts the minute another stops can be closed with it (`back_to_back`: the first OBS never came
   up, the stop finds the one the next start has launched, and closes it after it was verified).
3. *On time.*  `README.md:21`: "fires at exact start / stop time".  A message delivered late is
   carried out all the same, and a start can outlive its stop: `StoppedSessionIsDown` is
   violated when `Prompt` is FALSE.
4. *Purge.*  `tests/unit/test_load_schedule_function.py:505`: the purge keeps repeated runs from
   accumulating duplicates.  Overlapping runs do; hence the condition of `NoDuplicatesInTurn`.
5. *Retries of `_connect`.*  `src/obs_websocket.py:65`: "Retries up to WS_MAX_RETRIES times to
   allow OBS time to fully start".  The first refused channel ends the accept thread, so no later
   attempt can succeed (`tunnel_retries`).
6. *Polls.*  `src/obs_websocket.py:54-55` explain that the output is polled because it may take a
   moment.  The pause between polls outlasts the channel's time-out, and the second
   poll is never answered (`tunnel_polls`).
7. *Smoke test.*  `scripts/smoke_test.py:10`: "0 -- message consumed successfully".  Side by side
   with another test, a test may take the end of the other's message for that of its own, and pass
   with its message waiting or dead-lettered (`smoke_verdict`).  `run` says "always enqueue a
   cleanup stop"; a call that raises skips it, hence the condition of `ReleasesTheRecording`.
8. *A stop before its start.*  `schedule_loader.py:108` rejects a row unless "stop_time ... must be
   after start_time", but compares them on the wall clock.  A start in the hour that is
   skipped in spring is read as standard time and comes after a stop shortly behind the
   change; TLC's row is 02:00 to 03:00 in New York, both 07:00 UTC (`dst_gap`).

In `ObsControl` 5 and 6 appear as the choice of `Connect` and `Verify` to fail although OBS
is up or the output comes up: its safety properties hold for a tunnel that works and for
this one.

### Bounds

* `MaxDelivery`: 3 in the code, in `sessions` and in the violation runs, 2 in `session` and `smoke`: a first
  delivery, and one that is both a repetition and the last.  The theorems hold for any number.
* Two invocations: what goes wrong between invocations goes wrong between two (two
  deliveries of one message, or the stop of one session and the start of another).  The
  theorems hold for any number.
* One server: invocations for different servers share no state but the host.  The theorems hold for any set.
* `Horizon` is the hour of the last message (plus nothing that could still happen), an hour
  stands for any stretch of time between two events of the schedule.  In `load` it is 2, after the
  end of the first session and before the second, so that runs meet sessions to come, in progress and over.
* `MaxObsCrashes` is 0 or 1: one crash leaves the sentinel, which may also be there initially.
* `MaxRetries = 2` (10 in the code) and `MaxChecks = 2` (5): a first attempt and a later one,
  a first poll and a later one; the third is in no other position than the second.
* `MaxRuns = 3` calls of LoadSchedule or the script, two of them side by side: a schedule, its
  change, and a failure or an overlap.  A check of the validator counts as one of them while it
  lasts (the next one may follow when its OK is outdated), the CSV changes just before somebody reads it,
  and when two runs have overlapped no more begin, only a check (`BoundedSpec`
  in `MCLoadSchedule`; `ValidatorSpec` and the theorems about it have none of this).  `Batch = 3`: a queue that is within reach of a peek and one
  that is not (1000 in the code).
* Versions of the CSV with one session each in `load`: two sessions would add messages, not
  steps.  They are chosen so that a session is dropped, added, or made invalid by the change.
  A dropped session that comes back after its hours, next to another one, is not reached
  in `load`; `MachineFollowsTheSchedule` covers it, as it covers files with any rows.
* `MaxPolls = 2`: a poll that says nothing, and one before the deadline.  `ResetTimeout = 2` ticks: one
  inside the breaker's time-out, one at its end.  `MaxAttempts` and `FailMax` are the code's.
  Four publications, so that the breaker can be opened by one, by several, and met by another one.
* `dst_gap`: the rows within a day of each change, in half hours.

### Fairness

`ObsControl!FairSpec`: weak fairness of the clock, of the trigger (the host keeps delivering),
of each invocation's steps, and of the expiry of a lock nobody holds (`lockDuration`).  An
invocation's steps all end because each call has a time-out (SSH connect and command, the
WebSocket's 15 s, `requests` time-outs) and the host ends an invocation after `functionTimeout`
(`host.json:15`).  Nothing is assumed of OBS or its machine, nor that a crash ever stops
happening: the delivery count bounds the retries.

`ObsTunnel!FairSpec`: weak fairness of each thread.  A thread is blocked only in the calls the
model gives guards (accept, recv, the WebSocket's receive), each with the time-out the code
sets; OBS and the network get no fairness.

`EventPublisher!Spec`: weak fairness of each publication's steps; a send ends because the Service Bus
client has time-outs, and tenacity's waits end.  Nothing is assumed of the clock.

`SmokeTest!Spec`: weak fairness of each test's steps (a sleep, a poll, a send with a time-out), none
of the queue and of OBSControl.

`LoadSchedule` has no liveness property: nobody retries a failed run, so none holds.

## What is proved

`ObsControlProofs`, for every set of jobs, servers and invocations, every `MaxDelivery`,
every schedule, platform and scene, every set of faults, prompt or not, under
`ControlAssumption` only (the constants have their types and `None` is not a job):

| Theorem | States |
|---|---|
| `Invariance` | `Spec => []IInv` |
| `TypeCorrect` | `Spec => []TypeOK` |
| `AlertsAreFinal` | `Spec => []AlertOnlyWhenLost` |
| `LostJobsAreReported` | `Spec => []RemoteDeadLetterAlerts` |
| `OneAnnouncement` | `Spec => []AnnouncedOnce` |
| `Refinement` | `Spec => ImplementsDelivery` |

None of the promises is inductive by itself.  That an alert is final needs to know that an
invocation which was given the last delivery still holds its lock or finds the message dead
(`LastDelivery`); that needs `OwnerAtWork` (the owner of a lock is at work on that message,
at its latest delivery), `AtWork` (no invocation is ahead of its message) and
`DeliveriesLeft` (a waiting message has deliveries left, a dead one has none).  That a
success was checked needs the place of each call in the handler (`InPlace`: what follows the
last check follows only that).  That a stream is announced once needs `HoldsItsLock`
(without an expiry an invocation at work owns its message) and `AnnouncedLast` (after the
publication the handler only returns).  `IInv` is their conjunction; `session` checks it
with TLC.

The proof does not go action by action: a step of an invocation does to the queue one of
three things (`StepShape`: it goes on, it fails, or it ends quietly), and each conjunct of the
queue part is kept by those, by `Deliver`, `LockExpires` and `Crash`, and by the rest, which
leaves the queue alone.  The types of the machines, the places, what is checked and what is announced are
then treated one by one, action by action where the action matters.
The refinement maps the initial states and shows each step, under `IInv`, to be a step of
`JobDelivery` or a stutter.

`ObsSessionProofs` is about the machine, under `Apart`: jobs are carried out in their hour
(`Prompt`) and a machine has one job an hour.  This is what the code relies on without checking it
(see 2 and 3 above); TLC's run `sessions` has such a schedule.

| Theorem | States | Under |
|---|---|---|
| `SessionInvariance` | `Spec => []SessionInv` | `Apart` |
| `SpokenInvariance` | `Spec => []SpokenInv` | `Apart`, no silent faults |
| `SuccessIsSeen` | `Spec => []NoFalseSuccess` | `Apart` |
| `StopsAreToldBeforeKill` | `Spec => ToldBeforeKill` | `Apart` |
| `SessionsStayLive` | `Spec => []SessionStaysLive` | `Apart`, `EndsItsOutput` |
| `StopsHold` | `Spec => []StoppedSessionIsDown` | `Apart`, no silent faults |
| `LaunchesAreClean` | `Spec => []CleanLaunch` | `Apart`, no silent faults |

`EndsItsOutput` says that the first stop after a start is one of the same output.  A silent fault is a
remote command that fails and is only logged; with one, `pkill` may leave OBS up and `CleanLaunch` and
`StoppedSessionIsDown` fail, so the condition is needed.  The key of `SessionInv` is
`InItsHour`: an invocation at work has a job of this hour, so what it does to a machine belongs to
the one job the machine has now; `MotionInItsHour` says the same of an OBS and of outputs that are coming up or
ending (so a poll in the hour of a start meets no output that is being finished, and a stop no
output that is coming up), and `LiveUntilItsEnd` then follows through any number of redeliveries and invocations that
have lost their lock.  `SpokenInv` adds what a stop has done by the time it returns (`DownAtReturn`)
and that the clean-up is not undone before its launch (`SentinelRemoved`).

`LoadScheduleProofs`, for every schedule, any number of concurrent runs, any size of a peek
and every fault, under `LoadAssumption`: `LoadInvariance` (`Spec => []LInv`), `LoadTypeCorrect`
and `StartsComeWithStops` (`Spec => []SessionsComeInPairs`).  `SessionsComeInPairs` is not
inductive: that a cancel cannot take a stop and leave its start needs `DownClosed` (who is
about to cancel a stop knows the starts of its session before it), which needs the order of
the queue (`QueueInOrder`: numbers are unique, what is active is due), a greatest number in use
(`Bounded`, so that a new one is greater than all known ones) and that a peek returns a prefix
(`PeekIsAPrefix`); and the stop must be behind the start (`Paired`, `Stopped`).  The proof
has one lemma per kind of step on the queue (it shrinks, it grows by one message, a run learns
numbers) and goes action by action for the types and the pairs.

`LoadQueueProofs` is about runs that follow one another, for every schedule (a row may be listed
twice), any number of runs, any size of a peek and every fault:

| Theorem | States | Under |
|---|---|---|
| `CalmInvariance` | `Spec => []CalmInv` | |
| `QueueIsTheSchedule` | `Spec => []QueueMatchesSchedule` | |
| `ReloadsDoNotAddUp` | `Spec => []NoDuplicatesInTurn` | |
| `MachineImplements` | `MachineSpec => Spec` | |
| `MachineInvariance` | `MachineSpec => []MachineInv` | |
| `MachineFollowsTheSchedule` | `MachineSpec => []FollowsSchedule` | `OneAtATime` |
| `ValidatorOnlyReads` | `ValidatorSpec => MachineSpec` | |
| `ValidatorInvariance` | `ValidatorSpec => []ValidatorInv` | |
| `TheValidatorIsRight` | `ValidatorSpec => []ValidatorIsSound` | |

The argument counts.  While a run sends, a job to come is in the queue as often as the run has tried to
send it (`SentOnce`, with `TriedRows`), or less often if an error was noted: `RowTried` and
`MessageSent` show that one send adds one to both sides.  It starts from nothing, because a purge
that succeeds takes all that is to come (`AllPeeked`), and has all rows before it (`AllRowsLeft`); at the
end the rows tried are the rows of the file.

`FollowsSchedule` needs an invariant of the machine, the queue and the run together, as long as nothing
has gone wrong: a session on the air, or about to be, has its stop in the queue or ahead in the
rows of the run that took it out (`StopsAhead`, `HasStop`, `Ahead`), and a session in its hours is on
the air or its start is due (`StartsBehind`, `OnTime`).  That a stop hits no other session needs
`OneAtATime` (sessions do not meet) and `DueNow` (nothing due has waited); that a purge takes
everything or fails needs `PurgesAll`.  The case of a purge for a file that has lost a row is where
`forsaken` comes from.

`ValidatorIsSound` needs to know how old what the validator has read is (`ReadsAreOld`): its clock is
behind, and the rows it expects are all those that are not over by now and perhaps some more.
`CompareIsRight` compares the counts for the jobs that are to come by the clock of the peek, which
pass every filter; `HoldsOn` shows that the clock, a push, a message that becomes active and one
that is carried out take nothing of that away afterwards.

`ScheduleLoaderProofs`, for every zone with one period of summer time, every day and every
row: `JobsReadTheClock`, `TheLaterOfTwo`, `SessionsRunForward` (an accepted row whose start
exists on the clock stops after it starts) and `SessionsLast`.

`EventPublisherProofs`, for any set of publications, any number of attempts and failures and
any time-out, under `PublisherAssumption`: `PublisherInvariance`, `PublisherTypeCorrect`,
`BreakerSparesTheBus` and `NothingLostInPeace`.  The invariant ties the history to the
breaker: while it is closed no more sends have failed than it has counted, and while it is
open its age is the time since the last failed send.

`ObsTunnelProofs`, for any number of retries and polls and every fault, under the module's assumption
about its constants: `TunnelInvariance` (`Spec => []TunnelInv`), `TunnelTypeCorrect`,
`ConnectionsAreAttended` (`NothingIsOrphaned`) and `VerificationIsFresh` (`VerifiedWasActive`).  `MainInv`
ties the handler's thread to what it holds and to the listener and the transport; `ConnInv` follows
one connection from the backlog through the accept thread to its pipes; `AnswerInv` says that an
answer the current poll may read was given after it.

`SmokeTestProofs`, for any set of tests and polls, under the module's assumption:
`SmokeInvariance`, `SmokeTypeCorrect`, `ExitCodesTell` (`ExitTells`) and `RecordingIsReleased`
(`ReleasesTheRecording`).  The point of `SmokeInv` is `Counted`: for a test that has had the queue for
itself nothing but its current message can move the counts it compares with its baseline, so a
verdict speaks of that message (`Settled`), and its stop, sent after its start is settled, has the
last word (`LastWord`).

Only model-checked: the liveness properties (`EveryJobSettles`, `TunnelEnds`,
`EveryPublicationEnds`, `EveryTestEnds`), which are out of the prover's reach.  Every invariant and
action property of the passing runs is a theorem, for every value of the constants, under the
assumptions above.

## What is not modelled

* *The malformed body, the unknown command* of OBSControl: LoadSchedule sends neither.
* *OBSControl's failures next to LoadSchedule's*: `ScheduledMachine` carries out every job it takes;
  `ObsControl` says what a job that fails leaves behind.
* *Zones that change their offset for good, or more than twice a year*, and the syntax of the CSV.
* *Duplicates by the sender's own retries inside the Service Bus client.*
* *What becomes of an output that is still being finished when OBS is closed*: it is gone with OBS,
  and no property says that a recording is complete.
* *A failing cancel that takes an arbitrary part of the messages it names*: it takes all those that can
  be cancelled, or none (`CancelRaises`).
* *A filter of the cancel script that matches several sessions*: `Match` picks one.
* *The contents of a StreamStarted event* and its trace ids.
* *A breaker shared by hosts*: it is not; each host has its own, and the model is one host.
* *Health, start-up validator, telemetry, deployment*: `check_health` makes three independent read-only
  calls and reports them; `validate_required_config` is one check at import; telemetry configures
  an exporter; the workflows run scripts in order.  None of them keeps state, changes state
  another part reads, or has an order that could go wrong.
* *The contents of messages, secrets, host keys, command lines and log texts* are abstracted to
  what the properties tell apart.

## Plan

Done: all modules above, and a theorem for every safety property of the passing runs.  Left:

1. `ValidatorIsSound` and `QueueMatchesSchedule` composed with `ScheduleLoader`: that the hours in the
   queue are those the zone's clock shows.
2. `EveryTestEnds` and the other liveness properties as bounds: a measure that every fair step
   decreases, whose decrease is a safety property and can be proved.

## Running

    tlc -config session.cfg MCObsControl      # and likewise the other runs
    tlapm ObsControlProofs.tla                # and likewise the other proofs

`load`, `session` and `sessions` take two to three minutes each, `tunnel` one; the others less.
