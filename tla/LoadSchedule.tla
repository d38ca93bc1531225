---------------------------- MODULE LoadSchedule ----------------------------
(***************************************************************************)
(* The LoadSchedule function (function_app.py): it reads the weekly CSV,   *)
(* cancels what an earlier run left in "obs-jobs" (queue_manager.py) and   *)
(* enqueues a start and a stop for every session that is not over yet      *)
(* (schedule_loader.py).  Runs are triggered by pushes and by hand, and    *)
(* nothing keeps two of them apart (load-schedule.yml).                    *)
(*                                                                         *)
(* cancel_sb_messages.py, run by hand, takes one session out of the queue. *)
(*                                                                         *)
(* The queue is Azure Service Bus, as this code uses it: a message whose   *)
(* time comes gets a new sequence number and can no longer be cancelled.   *)
(***************************************************************************)
EXTENDS Naturals, FiniteSets, Sequences, FiniteSetsExt

CONSTANTS
  Sessions,     \* the sessions a row of the CSV may describe
  StartAt,      \* StartAt[s], StopAt[s]: the hours of session s, in UTC
  StopAt,
  BadRow,       \* a row load_schedule rejects
  Schedules,    \* the versions current_week.csv goes through
  Runs,         \* the runs (of LoadSchedule, of the script) that may be in progress
  MaxRuns,      \* bound: how many runs are begun
  None,         \* no schedule
  Batch,        \* PEEK_BATCH_SIZE
  Faults,       \* the faults the environment may produce (see FaultKinds)
  Horizon       \* bound: the last hour of the clock

\* "fetch": GitHub does not answer.  "bus": a call on the Service Bus fails,
\* with or without effect.  "crash": a run disappears.
FaultKinds == {"fetch", "bus", "crash"}

ASSUME LoadAssumption ==
  /\ StartAt \in [Sessions -> Nat] /\ StopAt \in [Sessions -> Nat]
  /\ Schedules \subseteq Seq(Sessions \cup {BadRow})
  /\ BadRow \notin Sessions /\ None \notin Schedules
  /\ Batch \in Nat /\ MaxRuns \in Nat /\ Horizon \in Nat
  /\ Faults \subseteq FaultKinds

VARIABLES
  now,       \* the hour
  csv,       \* current_week.csv on main
  queue,     \* the messages in obs-jobs
  started,   \* how many runs have begun
  pc,        \* pc[r]: the next call of run r
  text,      \* text[r]: the CSV it has fetched
  seqs,      \* seqs[r]: the sequence numbers it is to cancel
  rows,      \* rows[r]: the rows of text[r] it has still to enqueue,
  half,      \* half[r]: the start of the first of them has been sent
  errors,    \* errors[r]: did a send fail?
  loaded,    \* history: the CSV of the last 200, while nothing is cancelled later
  incidents  \* history: what has gone wrong (see Mishaps)

runVars == <<pc, text, seqs, rows, half, errors>>
vars == <<now, csv, queue, started, runVars, loaded, incidents>>

Commands == {"start", "stop"}
Jobs     == Sessions \X Commands
At(job)  == IF job[2] = "start" THEN StartAt[job[1]] ELSE StopAt[job[1]]

\* A message: active once its time has come (locked by OBSControl or not).
Message(seq, job, active) == [seq |-> seq, job |-> job, active |-> active]
Messages == [seq : Nat, job : Jobs, active : BOOLEAN]

Steps == {"idle", "fetch", "servers", "parse", "peek", "cancel", "send", "withdraw"}

\* "overlap": a run was begun while another one was in progress.  "partial": a run
\* answered that it could not enqueue everything (207), or died.  "short": a peek
\* did not reach the end of the queue.  "disturbed": a cancel failed, the script has
\* cancelled messages, or time ran between two steps (the clock struck while a
\* message that was due waited, or while a run was about to enqueue a session that
\* was over by then; a message that was due was cancelled).
Mishaps == {"overlap", "partial", "short", "disturbed"}

Mishap(kinds) == incidents' = incidents \cup kinds
If(mishap, happened) == IF happened THEN {mishap} ELSE {}

TypeOK ==
  /\ now \in 0 .. Horizon
  /\ csv \in Schedules
  /\ queue \subseteq Messages
  /\ started \in 0 .. MaxRuns
  /\ pc \in [Runs -> Steps]
  /\ text \in [Runs -> Schedules \cup {None}]
  /\ seqs \in [Runs -> SUBSET Nat]
  /\ rows \in [Runs -> SUBSET Nat]
  /\ half \in [Runs -> BOOLEAN]
  /\ errors \in [Runs -> BOOLEAN]
  /\ loaded \in Schedules \cup {None}
  /\ incidents \subseteq Mishaps
  /\ \A r \in Runs : rows[r] # {} => pc[r] \in {"peek", "cancel", "send"}
                                  /\ \A n \in rows[r] : n \in DOMAIN text[r] /\ text[r][n] \in Sessions

Init ==
  /\ now = 0
  /\ csv \in Schedules
  /\ queue = {} /\ started = 0
  /\ pc = [r \in Runs |-> "idle"]
  /\ text = [r \in Runs |-> None]
  /\ seqs = [r \in Runs |-> {}]
  /\ rows = [r \in Runs |-> {}]
  /\ half = [r \in Runs |-> FALSE]
  /\ errors = [r \in Runs |-> FALSE]
  /\ loaded = None
  /\ incidents = {}

-----------------------------------------------------------------------------
(* The clock, the repository on GitHub, the queue *)

OverBy(s, hour) == StopAt[s] <= hour

Tick ==
  /\ now < Horizon
  /\ now' = now + 1
  /\ Mishap(If("disturbed", \/ \E m \in queue : At(m.job) <= now
                       \/ \E r \in Runs : \E n \in rows[r] : OverBy(text[r][n], now + 1)))
  /\ UNCHANGED <<csv, queue, started, runVars, loaded>>

\* A push that changes current_week.csv.
Push == /\ csv' \in Schedules \ {csv}
        /\ UNCHANGED <<now, queue, started, runVars, loaded, incidents>>

SeqsOf(messages) == {m.seq : m \in messages}

\* A sequence number after all those in use; those nobody knows any more are used
\* again, as only their order matters.
Known == {0} \cup SeqsOf(queue) \cup UNION {seqs[r] : r \in Runs}
Fresh == 1 + Max(Known)

\* The scheduled time of m has come.
Activate(m) ==
  /\ ~m.active /\ At(m.job) <= now
  /\ queue' = (queue \ {m}) \cup {Message(Fresh, m.job, TRUE)}
  /\ UNCHANGED <<now, csv, started, runVars, loaded, incidents>>

\* OBSControl has consumed or dead-lettered m.
Take(m) ==
  /\ m.active
  /\ queue' = queue \ {m}
  /\ UNCHANGED <<now, csv, started, runVars, loaded, incidents>>

-----------------------------------------------------------------------------
(* A run of LoadSchedule *)

Goto(r, next) == pc' = [pc EXCEPT ![r] = next]

\* The run answers, or its exception is answered for it.
Answer_RowsKept(r) ==
  /\ Goto(r, "idle")
  /\ text' = [text EXCEPT ![r] = None]
  /\ seqs' = [seqs EXCEPT ![r] = {}]
  /\ half' = [half EXCEPT ![r] = FALSE]
  /\ errors' = [errors EXCEPT ![r] = FALSE]
  /\ UNCHANGED rows

Answer(r) ==
  /\ Goto(r, "idle")
  /\ text' = [text EXCEPT ![r] = None]
  /\ seqs' = [seqs EXCEPT ![r] = {}]
  /\ rows' = [rows EXCEPT ![r] = {}]
  /\ half' = [half EXCEPT ![r] = FALSE]
  /\ errors' = [errors EXCEPT ![r] = FALSE]

\* One more run, next to those in progress.
Begin(r) ==
  /\ pc[r] = "idle"
  /\ started < MaxRuns /\ started' = started + 1
  /\ Mishap(If("overlap", \E q \in Runs : pc[q] # "idle"))

\* The workflow, or somebody by hand, calls the endpoint.
Trigger(r) ==
  /\ Begin(r)
  /\ Goto(r, "fetch")
  /\ UNCHANGED <<now, csv, queue, text, seqs, rows, half, errors, loaded>>

\* _fetch_text(csv_url); a failure is answered with 502.
Fetch(r) ==
  /\ pc[r] = "fetch"
  /\ \/ /\ text' = [text EXCEPT ![r] = csv]
        /\ Goto(r, "servers")
        /\ UNCHANGED <<seqs, rows, half, errors>>
     \/ "fetch" \in Faults /\ Answer(r)
  /\ UNCHANGED <<now, csv, queue, started, loaded, incidents>>

\* _load_servers_config(servers_url); a failure is answered with 502.
FetchServers(r) ==
  /\ pc[r] = "servers"
  /\ \/ Goto(r, "parse") /\ UNCHANGED <<text, seqs, rows, half, errors>>
     \/ "fetch" \in Faults /\ Answer(r)
  /\ UNCHANGED <<now, csv, queue, started, loaded, incidents>>

\* load_schedule: the rows of a valid CSV whose session is not over.
Invalid(file) == \E n \in DOMAIN file : file[n] = BadRow
Entries(file) == {n \in DOMAIN file : ~OverBy(file[n], now)}

\* load_schedule: an invalid row rejects the file (400), an empty schedule ends
\* the run (200), and neither touches the queue.
Parse_PurgesFirst(r) ==
  /\ pc[r] = "parse"
  /\ rows' = [rows EXCEPT ![r] = IF Invalid(text[r]) THEN {} ELSE Entries(text[r])]
  /\ Goto(r, "peek")
  /\ UNCHANGED <<now, csv, queue, started, text, seqs, half, errors, loaded, incidents>>

Parse(r) ==
  /\ pc[r] = "parse"
  /\ \/ Invalid(text[r]) /\ Answer(r)
     \/ ~Invalid(text[r]) /\ Entries(text[r]) = {} /\ Answer(r)
     \/ /\ ~Invalid(text[r]) /\ Entries(text[r]) # {}
        /\ rows' = [rows EXCEPT ![r] = Entries(text[r])]
        /\ Goto(r, "peek")
        /\ UNCHANGED <<text, seqs, half, errors>>
  /\ UNCHANGED <<now, csv, queue, started, loaded, incidents>>

\* peek_messages: the first Batch messages of the queue, scheduled or active.
Peeked == {m \in queue : Cardinality({n \in queue : n.seq < m.seq}) < Batch}

\* purge_scheduled_messages, first part; an exception is not caught (500).
Peek(r) ==
  /\ pc[r] = "peek"
  /\ \/ /\ seqs' = [seqs EXCEPT ![r] = SeqsOf(Peeked)]
        /\ Goto(r, IF Peeked = {} THEN "send" ELSE "cancel")
        /\ loaded' = IF Peeked = {} THEN None ELSE loaded
        /\ Mishap(If("short", Peeked # queue))
        /\ UNCHANGED <<text, rows, half, errors>>
     \/ "bus" \in Faults /\ Answer(r) /\ UNCHANGED <<loaded, incidents>>
  /\ UNCHANGED <<now, csv, queue, started>>

\* cancel_scheduled_messages(seqs[r]).  A number that is not that of a scheduled
\* message (any more) makes the call fail - with the others cancelled or not -
\* and the failure is not caught.
Doomed(r) == {m \in queue : m.seq \in seqs[r] /\ ~m.active}

Cancelled(r) ==
  /\ seqs[r] = SeqsOf(Doomed(r))
  /\ queue' = queue \ Doomed(r)

CancelRaises(r) ==
  /\ seqs[r] # SeqsOf(Doomed(r)) \/ "bus" \in Faults
  /\ queue' \in {queue, queue \ Doomed(r)}
  /\ Answer(r)

\* purge_scheduled_messages, second part.
Cancel_Skipped(r) ==
  /\ pc[r] = "cancel"
  /\ Goto(r, "send")
  /\ seqs' = [seqs EXCEPT ![r] = {}]
  /\ loaded' = None
  /\ UNCHANGED <<now, csv, queue, started, text, rows, half, errors, incidents>>

Cancel(r) ==
  /\ pc[r] = "cancel"
  /\ \/ /\ Cancelled(r)
        /\ Goto(r, "send")
        /\ seqs' = [seqs EXCEPT ![r] = {}]
        /\ Mishap(If("disturbed", \E m \in Doomed(r) : At(m.job) <= now))
        /\ UNCHANGED <<text, rows, half, errors>>
     \/ CancelRaises(r) /\ Mishap({"disturbed"})
  /\ loaded' = None
  /\ UNCHANGED <<now, csv, started>>

\* The message to send next: row by row, the start before the stop.
FirstRow(r) == Min(rows[r])
NextJob(r)  == <<text[r][FirstRow(r)], IF half[r] THEN "stop" ELSE "start">>

\* It has been tried.
Tried(r) ==
  /\ rows' = [rows EXCEPT ![r] = IF half[r] THEN @ \ {FirstRow(r)} ELSE @]
  /\ half' = [half EXCEPT ![r] = ~@]

\* A message for the past is active at once.
Enqueue(job) == queue' = queue \cup {Message(Fresh, job, At(job) <= now)}

\* One send_messages: done, or it raised - before or after the message was
\* accepted - and the error is noted.
Send_ErrorLost(r) ==
  /\ pc[r] = "send" /\ rows[r] # {}
  /\ Tried(r)
  /\ Enqueue(NextJob(r)) \/ ("bus" \in Faults /\ UNCHANGED queue)
  /\ UNCHANGED <<now, csv, started, pc, text, seqs, errors, loaded, incidents>>

Send(r) ==
  /\ pc[r] = "send" /\ rows[r] # {}
  /\ Tried(r)
  /\ \/ Enqueue(NextJob(r)) /\ UNCHANGED errors
     \/ /\ "bus" \in Faults
        /\ errors' = [errors EXCEPT ![r] = TRUE]
        /\ Enqueue(NextJob(r)) \/ UNCHANGED queue
  /\ UNCHANGED <<now, csv, started, pc, text, seqs, loaded, incidents>>

\* All messages have been tried: 200, or 207 if one of them failed.
Finish(r) ==
  /\ pc[r] = "send" /\ rows[r] = {}
  /\ loaded' = IF errors[r] THEN None ELSE text[r]
  /\ Mishap(If("partial", errors[r]))
  /\ Answer(r)
  /\ UNCHANGED <<now, csv, queue, started>>

\* The run disappears (time-out, restart of the app); nobody resumes it.
Crash(r) ==
  /\ "crash" \in Faults /\ pc[r] # "idle"
  /\ Answer(r)
  /\ Mishap({"partial"})
  /\ UNCHANGED <<now, csv, queue, started, loaded>>

-----------------------------------------------------------------------------
(* A run of cancel_sb_messages.py *)

\* The script peeks and picks the messages of session s (its server and title).
Match(r, s) ==
  /\ Begin(r)
  /\ seqs' = [seqs EXCEPT ![r] = SeqsOf({m \in Peeked : m.job[1] = s})]
  /\ Goto(r, IF seqs'[r] = {} THEN "idle" ELSE "withdraw")
  /\ UNCHANGED <<now, csv, queue, text, rows, half, errors, loaded>>

\* It cancels them, as the purge does.
Withdraw(r) ==
  /\ pc[r] = "withdraw"
  /\ (Cancelled(r) /\ Answer(r)) \/ CancelRaises(r)
  /\ loaded' = None
  /\ Mishap({"disturbed"})
  /\ UNCHANGED <<now, csv, started>>

Run(r) == \/ Trigger(r) \/ Fetch(r) \/ FetchServers(r) \/ Parse(r)
          \/ Peek(r) \/ Cancel(r) \/ Send(r) \/ Finish(r) \/ Crash(r)
          \/ (\E s \in Sessions : Match(r, s)) \/ Withdraw(r)

Next == \/ Tick
        \/ Push
        \/ \E m \in queue : Activate(m) \/ Take(m)
        \/ \E r \in Runs : Run(r)

Spec == Init /\ [][Next]_vars

-----------------------------------------------------------------------------
(* What LoadSchedule promises *)

SessionsOf(file) == {s \in Sessions : \E n \in DOMAIN file : file[n] = s}
Queued(job) == {m \in queue : m.job = job}

\* The rows of a file that list session s.
RowsOf(file, s) == {n \in DOMAIN file : file[n] = s}

\* What is to come in the queue is what the file lists: as many starts and stops of each
\* session as it has rows.  (A start to come of a session that is over is one of a session
\* that stops before it starts, which load_schedule does not enqueue any more.)
Holds(file) ==
  \A job \in Jobs : At(job) > now /\ ~OverBy(job[1], now) =>
    Cardinality(Queued(job)) = Cardinality(RowsOf(file, job[1]))

Calm == incidents \cap {"overlap", "short"} = {}

\* As long as runs do not overlap and the queue is within reach of a peek: after a
\* run has answered 200 for a schedule, and until something is cancelled again,
\* the queue holds that schedule - whatever runs were refused, failed or died
\* before and since
\* (test_load_schedule_function.py, TestLoadScheduleFunctionPurgeBeforeEnqueue).
QueueMatchesSchedule ==
  loaded # None /\ Calm => Holds(loaded)

\* Reloading never leaves more messages for a start or stop to come than a version of
\* the schedule has rows for it ("otherwise repeated runs accumulate duplicates", the
\* same test), however runs end, as long as they do not overlap.
NoDuplicatesInTurn ==
  Calm =>
    \A job \in Jobs : At(job) > now =>
      \E file \in Schedules : Cardinality(Queued(job)) <= Cardinality(RowsOf(file, job[1]))

\* What run r is about to enqueue: the stop of s, for a start that has been sent.
StopIsNext(r, s) == pc[r] = "send" /\ rows[r] # {} /\ NextJob(r) = <<s, "stop">>

\* No session is scheduled to start without being scheduled to stop, even while
\* runs overlap and the script cancels, unless the stop is about to be sent or was
\* lost on the way, which a run has reported or died of (function_app.py sends the
\* pair message by message; the script cancels both).
SessionsComeInPairs ==
  \A s \in Sessions :
    /\ now < StartAt[s] /\ StartAt[s] < StopAt[s]
    /\ Queued(<<s, "start">>) # {}
    /\ Queued(<<s, "stop">>) = {}
    => "partial" \in incidents \/ \E r \in Runs : errors[r] \/ StopIsNext(r, s)

-----------------------------------------------------------------------------
(* Why the queue holds the schedule: an inductive invariant *)

\* At most one run is in progress.
OneRun == \A q, r \in Runs : pc[q] # "idle" /\ pc[r] # "idle" => q = r

\* What is to come is among what the purge is about to cancel.
AllPeeked ==
  \A r \in Runs : pc[r] = "cancel" =>
    \A m \in queue : At(m.job) > now => m.seq \in seqs[r]

\* Until it sends, a run has all rows before it whose sessions are not over.
AllRowsLeft ==
  \A r \in Runs : pc[r] \in {"peek", "cancel"} =>
    \A s \in Sessions : ~OverBy(s, now) => RowsOf(text[r], s) \subseteq rows[r]

\* The rows for which a run that sends has tried to send a job.
TriedRows(r, job) ==
  {n \in RowsOf(text[r], job[1]) :
     n \notin rows[r] \/ (half[r] /\ n = FirstRow(r) /\ job[2] = "start")}

\* A run that sends has put into the queue what it has tried to, and no more.
SentOnce ==
  \A r \in Runs : pc[r] = "send" =>
    /\ loaded = None
    /\ \A job \in Jobs : At(job) > now =>
         /\ Cardinality(Queued(job)) <= Cardinality(TriedRows(r, job))
         /\ ~OverBy(job[1], now) /\ ~errors[r] =>
              Cardinality(Queued(job)) = Cardinality(TriedRows(r, job))

CalmInv ==
  Calm => OneRun /\ AllPeeked /\ AllRowsLeft /\ SentOnce
            /\ QueueMatchesSchedule /\ NoDuplicatesInTurn

=============================================================================
