----------------------------- MODULE SmokeTest -----------------------------
(***************************************************************************)
(* smoke_test.py: a test sends a job to "obs-jobs" and reads off the       *)
(* queue's counts whether it was consumed or dead-lettered; after a start  *)
(* it does the same with a stop.  The workflow runs one test per server,   *)
(* side by side, on one queue (smoke-test.yml, fail-fast: false).  Of the  *)
(* queue a test can rely on what JobDelivery promises.                     *)
(***************************************************************************)
EXTENDS Naturals, FiniteSets

CONSTANTS Tests,        \* the tests, each of its own server
          Command,      \* Command[t]: --command
          MaxDelivery,  \* maxDeliveryCount
          MaxPolls,     \* bound: the polls before the deadline
          ApiFails      \* may a call on the Service Bus raise?

ASSUME SmokeAssumption ==
  /\ Command \in [Tests -> {"start", "stop"}]
  /\ MaxDelivery \in Nat \ {0} /\ MaxPolls \in Nat \ {0} /\ ApiFails \in BOOLEAN

Jobs == Tests \X {"start", "stop"}

VARIABLES
  phase, tries,  \* the queue (see JobDelivery)
  sent,          \* the jobs that have been sent
  recording,     \* the tests whose server is left recording
  pc,            \* pc[t]: the next step of test t
  doing,         \* doing[t]: the command of the phase it is in
  base,          \* base[t]: the counts it has recorded as its baseline
  polls,         \* polls[t]: how often it has polled in this phase
  primary,       \* primary[t]: the code of its first phase (0 before)
  exit,          \* exit[t]: its exit code, once it is over
  raised,        \* history: the tests a call of which has raised
  shared         \* history: the tests during which the queue held other jobs

queueVars == <<phase, tries, sent, recording>>
testVars == <<pc, doing, base, polls, primary, exit>>
vars == <<queueVars, testVars, raised, shared>>

Queue == INSTANCE JobDelivery

Codes == 0 .. 2
NoCounts == [active |-> 0, dlq |-> 0]

TypeOK ==
  /\ phase \in [Jobs -> Queue!Phases] /\ tries \in [Jobs -> 0 .. MaxDelivery]
  /\ sent \subseteq Jobs /\ recording \subseteq Tests
  /\ pc \in [Tests -> {"baseline", "send", "poll", "over"}]
  /\ doing \in [Tests -> {"start", "stop"}]
  /\ base \in [Tests -> [active : Nat, dlq : Nat]]
  /\ polls \in [Tests -> 0 .. MaxPolls]
  /\ primary \in [Tests -> Codes] /\ exit \in [Tests -> Codes]
  /\ raised \subseteq Tests /\ shared \subseteq Tests

Init ==
  /\ Queue!Init
  /\ sent = {} /\ recording = {}
  /\ pc = [t \in Tests |-> "baseline"]
  /\ doing = Command
  /\ base = [t \in Tests |-> NoCounts]
  /\ polls = [t \in Tests |-> 0]
  /\ primary = [t \in Tests |-> 0]
  /\ exit = [t \in Tests |-> 0]
  /\ raised = {} /\ shared = {}

-----------------------------------------------------------------------------
(* The queue and the machines *)

\* get_queue_counts: a locked message still counts as active.
Pending   == {j \in sent : phase[j] \in {"waiting", "held"}}
Active    == Cardinality(Pending)
DeadCount == Cardinality({j \in sent : phase[j] = "dead"})

\* What carrying out job j does to the machine.
CarriedOut(j) == IF j[2] = "start" THEN recording \cup {j[1]} ELSE recording \ {j[1]}

Deliver(j) == j \in sent /\ Queue!Deliver(j) /\ UNCHANGED <<sent, recording>>

Consume(j) == Queue!Finish(j) /\ recording' = CarriedOut(j) /\ UNCHANGED sent

\* OBSControl fails, before or after it has reached OBS.
Fail(j) == /\ Queue!GiveBack(j)
           /\ recording' \in {recording, CarriedOut(j)}
           /\ UNCHANGED sent

ObsControl == /\ \E j \in Jobs : Deliver(j) \/ Consume(j) \/ Fail(j)
              /\ UNCHANGED <<testVars, raised, shared>>

-----------------------------------------------------------------------------
(* A test *)

Goto(t, step) == pc' = [pc EXCEPT ![t] = step]
Cleaning(t) == doing[t] # Command[t]

\* History: the tests that have begun and are not over.
Underway == {t \in Tests : pc[t] \in {"send", "poll"} \/ (pc[t] = "baseline" /\ Cleaning(t))}

\* A phase begins with the counts as they are.
Baseline(t) ==
  /\ pc[t] = "baseline"
  /\ base' = [base EXCEPT ![t] = [active |-> Active, dlq |-> DeadCount]]
  /\ Goto(t, "send")
  /\ shared' = IF \E j \in Pending : j[1] # t THEN shared \cup {t} ELSE shared
  /\ UNCHANGED <<queueVars, doing, polls, primary, exit, raised>>

Enqueue(t) == /\ sent' = sent \cup {<<t, doing[t]>>}
              /\ shared' = shared \cup (Underway \ {t})

Send(t) ==
  /\ pc[t] = "send"
  /\ Enqueue(t)
  /\ Goto(t, "poll")
  /\ UNCHANGED <<phase, tries, recording, doing, base, polls, primary, exit, raised>>

\* The locals of a phase are gone.
LeavePhase(t) == /\ base' = [base EXCEPT ![t] = NoCounts]
                 /\ polls' = [polls EXCEPT ![t] = 0]

NextPhase(t, code) ==
  /\ primary' = [primary EXCEPT ![t] = code]
  /\ doing' = [doing EXCEPT ![t] = "stop"]
  /\ Goto(t, "baseline")
  /\ UNCHANGED exit

\* The first code that is not 0 is the exit code.
Exit(t, code) ==
  /\ exit' = [exit EXCEPT ![t] = IF primary[t] = 0 THEN code ELSE primary[t]]
  /\ Goto(t, "over")
  /\ UNCHANGED <<primary, doing>>

\* A phase has its result: a start is followed by a clean-up, whatever the result.
Result_NoCleanup(t, code) ==
  /\ LeavePhase(t)
  /\ IF Command[t] = "start" /\ ~Cleaning(t) /\ code = 0
     THEN NextPhase(t, code) ELSE Exit(t, code)

Result(t, code) ==
  /\ LeavePhase(t)
  /\ IF Command[t] = "start" /\ ~Cleaning(t) THEN NextPhase(t, code) ELSE Exit(t, code)

\* What the counts say: dead-lettered (1), consumed (0), or neither.
Undecided_Uncounted(t) ==
  /\ DeadCount <= base[t].dlq /\ Active > base[t].active
  /\ UNCHANGED testVars

Undecided(t) ==
  /\ DeadCount <= base[t].dlq /\ Active > base[t].active
  /\ polls' = [polls EXCEPT ![t] = @ + 1]
  /\ UNCHANGED <<pc, doing, base, primary, exit>>

Judge_ActiveFirst(t) ==
  \/ Active <= base[t].active /\ Result(t, 0)
  \/ Active > base[t].active /\ DeadCount > base[t].dlq /\ Result(t, 1)
  \/ Undecided(t)

Judge(t) ==
  \/ DeadCount > base[t].dlq /\ Result(t, 1)
  \/ DeadCount <= base[t].dlq /\ Active <= base[t].active /\ Result(t, 0)
  \/ Undecided(t)

\* One look at the counts before the deadline.
Poll(t) ==
  /\ pc[t] = "poll" /\ polls[t] < MaxPolls
  /\ Judge(t)
  /\ UNCHANGED <<queueVars, raised, shared>>

\* The deadline has passed.
TimeOut_NoCode(t) ==
  /\ pc[t] = "poll" /\ polls[t] = MaxPolls
  /\ Result(t, 3)
  /\ UNCHANGED <<queueVars, raised, shared>>

TimeOut(t) ==
  /\ pc[t] = "poll" /\ polls[t] = MaxPolls
  /\ Result(t, 2)
  /\ UNCHANGED <<queueVars, raised, shared>>

\* A call raises - a send perhaps after it was accepted - and nothing catches it:
\* the interpreter exits with 1, whatever phase the test is in.
Raise(t) ==
  /\ ApiFails /\ pc[t] # "over"
  /\ Goto(t, "over")
  /\ exit' = [exit EXCEPT ![t] = 1]
  /\ raised' = raised \cup {t}
  /\ LeavePhase(t)
  /\ (pc[t] = "send" /\ Enqueue(t)) \/ UNCHANGED <<sent, shared>>
  /\ UNCHANGED <<phase, tries, recording, doing, primary>>

Step(t) == Baseline(t) \/ Send(t) \/ Poll(t) \/ TimeOut(t)

Next == ObsControl \/ \E t \in Tests : Step(t) \/ Raise(t)

\* The script goes on; nothing is assumed of the queue and OBSControl.
Spec == Init /\ [][Next]_vars /\ \A t \in Tests : WF_vars(Step(t))

-----------------------------------------------------------------------------
(* What the smoke test promises *)

Own(t) == {<<t, Command[t]>>, <<t, "stop">>}
Over(t) == pc[t] = "over"

\* The exit codes mean what the script's header says, for a test that had the queue
\* for itself: 0, all its messages were consumed; 1, one of them was dead-lettered
\* (or a call raised).
ExitTells ==
  \A t \in Tests \ shared : Over(t) =>
    /\ exit[t] = 0 => \A j \in Own(t) : phase[j] = "done"
    /\ exit[t] = 1 => t \in raised \/ \E j \in Own(t) : phase[j] = "dead"

\* "always enqueue a cleanup stop" (run): of a test that had the queue for itself and
\* reached a verdict, a server is left recording only until its stop is carried
\* out, also if its start was dead-lettered after it had reached OBS.
ReleasesTheRecording ==
  \A t \in Tests \ (shared \cup raised) :
    Over(t) /\ exit[t] # 2 /\ t \in recording =>
      <<t, "stop">> \in sent /\ phase[<<t, "stop">>] # "done"

-----------------------------------------------------------------------------
(* Why a test that had the queue for itself can trust the counts: an inductive *)
(* invariant                                                                   *)

Current(t) == <<t, doing[t]>>
Dead == {j \in sent : phase[j] = "dead"}

\* A test sends its start and then its stop, each once and after its baseline.
InTurn(t) ==
  /\ <<t, "start">> \in sent => Command[t] = "start" /\ (Cleaning(t) \/ pc[t] \in {"poll", "over"})
  /\ <<t, "stop">> \in sent => doing[t] = "stop" /\ pc[t] \in {"poll", "over"}
  /\ pc[t] = "poll" => Current(t) \in sent
  /\ Cleaning(t) => Command[t] = "start"
  /\ ~Cleaning(t) => primary[t] = 0

\* Its phases ran to the end, unless a call raised.
Complete(t) ==
  Over(t) /\ t \notin raised =>
    <<t, "stop">> \in sent /\ (primary[t] = 2 => exit[t] = 2)

\* A test that has not run into the deadline and not met other jobs.
Undisturbed(t) == t \notin shared /\ primary[t] # 2

\* No message but its current one can move the counts it compares with its baseline.
Counted(t) ==
  /\ t \in Underway => Pending \subseteq {Current(t)}
  /\ pc[t] \in {"send", "poll"} =>
       base[t] = [active |-> 0, dlq |-> Cardinality(Dead \ {Current(t)})]

\* Its first verdict was right, so that its start is settled before its stop is sent.
Settled(t) ==
  Cleaning(t) => phase[<<t, "start">>] = IF primary[t] = 0 THEN "done" ELSE "dead"

\* Its stop, once carried out, has the last word.
LastWord(t) == phase[<<t, "stop">>] = "done" => t \notin recording

SmokeInv ==
  /\ IsFiniteSet(sent)
  /\ \A j \in Jobs \ sent : phase[j] = "waiting"
  /\ \A t \in recording : <<t, "start">> \in sent
  /\ \A t \in Tests : InTurn(t) /\ Complete(t)
  /\ \A t \in Tests : Undisturbed(t) => Counted(t) /\ Settled(t) /\ LastWord(t)
  /\ ExitTells

-----------------------------------------------------------------------------

\* "max_wait_seconds": every test ends, even if nothing is ever delivered.
EveryTestEnds == \A t \in Tests : <>Over(t)

\* smoke_test.py: "0 -- message consumed successfully".
PassMeansConsumed ==
  \A t \in Tests : Over(t) /\ exit[t] = 0 => phase[<<t, Command[t]>>] = "done"
=============================================================================
