--------------------------- MODULE EventPublisher ---------------------------
(***************************************************************************)
(* publish_stream_started (event_publisher.py), called by the invocations  *)
(* of one host: three attempts (tenacity), each of them through a circuit  *)
(* breaker (pybreaker) that the publications share.                        *)
(*                                                                         *)
(* The breaker holds its lock during the call it protects, so that the     *)
(* publications send one after the other.  After fail_max failures in a    *)
(* row it is open; attempts fail at once until reset_timeout has passed,   *)
(* then one attempt is let through and decides.  The waits between the     *)
(* attempts (1 s, 2 s) are short against reset_timeout (60 s), a send may  *)
(* be long.                                                                *)
(***************************************************************************)
EXTENDS Naturals

CONSTANTS Publications,   \* the calls of publish_stream_started
          MaxAttempts,    \* RETRY_MAX_ATTEMPTS
          FailMax,        \* fail_max
          ResetTimeout    \* reset_timeout, in ticks

ASSUME PublisherAssumption ==
  MaxAttempts \in Nat \ {0} /\ FailMax \in Nat \ {0} /\ ResetTimeout \in Nat \ {0}

VARIABLES
  pc,        \* pc[p]: where publication p stands
  attempts,  \* attempts[p]: how many attempts it has made
  breaker,   \* the state of the breaker
  fails,     \* its counter of failures in a row
  age,       \* ticks since it was opened (up to ResetTimeout)
  calm,      \* history: ticks since a send failed last (up to ResetTimeout)
  burst,     \* history: the sends that failed since one succeeded or since
             \* ResetTimeout without a failure
  spared     \* history: the publications in progress or over that began when calm
             \* was ResetTimeout, and during which no send has failed

breakerVars == <<breaker, fails, age>>
historyVars == <<calm, burst, spared>>
vars == <<pc, attempts, breakerVars, historyVars>>

Stages == {"new", "attempt", "sending", "sent", "lost"}

TypeOK ==
  /\ pc \in [Publications -> Stages]
  /\ attempts \in [Publications -> 0 .. MaxAttempts]
  /\ breaker \in {"closed", "open", "half_open"}
  /\ fails \in 0 .. FailMax
  /\ age \in 0 .. ResetTimeout /\ calm \in 0 .. ResetTimeout
  /\ burst \in Nat /\ spared \subseteq Publications
  /\ \A p, q \in Publications : pc[p] = "sending" /\ pc[q] = "sending" => p = q
  /\ breaker = "half_open" => \E p \in Publications : pc[p] = "sending"

Init ==
  /\ pc = [p \in Publications |-> "new"]
  /\ attempts = [p \in Publications |-> 0]
  /\ breaker = "closed" /\ fails = 0 /\ age = 0
  /\ calm = ResetTimeout /\ burst = 0 /\ spared = {}

\* The breaker's lock is held while a message is sent.
Locked_Never == FALSE
Locked == \E p \in Publications : pc[p] = "sending"

\* Time passes, but not between two attempts that nothing holds up.
Tick ==
  /\ Locked \/ \A p \in Publications : pc[p] # "attempt"
  /\ age' = IF age < ResetTimeout THEN age + 1 ELSE age
  /\ calm' = IF calm < ResetTimeout THEN calm + 1 ELSE calm
  /\ burst' = IF calm' = ResetTimeout THEN 0 ELSE burst
  /\ UNCHANGED <<pc, attempts, breaker, fails, spared>>

\* publish_stream_started is called.
Publish(p) ==
  /\ pc[p] = "new"
  /\ pc' = [pc EXCEPT ![p] = "attempt"]
  /\ spared' = IF calm = ResetTimeout THEN spared \cup {p} ELSE spared
  /\ UNCHANGED <<attempts, breakerVars, calm, burst>>

\* One more attempt has failed: after the last one the error is logged.
AttemptFails_Uncounted(p) ==
  /\ pc' = [pc EXCEPT ![p] = "attempt"]
  /\ attempts' = [attempts EXCEPT ![p] = IF pc[p] = "sending" THEN @ + 1 ELSE @]

AttemptFails(p) ==
  /\ attempts' = [attempts EXCEPT ![p] = @ + 1]
  /\ pc' = [pc EXCEPT ![p] = IF attempts'[p] < MaxAttempts THEN "attempt" ELSE "lost"]

\* The breaker is open: CircuitBreakerError, and nothing is sent.
Rejected_Prolongs(p) ==
  /\ pc[p] = "attempt" /\ ~Locked
  /\ breaker = "open" /\ age < ResetTimeout
  /\ AttemptFails(p)
  /\ age' = 0
  /\ UNCHANGED <<breaker, fails, historyVars>>

Rejected(p) ==
  /\ pc[p] = "attempt" /\ ~Locked
  /\ breaker = "open" /\ age < ResetTimeout
  /\ AttemptFails(p)
  /\ UNCHANGED <<breakerVars, historyVars>>

\* It is closed, or has been open for long enough: the message is sent.
LetThrough(p) ==
  /\ pc[p] = "attempt" /\ ~Locked
  /\ breaker = "closed" \/ age = ResetTimeout
  /\ pc' = [pc EXCEPT ![p] = "sending"]
  /\ breaker' = IF breaker = "open" THEN "half_open" ELSE breaker
  /\ UNCHANGED <<attempts, fails, age, historyVars>>

\* The send returns: the breaker closes and starts to count again.
SendReturns(p) ==
  /\ pc[p] = "sending"
  /\ pc' = [pc EXCEPT ![p] = "sent"]
  /\ breaker' = "closed" /\ fails' = 0
  /\ burst' = 0
  /\ UNCHANGED <<attempts, age, calm, spared>>

\* The breaker after one more failure.
Trips_OneLate == breaker = "half_open" \/ fails + 1 > FailMax
Trips == breaker = "half_open" \/ fails + 1 >= FailMax

\* The send raises, whether the message was accepted or not.
SendRaises(p) ==
  /\ pc[p] = "sending"
  /\ AttemptFails(p)
  /\ fails' = IF fails < FailMax THEN fails + 1 ELSE fails
  /\ IF Trips THEN breaker' = "open" /\ age' = 0 ELSE UNCHANGED <<breaker, age>>
  /\ calm' = 0 /\ burst' = burst + 1
  /\ spared' = {q \in spared : pc[q] \in {"sent", "lost"}}

Step(p) == Rejected(p) \/ LetThrough(p) \/ SendReturns(p) \/ SendRaises(p)

Next == Tick \/ \E p \in Publications : Publish(p) \/ Step(p)

\* The retries and the calls of a publication go on; sends have time-outs.
Spec == Init /\ [][Next]_vars /\ \A p \in Publications : WF_vars(Step(p))

-----------------------------------------------------------------------------
(* What the publisher promises *)

\* "open after 3 consecutive failures, half-open after 60s": however many
\* publications retry at once, the bus sees at most FailMax failing sends before it
\* is left in peace for ResetTimeout.
BusIsSpared == burst <= FailMax

\* The breaker and the retries in front of it lose nothing by themselves: a
\* publication is lost only if a send failed during it, or less than ResetTimeout
\* before it.  A breaker that an outage once opened must close again, and the
\* attempts made while it is open must not keep it so.
LostInTroubleOnly == \A p \in Publications : pc[p] = "lost" => p \notin spared

\* Fire-and-forget: the handler that calls it gets on, whatever the bus does and
\* whoever holds the breaker's lock.
EveryPublicationEnds ==
  \A p \in Publications : pc[p] = "attempt" ~> pc[p] \in {"sent", "lost"}
=============================================================================
