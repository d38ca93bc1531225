------------------------ MODULE EventPublisherProofs ------------------------
(***************************************************************************)
(* The promises of the event publisher, for any number of publications and *)
(* any values of the retry's and the breaker's parameters.                 *)
(***************************************************************************)
EXTENDS EventPublisher, TLAPS

\* A publication that is not over has attempts left.
AttemptsLeft ==
  \A p \in Publications : pc[p] \in {"new", "attempt", "sending"} => attempts[p] < MaxAttempts

\* The closed breaker has counted at least the failures of the burst, and its
\* counter has not reached the limit.
Counted == breaker = "closed" => burst <= fails /\ fails < FailMax

\* The breaker has been open since the last failure, and no send is in progress; it
\* lets a send through when the bus has been left in peace.
OpenSinceFailure ==
  /\ breaker = "open" => age = calm /\ ~Locked
  /\ breaker = "half_open" => burst = 0

\* The burst is over when no send has failed for ResetTimeout.
PeaceEndsBurst == calm = ResetTimeout => burst = 0

\* A spared publication that is not over has seen nothing but peace.
SparedInPeace ==
  \A p \in spared : pc[p] # "new" /\ pc[p] # "lost"
                    /\ (pc[p] # "sent" => calm = ResetTimeout)

PInv == /\ TypeOK /\ AttemptsLeft /\ Counted /\ OpenSinceFailure
        /\ PeaceEndsBurst /\ SparedInPeace /\ BusIsSpared
LEMMA PInit == Init => PInv
BY PublisherAssumption
   DEF Init, PInv, TypeOK, Stages, AttemptsLeft, Counted, OpenSinceFailure, Locked,
       PeaceEndsBurst, SparedInPeace, BusIsSpared

\* Failing once more keeps the types and the attempts left, and ends the send.
LEMMA FailedAttempt ==
  ASSUME TypeOK, AttemptsLeft, NEW p \in Publications, AttemptFails(p),
         pc[p] \in {"attempt", "sending"}
  PROVE  /\ pc' \in [Publications -> Stages]
         /\ attempts' \in [Publications -> 0 .. MaxAttempts]
         /\ AttemptsLeft'
         /\ pc'[p] \in {"attempt", "lost"}
         /\ \A q \in Publications : q # p => pc'[q] = pc[q]
<1>1. attempts[p] < MaxAttempts BY DEF AttemptsLeft
<1>2. attempts[p] \in Nat /\ MaxAttempts \in Nat BY PublisherAssumption DEF TypeOK
<1>3. attempts' \in [Publications -> 0 .. MaxAttempts] BY <1>1, <1>2 DEF AttemptFails, TypeOK
<1>4. attempts'[p] = attempts[p] + 1 /\ \A q \in Publications : q # p => attempts'[q] = attempts[q]
  BY DEF AttemptFails, TypeOK
<1>5. /\ pc' \in [Publications -> Stages]
      /\ pc'[p] = (IF attempts'[p] < MaxAttempts THEN "attempt" ELSE "lost")
      /\ \A q \in Publications : q # p => pc'[q] = pc[q]
  BY DEF AttemptFails, TypeOK, Stages
<1>6. AttemptsLeft' BY <1>4, <1>5 DEF AttemptsLeft
<1> QED BY <1>3, <1>5, <1>6

LEMMA TickKeepsPInv == PInv /\ Tick => PInv'
<1> SUFFICES ASSUME PInv, Tick PROVE PInv' OBVIOUS
<1> USE PublisherAssumption DEF PInv, Tick
<1>1. TypeOK' BY DEF TypeOK
<1>2. AttemptsLeft' /\ Counted' BY DEF AttemptsLeft, Counted, TypeOK
<1>3. OpenSinceFailure' BY DEF OpenSinceFailure, TypeOK, Locked
<1>4. PeaceEndsBurst' BY DEF PeaceEndsBurst
<1>5. SparedInPeace' BY DEF SparedInPeace, TypeOK
<1>6. BusIsSpared' BY DEF BusIsSpared
<1> QED BY <1>1, <1>2, <1>3, <1>4, <1>5, <1>6

LEMMA PublishKeepsPInv == ASSUME PInv, NEW p \in Publications, Publish(p) PROVE PInv'
<1> USE PublisherAssumption DEF PInv, Publish, breakerVars
<1>1. TypeOK' BY DEF TypeOK, Stages
<1>2. AttemptsLeft' /\ Counted' BY DEF AttemptsLeft, Counted, TypeOK
<1>3. Locked' => Locked BY DEF Locked, TypeOK
<1>4. OpenSinceFailure' BY <1>3 DEF OpenSinceFailure
<1>5. PeaceEndsBurst' /\ BusIsSpared' BY DEF PeaceEndsBurst, BusIsSpared
<1>6. SparedInPeace' BY DEF SparedInPeace, TypeOK
<1> QED BY <1>1, <1>2, <1>4, <1>5, <1>6

LEMMA RejectedKeepsPInv == ASSUME PInv, NEW p \in Publications, Rejected(p) PROVE PInv'
<1> USE DEF PInv
<1>1. /\ pc' \in [Publications -> Stages]
      /\ attempts' \in [Publications -> 0 .. MaxAttempts]
      /\ AttemptsLeft'
      /\ pc'[p] \in {"attempt", "lost"}
      /\ \A q \in Publications : q # p => pc'[q] = pc[q]
  BY FailedAttempt DEF Rejected
<1>2. UNCHANGED <<breaker, fails, age, calm, burst, spared>> BY DEF Rejected, breakerVars, historyVars
<1>3. ~Locked' BY <1>1 DEF Rejected, Locked
<1>4. TypeOK' BY <1>1, <1>2, <1>3 DEF TypeOK, Rejected, Locked
<1>5. Counted' /\ PeaceEndsBurst' /\ BusIsSpared'
  BY <1>2 DEF Counted, PeaceEndsBurst, BusIsSpared
<1>6. OpenSinceFailure' BY <1>2, <1>3 DEF OpenSinceFailure
<1>7. p \notin spared BY DEF Rejected, OpenSinceFailure, SparedInPeace, TypeOK
<1>8. SparedInPeace' BY <1>1, <1>2, <1>7 DEF SparedInPeace, TypeOK
<1> QED BY <1>1, <1>4, <1>5, <1>6, <1>8

LEMMA LetThroughKeepsPInv == ASSUME PInv, NEW p \in Publications, LetThrough(p) PROVE PInv'
<1> USE DEF PInv, LetThrough, historyVars
<1>1. breaker # "half_open" BY DEF TypeOK, Locked
<1>2. TypeOK' BY <1>1 DEF TypeOK, Stages, Locked
<1>3. AttemptsLeft' BY DEF AttemptsLeft, TypeOK
<1>4. Counted' BY DEF Counted
<1>5. breaker = "open" => burst = 0 BY DEF OpenSinceFailure, PeaceEndsBurst
<1>6. OpenSinceFailure' BY <1>1, <1>5 DEF OpenSinceFailure, TypeOK
<1>7. PeaceEndsBurst' /\ BusIsSpared' BY DEF PeaceEndsBurst, BusIsSpared
<1>8. SparedInPeace' BY DEF SparedInPeace, TypeOK
<1> QED BY <1>2, <1>3, <1>4, <1>6, <1>7, <1>8

LEMMA SendReturnsKeepsPInv == ASSUME PInv, NEW p \in Publications, SendReturns(p) PROVE PInv'
<1> USE PublisherAssumption DEF PInv, SendReturns
<1>1. TypeOK' BY DEF TypeOK, Stages
<1>2. AttemptsLeft' BY DEF AttemptsLeft, TypeOK
<1>3. Counted' /\ OpenSinceFailure' /\ PeaceEndsBurst' /\ BusIsSpared'
  BY DEF Counted, OpenSinceFailure, PeaceEndsBurst, BusIsSpared
<1>4. SparedInPeace' BY DEF SparedInPeace, TypeOK
<1> QED BY <1>1, <1>2, <1>3, <1>4

LEMMA SendRaisesKeepsPInv == ASSUME PInv, NEW p \in Publications, SendRaises(p) PROVE PInv'
<1> USE DEF PInv
<1>1. /\ pc' \in [Publications -> Stages]
      /\ attempts' \in [Publications -> 0 .. MaxAttempts]
      /\ AttemptsLeft'
      /\ pc'[p] \in {"attempt", "lost"}
      /\ \A q \in Publications : q # p => pc'[q] = pc[q]
  BY FailedAttempt DEF SendRaises
<1>2. pc[p] = "sending" /\ calm' = 0 /\ burst' = burst + 1
      /\ fails' = (IF fails < FailMax THEN fails + 1 ELSE fails)
      /\ spared' = {q \in spared : pc[q] \in {"sent", "lost"}}
      /\ (IF Trips THEN breaker' = "open" /\ age' = 0 ELSE UNCHANGED <<breaker, age>>)
  BY DEF SendRaises
<1>3. /\ FailMax \in Nat \ {0} /\ ResetTimeout \in Nat \ {0}
      /\ burst \in Nat /\ fails \in 0 .. FailMax /\ age \in 0 .. ResetTimeout
  BY PublisherAssumption DEF TypeOK
<1>4. ~Locked' BY <1>1, <1>2 DEF Locked, TypeOK
<1>5. breaker \in {"closed", "half_open"} BY <1>2 DEF TypeOK, OpenSinceFailure, Locked
<1>6. breaker' \in {"closed", "open"} BY <1>2, <1>5 DEF Trips
<1>7. TypeOK'
  <2>1. fails' \in 0 .. FailMax /\ burst' \in Nat BY <1>2, <1>3
  <2>2. age' \in 0 .. ResetTimeout /\ calm' \in 0 .. ResetTimeout BY <1>2, <1>3
  <2>3. spared' \subseteq Publications BY <1>2 DEF TypeOK
  <2> QED BY <1>1, <1>4, <1>6, <2>1, <2>2, <2>3 DEF TypeOK, Locked
<1>8. burst' <= FailMax /\ (breaker' = "closed" => burst' <= fails' /\ fails' < FailMax)
  <2>1. CASE breaker = "closed"
    <3>1. burst <= fails /\ fails < FailMax BY <2>1 DEF Counted
    <3> QED BY <1>2, <1>3, <2>1, <3>1 DEF Trips
  <2>2. CASE breaker = "half_open"
    <3>1. burst = 0 BY <2>2 DEF OpenSinceFailure
    <3>2. breaker' = "open" BY <1>2, <2>2 DEF Trips
    <3> QED BY <1>2, <1>3, <3>1, <3>2
  <2> QED BY <1>5, <2>1, <2>2
<1>9. OpenSinceFailure' BY <1>2, <1>4, <1>5, <1>6 DEF OpenSinceFailure
<1>10. PeaceEndsBurst' BY <1>2, <1>3 DEF PeaceEndsBurst
<1>11. SparedInPeace' BY <1>1, <1>2 DEF SparedInPeace, TypeOK
<1> QED BY <1>1, <1>7, <1>8, <1>9, <1>10, <1>11 DEF Counted, BusIsSpared

\* The inductive invariant: the state of the breaker accounts for the failures of
\* the burst, and an open breaker for the time that has passed since the last one.
THEOREM PublisherInvariance == Spec => []PInv
<1>1. PInv /\ [Next]_vars => PInv'
  <2> SUFFICES ASSUME PInv, [Next]_vars PROVE PInv' OBVIOUS
  <2>1. CASE Tick BY <2>1, TickKeepsPInv
  <2>2. ASSUME NEW p \in Publications, Publish(p) PROVE PInv' BY <2>2, PublishKeepsPInv
  <2>3. ASSUME NEW p \in Publications, Step(p) PROVE PInv'
    BY <2>3, RejectedKeepsPInv, LetThroughKeepsPInv, SendReturnsKeepsPInv, SendRaisesKeepsPInv
       DEF Step
  <2>4. CASE UNCHANGED vars
    BY <2>4 DEF vars, breakerVars, historyVars, PInv, TypeOK, AttemptsLeft, Counted,
                OpenSinceFailure, Locked, PeaceEndsBurst, SparedInPeace, BusIsSpared
  <2> QED BY <2>1, <2>2, <2>3, <2>4 DEF Next
<1> QED BY PInit, <1>1, PTL DEF Spec

\* Every variable keeps its type, and only one publication at a time sends.
THEOREM PublisherTypeCorrect == Spec => []TypeOK
<1>1. PInv => TypeOK BY DEF PInv
<1> QED BY PublisherInvariance, <1>1, PTL

\* Whatever the number of publications that retry at once, at most FailMax sends fail
\* before the bus is left in peace.
THEOREM BreakerSparesTheBus == Spec => []BusIsSpared
<1>1. PInv => BusIsSpared BY DEF PInv
<1> QED BY PublisherInvariance, <1>1, PTL

\* The retries and the breaker lose a publication only to a failure during it or less
\* than reset_timeout before it.
THEOREM NothingLostInPeace == Spec => []LostInTroubleOnly
<1>1. PInv => LostInTroubleOnly BY DEF PInv, SparedInPeace, LostInTroubleOnly, TypeOK
<1> QED BY PublisherInvariance, <1>1, PTL
=============================================================================
