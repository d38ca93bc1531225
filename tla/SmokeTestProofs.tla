-------------------------- MODULE SmokeTestProofs --------------------------
(***************************************************************************)
(* What an exit code of the smoke test says, proved for any set of tests   *)
(* side by side and any number of polls and deliveries.                    *)
(*                                                                         *)
(* The verdict compares two counts of the whole queue.  The argument is    *)
(* that a test which met no other job (\notin shared) is the only one that *)
(* can move them, and moves them with its current message only: its start  *)
(* is settled before its stop is sent, as long as it did not time out.     *)
(***************************************************************************)
EXTENDS SmokeTest, FiniteSetTheorems, TLAPS

\* Any job is a test with a command.
LEMMA JobPairs == ASSUME NEW j \in Jobs
                  PROVE  /\ j[1] \in Tests /\ j[2] \in {"start", "stop"}
                         /\ j = <<j[1], j[2]>>
BY DEF Jobs

LEMMA CountsAreNumbers ==
  ASSUME IsFiniteSet(sent)
  PROVE  /\ IsFiniteSet(Pending) /\ Active \in Nat
         /\ IsFiniteSet(Dead) /\ DeadCount \in Nat /\ DeadCount = Cardinality(Dead)
<1>1. Pending \subseteq sent /\ Dead \subseteq sent BY DEF Pending, Dead
<1>2. IsFiniteSet(Pending) /\ IsFiniteSet(Dead) BY <1>1, FS_Subset
<1>3. DeadCount = Cardinality(Dead) BY DEF DeadCount, Dead
<1> QED BY <1>2, <1>3, FS_CardinalityType DEF Active

\* What a poll of an undisturbed test shows is true of its current message.
LEMMA CountsTell ==
  ASSUME TypeOK, SmokeInv, NEW t \in Tests, Undisturbed(t), pc[t] = "poll"
  PROVE  /\ DeadCount > base[t].dlq => phase[Current(t)] = "dead"
         /\ DeadCount <= base[t].dlq /\ Active <= base[t].active => phase[Current(t)] = "done"
<1> DEFINE c == Current(t)
<1>1. c \in sent /\ c \in Jobs /\ base[t] = [active |-> 0, dlq |-> Cardinality(Dead \ {c})]
  BY DEF SmokeInv, InTurn, Counted, TypeOK
<1>2. /\ IsFiniteSet(Pending) /\ Active \in Nat
      /\ IsFiniteSet(Dead) /\ DeadCount \in Nat /\ DeadCount = Cardinality(Dead)
  BY CountsAreNumbers DEF SmokeInv
<1>3. ASSUME DeadCount > base[t].dlq PROVE phase[c] = "dead"
  <2>1. SUFFICES ASSUME c \notin Dead PROVE FALSE BY DEF Dead
  <2>2. Dead \ {c} = Dead BY <2>1
  <2> QED BY <2>2, <1>1, <1>2, <1>3
<1>4. ASSUME DeadCount <= base[t].dlq, Active <= base[t].active PROVE phase[c] = "done"
  <2>1. Cardinality(Pending) = 0 BY <1>1, <1>2, <1>4 DEF Active
  <2>2. Pending = {} BY <2>1, <1>2, FS_EmptySet
  <2>3. c \notin Dead
    <3>1. SUFFICES ASSUME c \in Dead PROVE FALSE OBVIOUS
    <3>2. Cardinality(Dead \ {c}) = Cardinality(Dead) - 1 BY <3>1, <1>2, FS_RemoveElement
    <3> QED BY <3>2, <1>1, <1>2, <1>4
  <2>4. phase[c] \in {"waiting", "held", "done", "dead"} BY <1>1 DEF TypeOK, Queue!Phases
  <2> QED BY <1>1, <2>2, <2>3, <2>4 DEF Pending, Dead
<1> QED BY <1>3, <1>4

-----------------------------------------------------------------------------
(* The queue and OBSControl *)

\* A step of the queue is one of a message that is pending.
LEMMA QueueStep ==
  ASSUME TypeOK, SmokeInv, ObsControl
  PROVE  \E j \in Pending :
           /\ phase' \in {[phase EXCEPT ![j] = p] : p \in {"waiting", "held", "done", "dead"}}
           /\ recording' = recording \/ recording' = CarriedOut(j)
           /\ phase'[j] = "done" => recording' = CarriedOut(j)
           /\ tries' \in [Jobs -> 0 .. MaxDelivery]
           /\ UNCHANGED <<sent, testVars, raised, shared>>
<1>1. PICK j \in Jobs : Deliver(j) \/ Consume(j) \/ Fail(j) BY DEF ObsControl
<1>2. j \in Pending
  BY <1>1 DEF Deliver, Consume, Fail, Pending, SmokeInv,
              Queue!Deliver, Queue!Finish, Queue!GiveBack
<1>3. tries' \in [Jobs -> 0 .. MaxDelivery]
  BY <1>1, SmokeAssumption
     DEF Deliver, Consume, Fail, TypeOK, Queue!Deliver, Queue!Finish, Queue!GiveBack
<1>4. UNCHANGED <<sent, testVars, raised, shared>>
  BY <1>1 DEF ObsControl, Deliver, Consume, Fail
<1>5. /\ phase' \in {[phase EXCEPT ![j] = p] : p \in {"waiting", "held", "done", "dead"}}
      /\ recording' = recording \/ recording' = CarriedOut(j)
      /\ phase'[j] = "done" => recording' = CarriedOut(j)
  BY <1>1 DEF Deliver, Consume, Fail, TypeOK, Queue!Deliver, Queue!Finish, Queue!GiveBack
<1> QED BY <1>2, <1>3, <1>4, <1>5

LEMMA QueueKeepsInv ==
  ASSUME TypeOK, SmokeInv, ObsControl
  PROVE  TypeOK' /\ SmokeInv'
<1> PICK j \in Pending :
      /\ phase' \in {[phase EXCEPT ![j] = p] : p \in {"waiting", "held", "done", "dead"}}
      /\ recording' = recording \/ recording' = CarriedOut(j)
      /\ phase'[j] = "done" => recording' = CarriedOut(j)
      /\ tries' \in [Jobs -> 0 .. MaxDelivery]
      /\ UNCHANGED <<sent, testVars, raised, shared>>
  BY QueueStep
<1> USE DEF testVars
<1>1. /\ j \in sent /\ j \in Jobs /\ phase[j] \in {"waiting", "held"}
      /\ j[1] \in Tests /\ j[2] \in {"start", "stop"} /\ j = <<j[1], j[2]>>
  BY JobPairs DEF Pending, TypeOK
<1>2. \A i \in Jobs : i # j => phase'[i] = phase[i] BY DEF TypeOK
<1>3. TypeOK' BY <1>1 DEF TypeOK, CarriedOut, Queue!Phases
<1>4. \A i \in Jobs \ sent' : phase'[i] = "waiting" BY <1>1, <1>2 DEF SmokeInv
<1>5. \A t \in recording' : <<t, "start">> \in sent' BY <1>1 DEF SmokeInv, CarriedOut
<1>6. \A t \in Tests : InTurn(t)' /\ Complete(t)'
  BY DEF SmokeInv, InTurn, Complete, Cleaning, Current, Over
<1>7. ASSUME NEW t \in Tests, Undisturbed(t)'
      PROVE  Counted(t)' /\ Settled(t)' /\ LastWord(t)'
  <2>1. Undisturbed(t) /\ Counted(t) /\ Settled(t) /\ LastWord(t) /\ InTurn(t)
    BY <1>7 DEF Undisturbed, SmokeInv
  <2>2. Counted(t)'
    <3>1. Pending' \subseteq Pending BY <1>1, <1>2 DEF Pending, TypeOK
    <3>2. ASSUME t \in Underway PROVE Dead' \ {Current(t)} = Dead \ {Current(t)}
      <4>1. j = Current(t) BY <2>1, <3>2 DEF Counted
      <4> QED BY <4>1, <1>1, <1>2 DEF Dead, TypeOK
    <3>3. Underway' = Underway /\ Current(t)' = Current(t)
      BY DEF Underway, Current, Cleaning
    <3>4. pc[t] \in {"send", "poll"} => t \in Underway BY DEF Underway
    <3> QED BY <2>1, <3>1, <3>2, <3>3, <3>4 DEF Counted
  <2>3. Cleaning(t) => j # <<t, "start">>
    BY <2>1, <1>1 DEF Settled
  <2>4. Settled(t)' BY <2>1, <2>3, <1>2 DEF Settled, Cleaning, Jobs
  <2>5. LastWord(t)'
    <3>1. CASE j = <<t, "stop">> BY <3>1 DEF LastWord, CarriedOut
    <3>2. CASE j = <<t, "start">>
      <4>1. ~Cleaning(t) BY <2>3, <3>2
      <4>2. doing[t] = "start" BY <4>1, <3>2, <1>1, <2>1 DEF InTurn, Cleaning
      <4>3. <<t, "stop">> \notin sent BY <4>2, <2>1 DEF InTurn
      <4>4. phase'[<<t, "stop">>] = "waiting" BY <4>3, <1>4 DEF Jobs
      <4> QED BY <4>4 DEF LastWord
    <3>3. CASE j[1] # t
      <4>1. phase'[<<t, "stop">>] = phase[<<t, "stop">>] BY <3>3, <1>2 DEF Jobs
      <4>2. t \in recording' => t \in recording BY <3>3 DEF CarriedOut
      <4> QED BY <4>1, <4>2, <2>1 DEF LastWord
    <3> QED BY <1>1, <3>1, <3>2, <3>3
  <2> QED BY <2>2, <2>4, <2>5
<1>8. ExitTells'
  <2>1. \A i \in Jobs : phase[i] \in {"done", "dead"} => phase'[i] = phase[i]
    BY <1>1, <1>2
  <2>2. \A t \in Tests : Own(t) \subseteq Jobs /\ Own(t)' = Own(t)
    BY SmokeAssumption DEF Own, Jobs
  <2> QED BY <2>1, <2>2 DEF SmokeInv, ExitTells, Over
<1>9. IsFiniteSet(sent') BY DEF SmokeInv
<1> QED BY <1>3, <1>4, <1>5, <1>6, <1>7, <1>8, <1>9 DEF SmokeInv

-----------------------------------------------------------------------------
(* The tests *)

\* All that the invariant says of one test.
Tells(t) ==
  t \notin shared /\ Over(t) =>
    /\ exit[t] = 0 => \A j \in Own(t) : phase[j] = "done"
    /\ exit[t] = 1 => t \in raised \/ \E j \in Own(t) : phase[j] = "dead"

Fine(t) == /\ InTurn(t) /\ Complete(t) /\ Tells(t)
           /\ Undisturbed(t) => Counted(t) /\ Settled(t) /\ LastWord(t)

\* The variables of every test but u are left alone.
OthersWait(u) ==
  /\ \A t \in Tests \ {u} :
       /\ pc'[t] = pc[t] /\ doing'[t] = doing[t] /\ base'[t] = base[t]
       /\ primary'[t] = primary[t] /\ exit'[t] = exit[t]
       /\ t \in raised' <=> t \in raised
  /\ shared \subseteq shared'
  /\ UNCHANGED <<phase, recording>>
  /\ sent' = sent \/ (sent' = sent \cup {Current(u)} /\ Underway \ {u} \subseteq shared')

\* What one test does, a send included, leaves the others' verdicts alone.
LEMMA OthersAreFine ==
  ASSUME TypeOK, SmokeInv, NEW u \in Tests, OthersWait(u), Fine(u)'
  PROVE  SmokeInv'
<1>1. Current(u) \in Jobs BY DEF Current, TypeOK, Jobs
<1>2. sent \subseteq sent' /\ sent' \subseteq sent \cup {Current(u)} BY DEF OthersWait
<1>3. IsFiniteSet(sent') BY FS_AddElement DEF OthersWait, SmokeInv
<1>4. \A j \in Jobs \ sent' : phase'[j] = "waiting" BY <1>2 DEF SmokeInv, OthersWait
<1>5. \A t \in recording' : <<t, "start">> \in sent' BY <1>2 DEF SmokeInv, OthersWait
<1>6. ASSUME NEW t \in Tests, t # u PROVE Fine(t)'
  <2>1. /\ pc'[t] = pc[t] /\ doing'[t] = doing[t] /\ base'[t] = base[t]
        /\ primary'[t] = primary[t] /\ exit'[t] = exit[t]
        /\ t \in raised' <=> t \in raised
        /\ phase' = phase /\ recording' = recording
        /\ t \in shared => t \in shared'
    BY <1>6 DEF OthersWait
  <2>2. Fine(t) BY DEF Fine, SmokeInv, ExitTells, Tells, Undisturbed
  <2>3. \A c : <<t, c>> \in sent' <=> <<t, c>> \in sent BY <1>2, <1>6 DEF Current
  <2>4. InTurn(t)' /\ Complete(t)' /\ Tells(t)'
    <3>1. InTurn(t)' BY <2>1, <2>2, <2>3 DEF Fine, InTurn, Cleaning, Current
    <3>2. Complete(t)' BY <2>1, <2>2, <2>3 DEF Fine, Complete, Over
    <3>3. Tells(t)' BY <2>1, <2>2 DEF Fine, Tells, Over, Own
    <3> QED BY <3>1, <3>2, <3>3
  <2>5. ASSUME Undisturbed(t)' PROVE Counted(t)' /\ Settled(t)' /\ LastWord(t)'
    <3>1. Undisturbed(t) /\ Counted(t) /\ Settled(t) /\ LastWord(t)
      BY <2>5, <2>1, <2>2 DEF Undisturbed, Fine
    <3>2. Settled(t)' /\ LastWord(t)' BY <3>1, <2>1 DEF Settled, LastWord, Cleaning
    <3>3. (t \in Underway)' <=> t \in Underway BY <2>1 DEF Underway, Cleaning
    <3>4. pc[t] \in {"send", "poll"} => t \in Underway BY DEF Underway
    <3>5. CASE sent' = sent
      <4>1. Pending' = Pending /\ Dead' = Dead BY <3>5, <2>1 DEF Pending, Dead
      <4> QED BY <4>1, <3>1, <3>2, <3>3, <2>1 DEF Counted, Current
    <3>6. CASE sent' # sent
      <4>1. t \notin Underway BY <3>6, <2>5, <1>6 DEF OthersWait, Undisturbed
      <4> QED BY <4>1, <3>2, <3>3, <3>4, <2>1 DEF Counted
    <3> QED BY <3>2, <3>5, <3>6
  <2> QED BY <2>4, <2>5 DEF Fine
<1>7. \A t \in Tests : Fine(t)' BY <1>6
<1> QED BY <1>3, <1>4, <1>5, <1>7 DEF SmokeInv, Fine, ExitTells, Tells

LEMMA EachIsFine == ASSUME SmokeInv, NEW t \in Tests PROVE Fine(t)
BY DEF Fine, SmokeInv, ExitTells, Tells

\* A phase begins: what is not its own message is settled, or the test meets it.
LEMMA BaselineKeepsInv ==
  ASSUME TypeOK, SmokeInv, NEW t \in Tests, Baseline(t)
  PROVE  TypeOK' /\ SmokeInv'
<1> USE DEF queueVars
<1>1. /\ IsFiniteSet(Pending) /\ Active \in Nat
      /\ IsFiniteSet(Dead) /\ DeadCount \in Nat /\ DeadCount = Cardinality(Dead)
  BY CountsAreNumbers DEF SmokeInv
<1>2. TypeOK' BY <1>1 DEF TypeOK, Baseline, Goto
<1>3. OthersWait(t) BY DEF OthersWait, Baseline, Goto, TypeOK
<1>4. Fine(t) BY EachIsFine
<1>5. /\ pc[t] = "baseline" /\ pc'[t] = "send"
      /\ base'[t] = [active |-> Active, dlq |-> DeadCount]
      /\ UNCHANGED <<queueVars, doing, polls, primary, exit, raised>>
  BY DEF Baseline, Goto, TypeOK
<1>6. InTurn(t)' /\ Complete(t)' /\ Tells(t)'
  BY <1>4, <1>5 DEF Fine, InTurn, Complete, Tells, Over, Cleaning, Current
<1>7. ASSUME Undisturbed(t)' PROVE Counted(t)' /\ Settled(t)' /\ LastWord(t)'
  <2>1. Undisturbed(t) /\ Counted(t) /\ Settled(t) /\ LastWord(t)
    BY <1>3, <1>4, <1>5, <1>7 DEF Undisturbed, OthersWait, Fine
  <2>2. Settled(t)' /\ LastWord(t)' BY <2>1, <1>5 DEF Settled, LastWord, Cleaning
  <2>3. Current(t) \notin sent
    BY <1>4, <1>5 DEF Fine, InTurn, Current, Cleaning, TypeOK
  <2>4. Pending = {}
    <3>1. CASE Cleaning(t)
      BY <3>1, <2>1, <2>3, <1>5 DEF Counted, Underway, Pending
    <3>2. CASE ~Cleaning(t)
      <4>1. \A j \in Pending : j[1] = t BY <1>7 DEF Baseline, Undisturbed
      <4>2. \A c \in {"start", "stop"} : <<t, c>> \notin sent
        BY <3>2, <1>4, <1>5 DEF Fine, InTurn, Cleaning
      <4>3. \A j \in Pending : j \in sent /\ j \in Jobs BY DEF Pending, TypeOK
      <4> QED BY <4>1, <4>2, <4>3, JobPairs
    <3> QED BY <3>1, <3>2
  <2>5. Active = 0 BY <2>4, FS_EmptySet DEF Active
  <2>6. Dead \ {Current(t)} = Dead BY <2>3 DEF Dead
  <2>7. Pending' = Pending /\ Dead' = Dead /\ Current(t)' = Current(t)
    BY <1>5 DEF Pending, Dead, Current
  <2>8. Counted(t)' BY <1>1, <1>5, <2>4, <2>5, <2>6, <2>7 DEF Counted
  <2> QED BY <2>2, <2>8
<1>8. Fine(t)' BY <1>6, <1>7 DEF Fine
<1> QED BY <1>2, <1>3, <1>8, OthersAreFine

LEMMA SendKeepsInv ==
  ASSUME TypeOK, SmokeInv, NEW t \in Tests, Send(t)
  PROVE  TypeOK' /\ SmokeInv'
<1>1. Fine(t) BY EachIsFine
<1>2. /\ pc[t] = "send" /\ pc'[t] = "poll" /\ sent' = sent \cup {Current(t)}
      /\ shared' = shared \cup (Underway \ {t})
      /\ UNCHANGED <<phase, tries, recording, doing, base, polls, primary, exit, raised>>
  BY DEF Send, Goto, Enqueue, Current, TypeOK
<1>3. Current(t) \in Jobs BY DEF Current, TypeOK, Jobs
<1>4. TypeOK' BY <1>2, <1>3 DEF TypeOK, Send, Goto, Underway
<1>5. OthersWait(t) BY <1>2 DEF OthersWait, Send, Goto, TypeOK
<1>6. Current(t) \notin sent /\ phase[Current(t)] = "waiting"
  BY <1>1, <1>2, <1>3 DEF Fine, InTurn, Current, Cleaning, TypeOK, SmokeInv
<1>7. InTurn(t)'
  BY <1>1, <1>2 DEF Fine, InTurn, Cleaning, Current, TypeOK
<1>8. Complete(t)' /\ Tells(t)' BY <1>2 DEF Complete, Tells, Over
<1>9. ASSUME Undisturbed(t)' PROVE Counted(t)' /\ Settled(t)' /\ LastWord(t)'
  <2>1. Undisturbed(t) /\ Counted(t) /\ Settled(t) /\ LastWord(t)
    BY <1>1, <1>2, <1>9 DEF Undisturbed, Fine
  <2>2. Settled(t)' /\ LastWord(t)' BY <2>1, <1>2 DEF Settled, LastWord, Cleaning
  <2>3. Pending' \subseteq Pending \cup {Current(t)} BY <1>2 DEF Pending
  <2>4. Dead' = Dead BY <1>2, <1>6 DEF Dead
  <2>5. t \in Underway /\ Current(t)' = Current(t) BY <1>2 DEF Underway, Current
  <2> QED BY <1>2, <2>1, <2>2, <2>3, <2>4, <2>5 DEF Counted
<1>10. Fine(t)' BY <1>7, <1>8, <1>9 DEF Fine
<1> QED BY <1>4, <1>5, <1>10, OthersAreFine

\* A phase has its result, which is true of its message unless the test met others.
LEMMA ResultKeepsInv ==
  ASSUME TypeOK, SmokeInv, NEW t \in Tests, pc[t] = "poll",
         NEW code \in Codes, Result(t, code), UNCHANGED <<queueVars, raised, shared>>,
         Undisturbed(t) => /\ code = 0 => phase[Current(t)] = "done"
                           /\ code = 1 => phase[Current(t)] = "dead"
  PROVE  TypeOK' /\ SmokeInv'
<1> USE DEF queueVars
<1>1. Fine(t) BY EachIsFine
<1>2. TypeOK'
  <2>1. base' \in [Tests -> [active : Nat, dlq : Nat]] /\ polls' \in [Tests -> 0 .. MaxPolls]
    BY SmokeAssumption DEF TypeOK, Result, LeavePhase, NoCounts
  <2>2. CASE NextPhase(t, code) BY <2>1, <2>2 DEF TypeOK, NextPhase, Goto
  <2>3. CASE Exit(t, code) BY <2>1, <2>3 DEF TypeOK, Exit, Goto
  <2> QED BY <2>2, <2>3 DEF Result
<1>3. OthersWait(t)
  BY DEF OthersWait, Result, LeavePhase, NextPhase, Exit, Goto, TypeOK
<1>4. Pending' = Pending /\ Dead' = Dead BY DEF Pending, Dead
<1>5. CASE Command[t] = "start" /\ ~Cleaning(t)
  <2>1. /\ primary'[t] = code /\ doing[t] = "start" /\ doing'[t] = "stop"
        /\ pc'[t] = "baseline" /\ primary[t] = 0
    BY <1>1, <1>5 DEF Result, NextPhase, Goto, Cleaning, TypeOK, Fine, InTurn
  <2>2. <<t, "stop">> \notin sent /\ <<t, "start">> \in sent
    BY <1>1, <2>1 DEF Fine, InTurn, Current
  <2>3. InTurn(t)' BY <1>5, <2>1, <2>2 DEF InTurn, Cleaning
  <2>4. Complete(t)' /\ Tells(t)' BY <2>1 DEF Complete, Tells, Over
  <2>5. ASSUME Undisturbed(t)' PROVE Counted(t)' /\ Settled(t)' /\ LastWord(t)'
    <3>1. Undisturbed(t) /\ Counted(t) /\ LastWord(t) /\ code # 2
      BY <1>1, <2>1, <2>5 DEF Undisturbed, Fine
    <3>2. code \in {0, 1} BY <3>1 DEF Codes
    <3>3. Settled(t)' BY <2>1, <3>1, <3>2 DEF Settled, Current
    <3>4. Pending = {}
      <4>1. Pending \subseteq {Current(t)} BY <3>1 DEF Counted, Underway
      <4>2. Current(t) \notin Pending BY <3>1, <3>2 DEF Pending
      <4> QED BY <4>1, <4>2
    <3>5. Counted(t)' BY <1>4, <2>1, <3>4 DEF Counted
    <3>6. LastWord(t)' BY <3>1 DEF LastWord
    <3> QED BY <3>3, <3>5, <3>6
  <2>6. Fine(t)' BY <2>3, <2>4, <2>5 DEF Fine
  <2> QED BY <1>2, <1>3, <2>6, OthersAreFine
<1>6. CASE ~(Command[t] = "start" /\ ~Cleaning(t))
  <2>1. /\ exit'[t] = IF primary[t] = 0 THEN code ELSE primary[t]
        /\ pc'[t] = "over" /\ UNCHANGED <<primary, doing>>
    BY <1>6 DEF Result, Exit, Goto, TypeOK
  <2>2. doing[t] = "stop" /\ Current(t) = <<t, "stop">>
    BY <1>1, <1>6, SmokeAssumption DEF Fine, InTurn, Cleaning, TypeOK, Current
  <2>3. Current(t) \in sent BY <1>1 DEF Fine, InTurn
  <2>4. InTurn(t)' BY <1>1, <2>1, <2>2 DEF Fine, InTurn, Cleaning, Current
  <2>5. Complete(t)' BY <2>1, <2>2, <2>3 DEF Complete
  <2>6. Tells(t)'
    <3>1. SUFFICES ASSUME t \notin shared
                   PROVE  /\ exit'[t] = 0 => \A j \in Own(t) : phase[j] = "done"
                          /\ exit'[t] = 1 => \E j \in Own(t) : phase[j] = "dead"
      BY DEF Tells, Own
    <3>2. primary[t] \in {0, 1} => Undisturbed(t) /\ Settled(t)
      BY <1>1, <3>1 DEF Undisturbed, Fine
    <3>3. Own(t) = IF Cleaning(t) THEN {<<t, "start">>, <<t, "stop">>} ELSE {<<t, "stop">>}
      BY <1>6, <1>1, <2>2, SmokeAssumption DEF Own, Cleaning, Fine, InTurn
    <3>4. ~Cleaning(t) => primary[t] = 0 BY <1>1 DEF Fine, InTurn
    <3>5. primary[t] \in Codes /\ Codes = {0, 1, 2} BY DEF TypeOK, Codes
    <3>6. CASE primary[t] = 0
      <4>1. /\ code = 0 => phase[<<t, "stop">>] = "done"
            /\ code = 1 => phase[<<t, "stop">>] = "dead"
        BY <3>6, <3>2, <2>2
      <4>2. Cleaning(t) => phase[<<t, "start">>] = "done" BY <3>6, <3>2 DEF Settled
      <4> QED BY <3>3, <3>6, <4>1, <4>2, <2>1
    <3>7. CASE primary[t] = 1
      <4>1. Cleaning(t) /\ phase[<<t, "start">>] = "dead" BY <3>7, <3>2, <3>4 DEF Settled
      <4> QED BY <3>3, <3>7, <4>1, <2>1
    <3>8. CASE primary[t] = 2 BY <3>8, <2>1
    <3> QED BY <3>5, <3>6, <3>7, <3>8
  <2>7. ASSUME Undisturbed(t)' PROVE Counted(t)' /\ Settled(t)' /\ LastWord(t)'
    <3>1. Undisturbed(t) /\ Settled(t) /\ LastWord(t)
      BY <1>1, <2>1, <2>7 DEF Undisturbed, Fine
    <3>2. Counted(t)' BY <2>1 DEF Counted, Underway
    <3>3. Settled(t)' /\ LastWord(t)' BY <2>1, <3>1 DEF Settled, LastWord, Cleaning
    <3> QED BY <3>2, <3>3
  <2>8. Fine(t)' BY <2>4, <2>5, <2>6, <2>7 DEF Fine
  <2> QED BY <1>2, <1>3, <2>8, OthersAreFine
<1> QED BY <1>5, <1>6

LEMMA PollKeepsInv ==
  ASSUME TypeOK, SmokeInv, NEW t \in Tests, Poll(t)
  PROVE  TypeOK' /\ SmokeInv'
<1> USE DEF queueVars
<1>1. pc[t] = "poll" /\ polls[t] < MaxPolls /\ Judge(t) /\ UNCHANGED <<queueVars, raised, shared>>
  BY DEF Poll
<1>2. CASE DeadCount > base[t].dlq /\ Result(t, 1)
  <2>1. Undisturbed(t) => phase[Current(t)] = "dead" BY <1>1, <1>2, CountsTell
  <2> QED BY <1>1, <1>2, <2>1, ResultKeepsInv DEF Codes
<1>3. CASE DeadCount <= base[t].dlq /\ Active <= base[t].active /\ Result(t, 0)
  <2>1. Undisturbed(t) => phase[Current(t)] = "done" BY <1>1, <1>3, CountsTell
  <2> QED BY <1>1, <1>3, <2>1, ResultKeepsInv DEF Codes
<1>4. CASE Undecided(t)
  <2>1. UNCHANGED <<queueVars, pc, doing, base, primary, exit, raised, shared>>
    BY <1>1, <1>4 DEF Undecided
  <2>2. TypeOK' BY <1>1, <1>4, SmokeAssumption DEF TypeOK, Undecided
  <2>3. OthersWait(t) BY <2>1 DEF OthersWait
  <2>4. Pending' = Pending /\ Dead' = Dead /\ Underway' = Underway
    BY <2>1 DEF Pending, Dead, Underway, Cleaning
  <2>5. Fine(t) BY EachIsFine
  <2>6. InTurn(t)' /\ Complete(t)' /\ Tells(t)'
    BY <2>1, <2>5 DEF Fine, InTurn, Complete, Tells, Over, Own, Cleaning, Current
  <2>7. Undisturbed(t)' => Counted(t)' /\ Settled(t)' /\ LastWord(t)'
    BY <2>1, <2>4, <2>5
       DEF Fine, Undisturbed, Counted, Settled, LastWord, Cleaning, Current
  <2>8. Fine(t)' BY <2>6, <2>7 DEF Fine
  <2> QED BY <2>2, <2>3, <2>8, OthersAreFine
<1> QED BY <1>1, <1>2, <1>3, <1>4 DEF Judge

LEMMA TimeOutKeepsInv ==
  ASSUME TypeOK, SmokeInv, NEW t \in Tests, TimeOut(t)
  PROVE  TypeOK' /\ SmokeInv'
BY ResultKeepsInv DEF TimeOut, Codes

\* A call has raised: the test is over, its phase left half-way.
LEMMA RaiseKeepsInv ==
  ASSUME TypeOK, SmokeInv, NEW t \in Tests, Raise(t)
  PROVE  TypeOK' /\ SmokeInv'
<1>1. Fine(t) BY EachIsFine
<1>2. /\ pc[t] # "over" /\ pc'[t] = "over" /\ exit'[t] = 1 /\ raised' = raised \cup {t}
      /\ UNCHANGED <<phase, tries, recording, doing, primary>>
  BY DEF Raise, Goto, TypeOK
<1>3. \/ pc[t] = "send" /\ sent' = sent \cup {Current(t)}
                      /\ shared' = shared \cup (Underway \ {t})
      \/ sent' = sent /\ shared' = shared
  BY DEF Raise, Enqueue, Current
<1>4. Current(t) \in Jobs BY DEF Current, TypeOK, Jobs
<1>5. TypeOK'
  <2>1. base' \in [Tests -> [active : Nat, dlq : Nat]] /\ polls' \in [Tests -> 0 .. MaxPolls]
    BY SmokeAssumption DEF TypeOK, Raise, LeavePhase, NoCounts
  <2>2. /\ pc' \in [Tests -> {"baseline", "send", "poll", "over"}]
        /\ exit' \in [Tests -> Codes] /\ raised' \subseteq Tests
    BY <1>2 DEF TypeOK, Raise, Goto, Codes
  <2>3. sent' \subseteq Jobs /\ shared' \subseteq Tests BY <1>3, <1>4 DEF TypeOK, Underway
  <2> QED BY <1>2, <2>1, <2>2, <2>3 DEF TypeOK
<1>6. OthersWait(t)
  <2>1. \A u \in Tests \ {t} : /\ pc'[u] = pc[u] /\ exit'[u] = exit[u]
                              /\ base'[u] = base[u]
    BY DEF Raise, Goto, LeavePhase, TypeOK
  <2> QED BY <1>2, <1>3, <2>1 DEF OthersWait
<1>7. InTurn(t)'
  <2>1. pc[t] = "send" => <<t, "start">> \notin sent \/ Cleaning(t)
    BY <1>1 DEF Fine, InTurn
  <2>2. sent' = sent \/ (pc[t] = "send" /\ sent' = sent \cup {<<t, doing[t]>>})
    BY <1>3 DEF Current
  <2>3. doing[t] = "start" => Command[t] = "start"
    BY <1>1, SmokeAssumption DEF Fine, InTurn, Cleaning, TypeOK
  <2> QED BY <1>1, <1>2, <2>1, <2>2, <2>3 DEF Fine, InTurn, Cleaning, TypeOK
<1>8. Complete(t)' /\ Tells(t)' BY <1>2 DEF Complete, Tells, Over
<1>9. ASSUME Undisturbed(t)' PROVE Counted(t)' /\ Settled(t)' /\ LastWord(t)'
  <2>1. Undisturbed(t) /\ Settled(t) /\ LastWord(t)
    BY <1>1, <1>2, <1>3, <1>9 DEF Undisturbed, Fine
  <2>2. Counted(t)' BY <1>2 DEF Counted, Underway
  <2>3. Settled(t)' /\ LastWord(t)' BY <1>2, <2>1 DEF Settled, LastWord, Cleaning
  <2> QED BY <2>2, <2>3
<1>10. Fine(t)' BY <1>7, <1>8, <1>9 DEF Fine
<1> QED BY <1>5, <1>6, <1>10, OthersAreFine

-----------------------------------------------------------------------------
(* The theorems *)

\* The invariant of side-by-side tests holds: of an undisturbed test, only the current
\* message can move the counts that _run_phase compares.
THEOREM SmokeInvariance == Spec => [](TypeOK /\ SmokeInv)
<1>1. Init => TypeOK /\ SmokeInv
  <2> SUFFICES ASSUME Init PROVE TypeOK /\ SmokeInv OBVIOUS
  <2> USE DEF Init, Queue!Init
  <2>1. TypeOK BY SmokeAssumption DEF TypeOK, Queue!Phases, Codes, NoCounts
  <2>2. IsFiniteSet(sent) BY FS_EmptySet
  <2>3. \A t \in Tests : InTurn(t) /\ Complete(t)
    BY SmokeAssumption DEF InTurn, Complete, Cleaning, Over
  <2>4. \A t \in Tests : Counted(t) /\ Settled(t) /\ LastWord(t)
    BY DEF Counted, Settled, LastWord, Underway, Cleaning
  <2>5. ExitTells BY DEF ExitTells, Over
  <2> QED BY <2>1, <2>2, <2>3, <2>4, <2>5 DEF SmokeInv
<1>2. TypeOK /\ SmokeInv /\ [Next]_vars => (TypeOK /\ SmokeInv)'
  <2> SUFFICES ASSUME TypeOK, SmokeInv, [Next]_vars PROVE TypeOK' /\ SmokeInv' OBVIOUS
  <2>1. CASE ObsControl BY <2>1, QueueKeepsInv
  <2>2. ASSUME NEW t \in Tests, Baseline(t) PROVE TypeOK' /\ SmokeInv'
    BY <2>2, BaselineKeepsInv
  <2>3. ASSUME NEW t \in Tests, Send(t) PROVE TypeOK' /\ SmokeInv' BY <2>3, SendKeepsInv
  <2>4. ASSUME NEW t \in Tests, Poll(t) PROVE TypeOK' /\ SmokeInv' BY <2>4, PollKeepsInv
  <2>5. ASSUME NEW t \in Tests, TimeOut(t) PROVE TypeOK' /\ SmokeInv' BY <2>5, TimeOutKeepsInv
  <2>6. ASSUME NEW t \in Tests, Raise(t) PROVE TypeOK' /\ SmokeInv' BY <2>6, RaiseKeepsInv
  <2>7. CASE UNCHANGED vars
    <3> USE <2>7 DEF vars, queueVars, testVars
    <3>1. TypeOK' BY DEF TypeOK
    <3>2. Pending' = Pending /\ Dead' = Dead /\ Underway' = Underway
      BY DEF Pending, Dead, Underway, Cleaning
    <3>3. \A t \in Tests : InTurn(t)' /\ Complete(t)'
      BY DEF SmokeInv, InTurn, Complete, Over, Cleaning, Current
    <3>4. \A t \in Tests : Undisturbed(t)' => Counted(t)' /\ Settled(t)' /\ LastWord(t)'
      BY <3>2 DEF SmokeInv, Undisturbed, Counted, Settled, LastWord, Cleaning, Current
    <3>5. ExitTells' BY DEF SmokeInv, ExitTells, Over, Own
    <3> QED BY <3>1, <3>3, <3>4, <3>5 DEF SmokeInv
  <2> QED BY <2>1, <2>2, <2>3, <2>4, <2>5, <2>6, <2>7 DEF Next, Step
<1> QED BY <1>1, <1>2, PTL DEF Spec

\* Every variable of the tests keeps its type; in particular every exit code is one of
\* those the script's header lists.
THEOREM SmokeTypeCorrect == Spec => []TypeOK
BY SmokeInvariance, PTL

\* The exit code of a test that had the queue for itself means what the script's header
\* says (smoke_test.py, _run_phase and run), for any number of tests side by side.
THEOREM ExitCodesTell == Spec => []ExitTells
<1>1. SmokeInv => ExitTells BY DEF SmokeInv
<1> QED BY <1>1, SmokeInvariance, PTL

\* After a verdict the clean-up stop is on its way or has had the last word
\* (smoke_test.py, run), also if the start failed after it had reached OBS.
THEOREM RecordingIsReleased == Spec => []ReleasesTheRecording
<1>1. TypeOK /\ SmokeInv => ReleasesTheRecording
  <2> SUFFICES ASSUME TypeOK, SmokeInv,
                      NEW t \in Tests \ (shared \cup raised), Over(t), exit[t] # 2, t \in recording
               PROVE  <<t, "stop">> \in sent /\ phase[<<t, "stop">>] # "done"
    BY DEF ReleasesTheRecording
  <2>1. Complete(t) BY DEF SmokeInv
  <2>2. <<t, "stop">> \in sent /\ primary[t] # 2 BY <2>1 DEF Complete
  <2>3. LastWord(t) BY <2>2 DEF SmokeInv, Undisturbed
  <2> QED BY <2>2, <2>3 DEF LastWord
<1> QED BY <1>1, SmokeInvariance, PTL
=============================================================================
