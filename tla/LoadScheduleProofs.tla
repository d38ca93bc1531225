------------------------- MODULE LoadScheduleProofs -------------------------
(***************************************************************************)
(* Proofs about LoadSchedule, for every schedule, every number of runs and *)
(* any size of a peek: its types, and that sessions come in pairs.         *)
(***************************************************************************)
EXTENDS LoadSchedule, FiniteSetTheorems, WellFoundedInduction, TLAPS

-----------------------------------------------------------------------------
(* The inductive invariant *)

\* A run has a text from its fetch on; it is half-way through a row, or has noted an
\* error, only while it sends.
InStep ==
  \A r \in Runs :
    /\ pc[r] \in {"servers", "parse", "peek", "cancel", "send"} => text[r] \in Schedules
    /\ errors[r] \/ half[r] => pc[r] = "send"

\* The queue is finite, its sequence numbers are, and what is active is due.
QueueInOrder ==
  /\ IsFiniteSet(queue)
  /\ \A m, n \in queue : m.seq = n.seq => m = n
  /\ \A m \in queue : m.active => At(m.job) <= now

\* There is a last sequence number.
Bounded == \E b \in Nat : \A k \in Known : k <= b

\* Who is about to cancel the stop of a session is about to cancel the starts of the
\* session that were sent before it.
DownClosed ==
  \A r \in Runs : \A k, m \in queue :
    /\ k.job = <<m.job[1], "stop">> /\ m.job[2] = "start"
    /\ m.seq < k.seq /\ k.seq \in seqs[r]
    => m.seq \in seqs[r]

\* Why a start may be without its stop.
Excused(s) ==
  "partial" \in incidents \/ \E r \in Runs : errors[r] \/ StopIsNext(r, s)

\* The start m has a stop that was sent after it.
Stopped(m) == \E k \in queue : k.job = <<m.job[1], "stop">> /\ m.seq < k.seq

Paired ==
  \A m \in queue :
    m.job[2] = "start" /\ now < StartAt[m.job[1]] /\ StartAt[m.job[1]] < StopAt[m.job[1]]
    => Stopped(m) \/ Excused(m.job[1])

LInv == TypeOK /\ InStep /\ QueueInOrder /\ Bounded /\ DownClosed /\ Paired
-----------------------------------------------------------------------------
(* Least and greatest numbers *)

\* The least number of S: the set of the numbers up to it has no smaller one among
\* the sets of this kind.
LEMMA LeastExists ==
  ASSUME NEW S, S \subseteq Nat, S # {}
  PROVE  \E n \in S : \A k \in S : n <= k
<1> DEFINE UpTo(n) == {k \in S : k <= n}
           All == {UpTo(n) : n \in S}
<1>1. \A n \in S : UpTo(n) \in FiniteSubsetsOf(S)
  <2> TAKE n \in S
  <2>1. IsFiniteSet(UpTo(n)) BY FS_BoundedSetOfNaturals
  <2> QED BY <2>1 DEF FiniteSubsetsOf
<1>2. All \subseteq FiniteSubsetsOf(S) /\ All # {} BY <1>1
<1>3. PICK L \in All : \A K \in All : ~(<<K, L>> \in StrictSubsetOrdering(S))
  <2>1. IsWellFoundedOn(StrictSubsetOrdering(S), FiniteSubsetsOf(S))
    BY FS_StrictSubsetOrderingWellFounded
  <2> HIDE DEF All
  <2> QED BY <1>2, <2>1, WFMin
<1>4. PICK n \in S : L = UpTo(n) OBVIOUS
<1>5. \A k \in S : n <= k
  <2> SUFFICES ASSUME NEW k \in S, k < n PROVE FALSE OBVIOUS
  <2>1. ASSUME NEW j \in UpTo(k) PROVE j \in UpTo(n)
    <3>1. j \in Nat /\ k \in Nat /\ n \in Nat /\ j <= k OBVIOUS
    <3>2. j <= n BY <3>1
    <3> QED BY <3>2
  <2>2. n \in UpTo(n) /\ n \notin UpTo(k) OBVIOUS
  <2>3. <<UpTo(k), UpTo(n)>> \in StrictSubsetOrdering(S)
    BY <2>1, <2>2 DEF StrictSubsetOrdering
  <2> QED BY <1>3, <1>4, <2>3
<1> QED BY <1>5

LEMMA GreatestExists ==
  ASSUME NEW S, S \subseteq Nat, S # {}, NEW b \in Nat, \A k \in S : k <= b
  PROVE  \E n \in S : \A k \in S : k <= n
<1> DEFINE Bounds == {c \in Nat : \A k \in S : k <= c}
<1>1. PICK c \in Bounds : \A d \in Bounds : c <= d
  <2>1. b \in Bounds OBVIOUS
  <2> QED BY <2>1, LeastExists
<1>2. c \in S
  <2>1. SUFFICES ASSUME c \notin S PROVE FALSE OBVIOUS
  <2>2. \A k \in S : k <= c /\ k # c /\ k \in Nat BY <2>1
  <2>3. PICK k \in S : TRUE OBVIOUS
  <2>4. c # 0 BY <2>2, <2>3
  <2>5. c - 1 \in Bounds BY <2>2, <2>4
  <2> QED BY <1>1, <2>5
<1> QED BY <1>1, <1>2

\* The next sequence number is greater than all that are known.
LEMMA FreshIsNew ==
  ASSUME TypeOK, Bounded
  PROVE  Fresh \in Nat /\ \A k \in Known : k < Fresh
<1>1. Known \subseteq Nat BY DEF Known, SeqsOf, TypeOK, Messages
<1>2. PICK b \in Nat : \A k \in Known : k <= b BY DEF Bounded
<1>3. Known # {} BY DEF Known
<1>4. \E n \in Known : \A k \in Known : n >= k BY <1>1, <1>2, <1>3, GreatestExists
<1>5. Max(Known) \in Known /\ \A k \in Known : Max(Known) >= k BY <1>4 DEF Max
<1>6. ASSUME NEW k \in Known PROVE k < 1 + Max(Known)
  <2>1. k \in Nat /\ Max(Known) \in Nat /\ Max(Known) >= k BY <1>1, <1>5
  <2> QED BY <2>1
<1>7. Max(Known) \in Nat BY <1>1, <1>5
<1>8. 1 + Max(Known) \in Nat BY <1>7
<1> QED BY <1>6, <1>8 DEF Fresh

\* A run that has something to send knows the next row.
LEMMA FirstRowIsARow ==
  ASSUME TypeOK, NEW r \in Runs, rows[r] # {}
  PROVE  /\ FirstRow(r) \in rows[r]
         /\ text[r][FirstRow(r)] \in Sessions
         /\ NextJob(r) \in Jobs
<1>1. rows[r] \subseteq Nat BY DEF TypeOK
<1>2. FirstRow(r) \in rows[r] BY <1>1, LeastExists DEF FirstRow, Min
<1>3. text[r][FirstRow(r)] \in Sessions BY <1>2 DEF TypeOK
<1> QED BY <1>2, <1>3 DEF NextJob, Jobs, Commands

\* What stands before a message that a peek returns is returned as well.
LEMMA PeekIsAPrefix ==
  ASSUME TypeOK, QueueInOrder, NEW k \in Peeked, NEW m \in queue, m.seq < k.seq
  PROVE  m \in Peeked
<1> DEFINE Before(x) == {n \in queue : n.seq < x.seq}
<1>1. k \in queue /\ Cardinality(Before(k)) < Batch BY DEF Peeked
<1>2. \A x \in queue : x.seq \in Nat BY DEF TypeOK, Messages
<1>3. Before(m) \subseteq Before(k)
  <2> SUFFICES ASSUME NEW n \in queue, n.seq < m.seq PROVE n.seq < k.seq OBVIOUS
  <2>1. n.seq \in Nat /\ m.seq \in Nat /\ k.seq \in Nat BY <1>1, <1>2
  <2> QED BY <2>1
<1>4. IsFiniteSet(Before(k)) BY FS_Subset DEF QueueInOrder
<1>5. /\ IsFiniteSet(Before(m)) /\ Cardinality(Before(m)) <= Cardinality(Before(k))
  BY <1>3, <1>4, FS_Subset
<1>6. Cardinality(Before(m)) \in Nat /\ Cardinality(Before(k)) \in Nat
  BY <1>4, <1>5, FS_CardinalityType
<1>7. Cardinality(Before(m)) < Batch BY <1>1, <1>5, <1>6, LoadAssumption
<1> QED BY <1>7 DEF Peeked

-----------------------------------------------------------------------------
(* What the steps do to the queue, and to who knows its numbers *)

\* Nothing is sent: the queue shrinks or stays, and no run learns a number.
LEMMA QueueShrinks ==
  ASSUME LInv, queue' \subseteq queue, now' \in Nat, now <= now',
         \A r \in Runs : seqs'[r] \in {seqs[r], {}}
  PROVE  (QueueInOrder /\ Bounded /\ DownClosed)'
<1> USE DEF LInv
<1>1. QueueInOrder'
  <2>1. IsFiniteSet(queue') BY FS_Subset DEF QueueInOrder
  <2>2. \A m, n \in queue' : m.seq = n.seq => m = n BY DEF QueueInOrder
  <2>3. ASSUME NEW m \in queue', m.active PROVE At(m.job)' <= now'
    <3>1. At(m.job)' = At(m.job) BY DEF At
    <3>2. m.job \in Jobs BY DEF TypeOK, Messages
    <3>3. At(m.job) \in Nat BY <3>2, LoadAssumption DEF At, Jobs, Commands
    <3>4. At(m.job) <= now BY <2>3 DEF QueueInOrder
    <3>5. now \in Nat BY DEF TypeOK
    <3> QED BY <3>1, <3>3, <3>4, <3>5
  <2> QED BY <2>1, <2>2, <2>3 DEF QueueInOrder
<1>2. Bounded'
  <2>1. Known' \subseteq Known BY DEF Known, SeqsOf
  <2> QED BY <2>1 DEF Bounded
<1>3. DownClosed'
  <2> SUFFICES ASSUME NEW r \in Runs, NEW k \in queue', NEW m \in queue',
                      k.job = <<m.job[1], "stop">>, m.job[2] = "start",
                      m.seq < k.seq, k.seq \in seqs'[r]
               PROVE  m.seq \in seqs'[r]
    BY DEF DownClosed
  <2>1. seqs'[r] = seqs[r] OBVIOUS
  <2> QED BY <2>1 DEF DownClosed
<1> QED BY <1>1, <1>2, <1>3

\* A message is sent, or is sent on when its time comes.
LEMMA QueueGrows ==
  ASSUME LInv, NEW X, NEW job \in Jobs, NEW active \in BOOLEAN,
         active => At(job) <= now,
         queue' = (queue \ X) \cup {Message(Fresh, job, active)},
         now' = now, seqs' = seqs
  PROVE  (QueueInOrder /\ Bounded /\ DownClosed)'
<1> USE DEF LInv
<1> DEFINE new == Message(Fresh, job, active)
<1>1. /\ Fresh \in Nat
      /\ \A m \in queue : m.seq < Fresh /\ m.seq \in Nat
      /\ \A r \in Runs : \A k \in seqs[r] : k < Fresh
  BY FreshIsNew DEF Known, SeqsOf, TypeOK, Messages
<1>2. new.seq = Fresh /\ new.job = job /\ new.active = active BY DEF Message
<1>3. QueueInOrder'
  <2>1. IsFiniteSet(queue')
    <3>1. IsFiniteSet(queue \ X) BY FS_Difference DEF QueueInOrder
    <3> QED BY <3>1, FS_AddElement
  <2>2. ASSUME NEW m \in queue', NEW n \in queue', m.seq = n.seq PROVE m = n
    <3>1. CASE m = new /\ n = new BY <3>1
    <3>2. CASE m \in queue /\ n \in queue BY <2>2, <3>2 DEF QueueInOrder
    <3>3. CASE m \in queue /\ n = new BY <1>1, <1>2, <2>2, <3>3
    <3>4. CASE m = new /\ n \in queue BY <1>1, <1>2, <2>2, <3>4
    <3> QED BY <3>1, <3>2, <3>3, <3>4
  <2>3. ASSUME NEW m \in queue', m.active PROVE At(m.job)' <= now'
    <3>1. At(m.job)' = At(m.job) BY DEF At
    <3>2. CASE m \in queue BY <2>3, <3>1, <3>2 DEF QueueInOrder
    <3>3. CASE m = new BY <1>2, <2>3, <3>1, <3>3
    <3> QED BY <3>2, <3>3
  <2> QED BY <2>1, <2>2, <2>3 DEF QueueInOrder
<1>4. Bounded'
  <2>1. \A k \in Known : k < Fresh BY FreshIsNew
  <2>2. Known \subseteq Nat BY DEF Known, SeqsOf, TypeOK, Messages
  <2>3. Known' \subseteq Known \cup {Fresh} BY <1>2 DEF Known, SeqsOf
  <2>4. \A k \in Known' : k <= Fresh BY <1>1, <2>1, <2>2, <2>3
  <2> QED BY <1>1, <2>4 DEF Bounded
<1>5. DownClosed'
  <2> SUFFICES ASSUME NEW r \in Runs, NEW k \in queue', NEW m \in queue',
                      k.job = <<m.job[1], "stop">>, m.job[2] = "start",
                      m.seq < k.seq, k.seq \in seqs[r]
               PROVE  m.seq \in seqs[r]
    BY DEF DownClosed
  <2>1. k.seq < Fresh /\ k # new BY <1>1, <1>2
  <2>2. k.seq \in Nat /\ m # new BY <1>1, <1>2, <2>1
  <2>3. k \in queue /\ m \in queue BY <2>1, <2>2
  <2> QED BY <2>3 DEF DownClosed
<1> QED BY <1>3, <1>4, <1>5

\* A peek: what run r is to cancel are the first messages of the queue, or those of
\* one session among them.
LEMMA SeqsTaken ==
  ASSUME LInv, queue' = queue, now' = now, NEW r \in Runs, NEW M,
         M = Peeked \/ (\E s \in Sessions : M = {m \in Peeked : m.job[1] = s}),
         seqs' = [seqs EXCEPT ![r] = SeqsOf(M)]
  PROVE  (QueueInOrder /\ Bounded /\ DownClosed)'
<1> USE DEF LInv
<1>1. M \subseteq Peeked /\ Peeked \subseteq queue BY DEF Peeked
<1>2. seqs'[r] = SeqsOf(M) /\ \A q \in Runs \ {r} : seqs'[q] = seqs[q] BY DEF TypeOK
<1>3. QueueInOrder' BY DEF QueueInOrder, At
<1>4. Bounded'
  <2>1. Known' \subseteq Known BY <1>1, <1>2 DEF Known, SeqsOf
  <2> QED BY <2>1 DEF Bounded
<1>5. DownClosed'
  <2> SUFFICES ASSUME NEW q \in Runs, NEW k \in queue, NEW m \in queue,
                      k.job = <<m.job[1], "stop">>, m.job[2] = "start",
                      m.seq < k.seq, k.seq \in seqs'[q]
               PROVE  m.seq \in seqs'[q]
    BY DEF DownClosed
  <2>1. CASE q # r BY <1>2, <2>1 DEF DownClosed
  <2>2. CASE q = r
    <3>1. k \in M BY <1>1, <1>2, <2>2 DEF SeqsOf, QueueInOrder
    <3>2. m \in Peeked BY <1>1, <3>1, PeekIsAPrefix
    <3>3. m \in M BY <3>1, <3>2
    <3> QED BY <1>2, <2>2, <3>3 DEF SeqsOf
  <2> QED BY <2>1, <2>2
<1> QED BY <1>3, <1>4, <1>5

-----------------------------------------------------------------------------
(* Types *)

\* What an answer leaves behind.
LEMMA AnswerTypes ==
  ASSUME TypeOK, NEW r \in Runs, Answer(r)
  PROVE  /\ pc' \in [Runs -> Steps] /\ text' \in [Runs -> Schedules \cup {None}]
         /\ seqs' \in [Runs -> SUBSET Nat] /\ rows' \in [Runs -> SUBSET Nat]
         /\ half' \in [Runs -> BOOLEAN] /\ errors' \in [Runs -> BOOLEAN]
         /\ \A q \in Runs : rows'[q] # {} => pc'[q] \in {"peek", "cancel", "send"}
                                  /\ \A n \in rows'[q] : n \in DOMAIN text'[q] /\ text'[q][n] \in Sessions
BY DEF TypeOK, Answer, Goto, Steps

LEMMA CancelTypes ==
  ASSUME TypeOK, NEW r \in Runs, Cancelled(r) \/ CancelRaises(r)
  PROVE  queue' \subseteq queue /\ queue' \subseteq Messages
BY DEF TypeOK, Cancelled, CancelRaises

LEMMA TypesKept ==
  ASSUME LInv, Next
  PROVE  TypeOK'
<1> USE DEF TypeOK
<1>1. CASE Tick BY <1>1, LoadAssumption DEF LInv, Tick, runVars, Mishap, If, Mishaps
<1>2. CASE Push BY <1>2 DEF LInv, Push, runVars
<1>3. ASSUME NEW m \in queue, Activate(m) PROVE TypeOK'
  <2>1. Fresh \in Nat BY FreshIsNew DEF LInv
  <2>2. Message(Fresh, m.job, TRUE) \in Messages BY <2>1 DEF LInv, Messages, Message
  <2> QED BY <1>3, <2>2 DEF LInv, Activate, runVars
<1>4. ASSUME NEW m \in queue, Take(m) PROVE TypeOK'
  BY <1>4 DEF LInv, Take, runVars
<1>5. ASSUME NEW r \in Runs, Run(r) PROVE TypeOK'
  <2>1. CASE Trigger(r)
    BY <2>1, LoadAssumption DEF LInv, Trigger, Begin, Goto, Steps, Mishap, If, Mishaps
  <2>2. CASE Fetch(r) BY <2>2, AnswerTypes DEF LInv, Fetch, Goto, Steps
  <2>3. CASE FetchServers(r) BY <2>3, AnswerTypes DEF LInv, FetchServers, Goto, Steps
  <2>4. CASE Parse(r)
    <3>1. CASE Answer(r) BY <2>4, <3>1, AnswerTypes DEF LInv, Parse
    <3>2. CASE ~Answer(r)
      <4>1. text[r] \in Schedules BY <2>4 DEF LInv, InStep, Parse
      <4>2. text[r] \in Seq(Sessions \cup {BadRow}) BY <4>1, LoadAssumption
      <4>3. DOMAIN text[r] \subseteq Nat BY <4>2
      <4>4. \A n \in Entries(text[r]) :
              n \in Nat /\ n \in DOMAIN text[r] /\ text[r][n] \in Sessions
        BY <2>4, <3>2, <4>2, <4>3 DEF Parse, Invalid, Entries
      <4> QED BY <2>4, <3>2, <4>4 DEF LInv, Parse, Goto, Steps
    <3> QED BY <3>1, <3>2
  <2>5. CASE Peek(r)
    <3>1. SeqsOf(Peeked) \subseteq Nat BY DEF LInv, SeqsOf, Peeked, Messages
    <3>2. CASE Answer(r)
      BY <2>5, <3>2, AnswerTypes DEF LInv, Peek, Mishap, If, Mishaps
    <3>3. CASE ~Answer(r)
      <4>1. pc' = [pc EXCEPT ![r] = "send"] \/ pc' = [pc EXCEPT ![r] = "cancel"]
        BY <2>5, <3>3 DEF Peek, Goto
      <4>2. seqs' = [seqs EXCEPT ![r] = SeqsOf(Peeked)] /\ loaded' \in {None, loaded}
        BY <2>5, <3>3 DEF Peek
      <4>3. incidents' \subseteq Mishaps BY <2>5, <3>3 DEF LInv, Peek, Mishap, If, Mishaps
      <4>4. UNCHANGED <<now, csv, queue, started, text, rows, half, errors>>
        BY <2>5, <3>3 DEF Peek
      <4> QED BY <3>1, <4>1, <4>2, <4>3, <4>4 DEF LInv, Steps
    <3> QED BY <2>5, <3>2, <3>3 DEF Peek
  <2>6. CASE Cancel(r)
    <3>1. queue' \subseteq Messages BY <2>6, CancelTypes DEF LInv, Cancel
    <3> QED BY <2>6, <3>1, AnswerTypes
            DEF LInv, Cancel, CancelRaises, Goto, Steps, Mishap, If, Mishaps
  <2>7. CASE Send(r)
    <3>1. Fresh \in Nat BY FreshIsNew DEF LInv
    <3>2. NextJob(r) \in Jobs BY <2>7, FirstRowIsARow DEF LInv, Send
    <3>3. Message(Fresh, NextJob(r), At(NextJob(r)) <= now) \in Messages
      BY <3>1, <3>2 DEF Messages, Message
    <3>4. queue' \subseteq Messages BY <2>7, <3>3 DEF LInv, Send, Enqueue
    <3> QED BY <2>7, <3>4 DEF LInv, Send, Tried
  <2>8. CASE Finish(r) BY <2>8, AnswerTypes DEF LInv, Finish, Mishap, If, Mishaps
  <2>9. CASE Crash(r) BY <2>9, AnswerTypes DEF LInv, Crash, Mishap, Mishaps
  <2>10. ASSUME NEW s \in Sessions, Match(r, s) PROVE TypeOK'
    <3>1. SeqsOf({m \in Peeked : m.job[1] = s}) \subseteq Nat
      BY DEF LInv, SeqsOf, Peeked, Messages
    <3>2. rows[r] = {} BY <2>10 DEF LInv, Match, Begin
    <3> QED BY <2>10, <3>1, <3>2, LoadAssumption
            DEF LInv, Match, Begin, Goto, Steps, Mishap, If, Mishaps
  <2>11. CASE Withdraw(r)
    <3>1. queue' \subseteq Messages BY <2>11, CancelTypes DEF LInv, Withdraw
    <3> QED BY <2>11, <3>1, AnswerTypes
            DEF LInv, Withdraw, CancelRaises, Mishap, Mishaps
  <2> QED BY <1>5, <2>1, <2>2, <2>3, <2>4, <2>5, <2>6, <2>7, <2>8, <2>9, <2>10, <2>11
          DEF Run
<1> QED BY <1>1, <1>2, <1>3, <1>4, <1>5 DEF Next

LEMMA InStepKept ==
  ASSUME LInv, Next
  PROVE  InStep'
<1> USE DEF LInv, TypeOK, InStep, Goto
<1>1. CASE Tick \/ Push \/ \E m \in queue : Activate(m) \/ Take(m)
  BY <1>1 DEF Tick, Push, Activate, Take, runVars
<1>2. ASSUME NEW r \in Runs, Run(r) PROVE InStep'
  <2>1. CASE Answer(r) BY <2>1 DEF Answer
  <2>2. CASE Trigger(r) BY <2>2 DEF Trigger, Begin
  <2>3. CASE Fetch(r) BY <2>1, <2>3 DEF Fetch
  <2>4. CASE FetchServers(r) BY <2>1, <2>4 DEF FetchServers
  <2>5. CASE Parse(r) BY <2>1, <2>5 DEF Parse
  <2>6. CASE Peek(r) BY <2>1, <2>6 DEF Peek
  <2>7. CASE Cancel(r) BY <2>1, <2>7 DEF Cancel, CancelRaises
  <2>8. CASE Send(r) BY <2>8 DEF Send, Tried
  <2>9. ASSUME NEW s \in Sessions, Match(r, s) PROVE InStep'
    BY <2>9 DEF Match, Begin
  <2> QED BY <1>2, <2>1, <2>2, <2>3, <2>4, <2>5, <2>6, <2>7, <2>8, <2>9
          DEF Run, Finish, Crash, Withdraw, CancelRaises
<1> QED BY <1>1, <1>2 DEF Next

-----------------------------------------------------------------------------
(* The queue *)

LEMMA AnswerForgets ==
  ASSUME TypeOK, NEW r \in Runs, Answer(r)
  PROVE  \A q \in Runs : seqs'[q] \in {seqs[q], {}}
BY DEF TypeOK, Answer

LEMMA QueueKept ==
  ASSUME LInv, Next
  PROVE  (QueueInOrder /\ Bounded /\ DownClosed)'
<1> DEFINE Goal == (QueueInOrder /\ Bounded /\ DownClosed)'
<1>0. now \in Nat /\ now <= now BY LoadAssumption DEF LInv, TypeOK
<1>1. CASE Tick
  <2>1. now' \in Nat /\ now <= now' BY <1>0, <1>1 DEF Tick
  <2> QED BY <1>1, <2>1, QueueShrinks DEF Tick, runVars
<1>2. CASE Push BY <1>0, <1>2, QueueShrinks DEF Push, runVars
<1>3. ASSUME NEW m \in queue, Activate(m) PROVE Goal
  <2>1. m.job \in Jobs BY DEF LInv, TypeOK, Messages
  <2> QED BY <1>3, <2>1, QueueGrows DEF Activate, runVars
<1>4. ASSUME NEW m \in queue, Take(m) PROVE Goal
  BY <1>0, <1>4, QueueShrinks DEF Take, runVars
<1>5. ASSUME NEW r \in Runs, Run(r) PROVE Goal
  <2> USE <1>0
  <2>1. CASE Answer(r) /\ queue' \subseteq queue /\ now' = now
    BY <2>1, AnswerForgets, QueueShrinks DEF LInv
  <2>2. CASE UNCHANGED <<queue, now, seqs>> BY <2>2, QueueShrinks
  <2>3. CASE Peek(r) BY <2>1, <2>3, SeqsTaken DEF Peek
  <2>4. CASE Cancel(r)
    <3>1. queue' \subseteq queue BY <2>4, CancelTypes DEF LInv, Cancel
    <3>2. CASE seqs' = [seqs EXCEPT ![r] = {}]
      BY <2>4, <3>1, <3>2, QueueShrinks DEF LInv, TypeOK, Cancel
    <3> QED BY <2>1, <2>4, <3>1, <3>2 DEF Cancel, CancelRaises
  <2>5. CASE Send(r)
    <3>1. NextJob(r) \in Jobs BY <2>5, FirstRowIsARow DEF LInv, Send
    <3>2. CASE Enqueue(NextJob(r))
      <4>1. PICK active \in BOOLEAN : active <=> At(NextJob(r)) <= now
        <5>1. CASE At(NextJob(r)) <= now BY <5>1
        <5>2. CASE ~(At(NextJob(r)) <= now) BY <5>2
        <5> QED BY <5>1, <5>2
      <4>2. queue' = (queue \ {}) \cup {Message(Fresh, NextJob(r), active)}
        BY <3>2, <4>1 DEF Enqueue
      <4>3. now' = now /\ seqs' = seqs BY <2>5 DEF Send
      <4> QED BY <3>1, <4>1, <4>2, <4>3, QueueGrows
    <3> QED BY <2>2, <2>5, <3>2 DEF Send
  <2>6. ASSUME NEW s \in Sessions, Match(r, s) PROVE Goal
    <3> DEFINE M == {m \in Peeked : m.job[1] = s}
    <3> QED BY <2>6, SeqsTaken DEF Match
  <2>7. CASE Withdraw(r)
    <3>1. queue' \subseteq queue BY <2>7, CancelTypes DEF LInv, Withdraw
    <3> QED BY <2>1, <2>7, <3>1 DEF Withdraw, CancelRaises
  <2> QED BY <1>5, <2>1, <2>2, <2>3, <2>4, <2>5, <2>6, <2>7
          DEF Run, Trigger, Fetch, FetchServers, Parse, Finish, Crash
<1> QED BY <1>1, <1>2, <1>3, <1>4, <1>5 DEF Next

-----------------------------------------------------------------------------
(* Starts and their stops *)

\* A step of run r leaves the other runs alone.
Others(r) ==
  \A q \in Runs \ {r} :
    /\ pc'[q] = pc[q] /\ text'[q] = text[q] /\ rows'[q] = rows[q]
    /\ half'[q] = half[q] /\ errors'[q] = errors[q]

\* The excuse another run has given stays.
LEMMA ExcuseOfOthers ==
  ASSUME NEW r \in Runs, Others(r), NEW q \in Runs \ {r}, NEW s,
         errors[q] \/ StopIsNext(q, s)
  PROVE  (errors[q] \/ StopIsNext(q, s))'
<1>1. FirstRow(q)' = FirstRow(q) BY DEF Others, FirstRow
<1>2. NextJob(q)' = NextJob(q) BY <1>1 DEF Others, NextJob
<1> QED BY <1>2 DEF Others, StopIsNext

\* An excuse stays in a step of a run that has none to give, or that ends in "partial".
LEMMA ExcuseKept ==
  ASSUME NEW r \in Runs, Others(r), incidents \subseteq incidents', NEW s, Excused(s),
         "partial" \in incidents' \/ (~errors[r] /\ ~StopIsNext(r, s))
  PROVE  Excused(s)'
<1>1. CASE "partial" \in incidents' BY <1>1 DEF Excused
<1>2. CASE "partial" \notin incidents'
  <2>1. PICK q \in Runs : errors[q] \/ StopIsNext(q, s) BY <1>2 DEF Excused
  <2>2. q # r BY <1>2, <2>1
  <2>3. (errors[q] \/ StopIsNext(q, s))' BY <2>1, <2>2, ExcuseOfOthers
  <2> QED BY <2>3 DEF Excused
<1> QED BY <1>1, <1>2

\* Starts keep their stops, or their excuses, in a step that takes from the queue at
\* most stops whose start goes with them.
LEMMA PairsStay ==
  ASSUME LInv, queue' \subseteq queue, now' \in Nat, now <= now',
         \A m \in queue', k \in queue :
           /\ m.job[2] = "start" /\ now < StartAt[m.job[1]]
           /\ StartAt[m.job[1]] < StopAt[m.job[1]]
           /\ k.job = <<m.job[1], "stop">> /\ m.seq < k.seq
           => k \in queue',
         \A s \in Sessions : Excused(s) => Excused(s)'
  PROVE  Paired'
<1> SUFFICES ASSUME NEW m \in queue', m.job[2] = "start", now' < StartAt[m.job[1]],
                    StartAt[m.job[1]] < StopAt[m.job[1]]
             PROVE  Stopped(m)' \/ Excused(m.job[1])'
  BY DEF Paired
<1>1. m \in queue /\ m.job[1] \in Sessions BY DEF LInv, TypeOK, Messages, Jobs
<1>2. now \in Nat /\ StartAt[m.job[1]] \in Nat BY <1>1, LoadAssumption DEF LInv, TypeOK
<1>3. now < StartAt[m.job[1]] BY <1>2
<1>4. CASE Stopped(m) BY <1>1, <1>3, <1>4 DEF Stopped
<1>5. CASE Excused(m.job[1]) BY <1>1, <1>5
<1> QED BY <1>1, <1>3, <1>4, <1>5 DEF LInv, Paired

\* Cancelling what one peek has returned.
LEMMA PairsCancelled ==
  ASSUME LInv, NEW r \in Runs, Cancelled(r) \/ CancelRaises(r), now' = now,
         \A s \in Sessions : Excused(s) => Excused(s)'
  PROVE  Paired'
<1>1. queue' \subseteq queue BY CancelTypes DEF LInv
<1>2. queue' \in {queue, queue \ Doomed(r)} BY DEF Cancelled, CancelRaises
<1>3. ASSUME NEW m \in queue', NEW k \in queue,
             m.job[2] = "start", now < StartAt[m.job[1]],
             k.job = <<m.job[1], "stop">>, m.seq < k.seq
      PROVE  k \in queue'
  <2>1. m \in queue BY <1>1
  <2>2. m.job[1] \in Sessions BY <2>1 DEF LInv, TypeOK, Messages, Jobs
  <2>3. ~m.active
    <3>1. now \in Nat /\ StartAt[m.job[1]] \in Nat
      BY <2>2, LoadAssumption DEF LInv, TypeOK
    <3>2. At(m.job) = StartAt[m.job[1]] BY <1>3 DEF At
    <3> QED BY <1>3, <2>1, <3>1, <3>2 DEF LInv, QueueInOrder
  <2>4. k.seq \in seqs[r] => m.seq \in seqs[r] BY <1>3, <2>1 DEF LInv, DownClosed
  <2>5. k \in Doomed(r) => m \in Doomed(r) BY <2>1, <2>3, <2>4 DEF Doomed
  <2> QED BY <1>2, <2>5
<1>4. now \in Nat /\ now <= now' BY LoadAssumption DEF LInv, TypeOK
<1> QED BY <1>1, <1>3, <1>4, PairsStay

\* The next message of run r has been tried.
LEMMA PairsSent ==
  ASSUME LInv, NEW r \in Runs, Send(r)
  PROVE  Paired'
<1> DEFINE t == text[r][FirstRow(r)]
           new == Message(Fresh, NextJob(r), At(NextJob(r)) <= now)
<1>1. /\ pc[r] = "send" /\ rows[r] # {} /\ now' = now /\ incidents' = incidents
      /\ Others(r) /\ pc'[r] = "send" /\ text'[r] = text[r]
      /\ rows'[r] = IF half[r] THEN rows[r] \ {FirstRow(r)} ELSE rows[r]
      /\ half'[r] = ~half[r]
      /\ errors[r] => errors'[r]
  BY DEF LInv, TypeOK, Send, Tried, Others
<1>2. queue' = queue \cup {new} \/ (queue' = queue /\ errors'[r])
  BY DEF LInv, TypeOK, Send, Enqueue
<1>3. new.seq = Fresh /\ new.job = NextJob(r) BY DEF Message
<1>4. NextJob(r) = <<t, IF half[r] THEN "stop" ELSE "start">> BY DEF NextJob
<1>5. ASSUME errors'[r], NEW s PROVE Excused(s)' BY <1>5 DEF Excused
<1>6. ASSUME NEW s, Excused(s), ~StopIsNext(r, s) PROVE Excused(s)'
  <2>1. CASE errors[r] BY <1>1, <1>5, <2>1
  <2>2. CASE ~errors[r]
    <3>1. incidents \subseteq incidents' BY <1>1
    <3> QED BY <1>1, <1>6, <2>2, <3>1, ExcuseKept
  <2> QED BY <2>1, <2>2
<1> HIDE DEF new
<1> SUFFICES ASSUME NEW m \in queue', m.job[2] = "start", now < StartAt[m.job[1]],
                    StartAt[m.job[1]] < StopAt[m.job[1]], ~errors'[r]
             PROVE  Stopped(m)' \/ Excused(m.job[1])'
  BY <1>1, <1>5 DEF Paired
<1>7. queue' = queue \cup {new} BY <1>2
<1>8. CASE m \in queue
  <2>1. CASE Stopped(m) BY <1>7, <2>1 DEF Stopped
  <2>2. CASE Excused(m.job[1]) /\ ~StopIsNext(r, m.job[1]) BY <1>6, <2>2
  <2>3. CASE StopIsNext(r, m.job[1])
    <3>1. new.job = <<m.job[1], "stop">> BY <1>3, <2>3 DEF StopIsNext
    <3>2. m.seq < new.seq BY <1>3, <1>8, FreshIsNew DEF LInv, Known, SeqsOf
    <3> QED BY <1>7, <3>1, <3>2 DEF Stopped
  <2> QED BY <1>8, <2>1, <2>2, <2>3 DEF LInv, Paired
<1>9. CASE m = new
  <2>0. PICK s : s = m.job[1] OBVIOUS
  <2>1. ~half[r] /\ s = t BY <1>3, <1>4, <1>9, <2>0
  <2>2. FirstRow(r)' = FirstRow(r) BY <1>1, <2>1 DEF FirstRow
  <2>3. NextJob(r)' = <<s, "stop">> BY <1>1, <2>1, <2>2 DEF NextJob
  <2>4. StopIsNext(r, s)' BY <1>1, <2>1, <2>3 DEF StopIsNext
  <2> QED BY <2>0, <2>4 DEF Excused
<1> QED BY <1>7, <1>8, <1>9

LEMMA PairsKept ==
  ASSUME LInv, Next
  PROVE  Paired'
<1>0. now \in Nat /\ now <= now BY LoadAssumption DEF LInv, TypeOK
<1>1. ASSUME UNCHANGED runVars, incidents \subseteq incidents'
      PROVE  \A s \in Sessions : Excused(s) => Excused(s)'
  <2> SUFFICES ASSUME NEW s \in Sessions, Excused(s) PROVE Excused(s)' OBVIOUS
  <2>1. CASE "partial" \in incidents BY <1>1, <2>1 DEF Excused
  <2>2. CASE "partial" \notin incidents
    <3>1. PICK q \in Runs : errors[q] \/ StopIsNext(q, s) BY <2>2 DEF Excused
    <3>2. FirstRow(q)' = FirstRow(q) BY <1>1 DEF runVars, FirstRow
    <3>3. NextJob(q)' = NextJob(q) BY <1>1, <3>2 DEF runVars, NextJob
    <3> QED BY <1>1, <3>1, <3>3 DEF Excused, StopIsNext, runVars
  <2> QED BY <2>1, <2>2
<1>2. CASE Tick
  <2>1. now' \in Nat /\ now <= now' BY <1>0, <1>2 DEF Tick
  <2> QED BY <1>1, <1>2, <2>1, PairsStay DEF Tick, Mishap
<1>3. CASE Push BY <1>0, <1>1, <1>3, PairsStay DEF Push
<1>4. ASSUME NEW x \in queue, Take(x) PROVE Paired'
  <2>1. ASSUME NEW m \in queue', NEW k \in queue, now < StartAt[m.job[1]],
               StartAt[m.job[1]] < StopAt[m.job[1]], k.job = <<m.job[1], "stop">>
        PROVE  k \in queue'
    <3>1. m.job[1] \in Sessions BY <1>4 DEF Take, LInv, TypeOK, Messages, Jobs
    <3>2. StartAt[m.job[1]] \in Nat /\ StopAt[m.job[1]] \in Nat BY <3>1, LoadAssumption
    <3>3. At(k.job) = StopAt[m.job[1]] BY <2>1 DEF At
    <3>4. ~k.active BY <1>0, <2>1, <3>2, <3>3 DEF LInv, QueueInOrder
    <3> QED BY <1>4, <3>4 DEF Take
  <2> QED BY <1>0, <1>1, <1>4, <2>1, PairsStay DEF Take
<1>5. ASSUME NEW x \in queue, Activate(x) PROVE Paired'
  <2> DEFINE new == Message(Fresh, x.job, TRUE)
  <2>1. new.job = x.job /\ queue' = (queue \ {x}) \cup {new} /\ At(x.job) <= now
    BY <1>5 DEF Activate, Message
  <2>2. x.job \in Jobs BY DEF LInv, TypeOK, Messages
  <2> HIDE DEF new
  <2> SUFFICES ASSUME NEW m \in queue', m.job[2] = "start", now < StartAt[m.job[1]],
                      StartAt[m.job[1]] < StopAt[m.job[1]]
               PROVE  Stopped(m)' \/ Excused(m.job[1])'
    BY <1>5 DEF Paired, Activate
  <2>3. m.job[1] \in Sessions
    BY <2>1, <2>2 DEF LInv, TypeOK, Messages, Jobs
  <2>4. StartAt[m.job[1]] \in Nat /\ StopAt[m.job[1]] \in Nat BY <2>3, LoadAssumption
  <2>5. x.job[1] # m.job[1] BY <1>0, <2>1, <2>2, <2>4 DEF At, Jobs, Commands
  <2>6. m \in queue BY <2>1, <2>5
  <2>7. CASE Stopped(m)
    <3>1. PICK k \in queue : k.job = <<m.job[1], "stop">> /\ m.seq < k.seq
      BY <2>7 DEF Stopped
    <3>2. k \in queue' BY <2>1, <2>5, <3>1
    <3> QED BY <3>1, <3>2 DEF Stopped
  <2>8. CASE Excused(m.job[1]) BY <1>1, <1>5, <2>3, <2>8 DEF Activate
  <2> QED BY <2>6, <2>7, <2>8 DEF LInv, Paired
<1>6. ASSUME NEW r \in Runs, Run(r) PROVE Paired'
  <2>1. CASE Send(r) BY <2>1, PairsSent
  <2>2. CASE ~Send(r)
    <3>1. Others(r) /\ incidents \subseteq incidents' /\ now' = now
      BY <1>6, <2>2 DEF LInv, TypeOK, Others, Run, Trigger, Fetch, FetchServers, Parse,
         Peek, Cancel, CancelRaises, Finish, Crash, Match, Withdraw, Begin, Goto,
         Answer, Mishap
    <3>2. ASSUME NEW s PROVE "partial" \in incidents' \/ (~errors[r] /\ ~StopIsNext(r, s))
      <4>1. CASE pc[r] # "send" BY <4>1 DEF LInv, InStep, StopIsNext
      <4>2. CASE Crash(r) BY <4>2 DEF Crash, Mishap
      <4>3. CASE Finish(r) BY <4>3 DEF Finish, Mishap, If, StopIsNext
      <4> QED BY <1>6, <2>2, <4>1, <4>2, <4>3 DEF Run, Trigger, Fetch, FetchServers,
              Parse, Peek, Cancel, Match, Withdraw, Begin
    <3>3. \A s \in Sessions : Excused(s) => Excused(s)'
      <4> SUFFICES ASSUME NEW s \in Sessions, Excused(s) PROVE Excused(s)' OBVIOUS
      <4> QED BY <3>1, <3>2, ExcuseKept
    <3>4. CASE queue' = queue BY <1>0, <3>1, <3>3, <3>4, PairsStay
    <3>5. CASE Cancelled(r) \/ CancelRaises(r) BY <3>1, <3>3, <3>5, PairsCancelled
    <3> QED BY <1>6, <2>2, <3>4, <3>5 DEF Run, Trigger, Fetch, FetchServers, Parse,
            Peek, Cancel, Finish, Crash, Match, Withdraw
  <2> QED BY <2>1, <2>2
<1> QED BY <1>2, <1>3, <1>4, <1>5, <1>6 DEF Next

-----------------------------------------------------------------------------
(* Theorems *)

\* The invariant holds in every state that any runs of LoadSchedule and of the script
\* reach, interleaved in any way, with every fault.
THEOREM LoadInvariance == Spec => []LInv
<1>1. Init => LInv
  <2> SUFFICES ASSUME Init PROVE LInv OBVIOUS
  <2>1. TypeOK BY LoadAssumption DEF Init, TypeOK, Steps
  <2>2. InStep BY DEF Init, InStep
  <2>3. QueueInOrder BY FS_EmptySet DEF Init, QueueInOrder
  <2>4. Bounded
    <3>1. Known = {0} BY DEF Init, Known, SeqsOf
    <3> QED BY <3>1 DEF Bounded
  <2>5. DownClosed /\ Paired BY DEF Init, DownClosed, Paired
  <2> QED BY <2>1, <2>2, <2>3, <2>4, <2>5 DEF LInv
<1>2. LInv /\ [Next]_vars => LInv'
  <2>1. ASSUME LInv, Next PROVE LInv'
    BY <2>1, TypesKept, InStepKept, QueueKept, PairsKept DEF LInv
  <2>2. ASSUME LInv, UNCHANGED vars PROVE LInv'
    <3> USE <2>2 DEF vars, runVars
    <3>1. \A r \in Runs : FirstRow(r)' = FirstRow(r) BY DEF FirstRow
    <3>2. \A r \in Runs : NextJob(r)' = NextJob(r) BY <3>1 DEF NextJob
    <3>3. Known' = Known BY DEF Known, SeqsOf
    <3>4. (TypeOK /\ InStep)' BY DEF LInv, TypeOK, InStep
    <3>5. (QueueInOrder /\ Bounded /\ DownClosed)'
      BY <3>3 DEF LInv, QueueInOrder, Bounded, DownClosed, At
    <3>6. Paired' BY <3>2 DEF LInv, Paired, Stopped, Excused, StopIsNext
    <3> QED BY <3>4, <3>5, <3>6 DEF LInv
  <2> QED BY <2>1, <2>2
<1> QED BY <1>1, <1>2, PTL DEF Spec

\* TypeOK of LoadSchedule.
THEOREM LoadTypeCorrect == Spec => []TypeOK
<1>1. LInv => TypeOK BY DEF LInv
<1> QED BY <1>1, LoadInvariance, PTL

\* No session is left to start without a stop unless somebody has been told
\* (function_app.py's send loop, cancel_sb_messages.py), for every schedule, any
\* number of concurrent runs, any size of a peek and every fault.
THEOREM StartsComeWithStops == Spec => []SessionsComeInPairs
<1>1. LInv => SessionsComeInPairs
  <2> SUFFICES ASSUME LInv, NEW s \in Sessions,
                      now < StartAt[s], StartAt[s] < StopAt[s],
                      Queued(<<s, "start">>) # {}, Queued(<<s, "stop">>) = {}
               PROVE  Excused(s)
    BY DEF SessionsComeInPairs, Excused
  <2>1. PICK m \in queue : m.job = <<s, "start">> BY DEF Queued
  <2>2. ~Stopped(m) BY <2>1 DEF Stopped, Queued
  <2> QED BY <2>1, <2>2 DEF LInv, Paired
<1> QED BY <1>1, LoadInvariance, PTL

=============================================================================
