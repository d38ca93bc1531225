-------------------------- MODULE LoadQueueProofs --------------------------
(***************************************************************************)
(* Proofs about what runs of LoadSchedule leave in the queue, one after    *)
(* another: the jobs of the schedule, as often as it has rows for them;    *)
(* and about a machine that carries them out, which follows the schedule.  *)
(***************************************************************************)
EXTENDS LoadScheduleProofs, ScheduleValidator

-----------------------------------------------------------------------------
(* Counting messages and rows *)

\* A job that is still to come.
ToCome(job) == At(job) > now

LEMMA QueuedFinite ==
  ASSUME LInv, NEW job
  PROVE  IsFiniteSet(Queued(job)) /\ Cardinality(Queued(job)) \in Nat
<1>1. IsFiniteSet(Queued(job)) BY FS_Subset DEF LInv, QueueInOrder, Queued
<1> QED BY <1>1, FS_CardinalityType

\* A file has finitely many rows.
LEMMA RowsFinite ==
  ASSUME NEW file \in Schedules, NEW s, NEW R, R \subseteq RowsOf(file, s)
  PROVE  /\ IsFiniteSet(R) /\ Cardinality(R) \in Nat
         /\ Cardinality(RowsOf(file, s)) \in Nat
         /\ Cardinality(R) <= Cardinality(RowsOf(file, s))
<1>1. file \in Seq(Sessions \cup {BadRow}) BY LoadAssumption
<1>2. DOMAIN file = 1 .. Len(file) /\ Len(file) \in Nat BY <1>1
<1>3. IsFiniteSet(DOMAIN file) BY <1>2, FS_Interval
<1>4. RowsOf(file, s) \subseteq DOMAIN file BY DEF RowsOf
<1>5. IsFiniteSet(RowsOf(file, s)) BY <1>3, <1>4, FS_Subset
<1>6. IsFiniteSet(R) /\ Cardinality(R) <= Cardinality(RowsOf(file, s)) BY <1>5, FS_Subset
<1> QED BY <1>5, <1>6, FS_CardinalityType

\* A set that loses elements has no more of them.
LEMMA FewerQueued ==
  ASSUME LInv, LInv', NEW job, queue' \subseteq queue
  PROVE  Cardinality(Queued(job)') <= Cardinality(Queued(job))
<1>1. Queued(job)' \subseteq Queued(job) BY DEF Queued
<1> QED BY <1>1, QueuedFinite, FS_Subset

\* Jobs are due at a time.
LEMMA Hours ==
  ASSUME LInv, NEW job \in Jobs
  PROVE  At(job) \in Nat /\ StopAt[job[1]] \in Nat /\ now \in Nat
BY LoadAssumption DEF LInv, TypeOK, At, Jobs, Commands

-----------------------------------------------------------------------------
(* Steps of the clock, of the queue and of a push *)

LEMMA CalmBefore ==
  ASSUME Next, Calm' PROVE Calm
BY DEF Next, Tick, Push, Activate, Take, Run, Trigger, Fetch, FetchServers, Parse, Peek, Cancel,
   CancelRaises, Send, Finish, Crash, Match, Withdraw, Begin, Mishap, Calm

\* Nothing that is to come changes.
LEMMA NothingToCome ==
  ASSUME LInv, CalmInv, Calm, UNCHANGED <<runVars, loaded>>, now' \in Nat, now' >= now,
         \A job \in Jobs : ToCome(job)' => Queued(job)' = Queued(job),
         \A m \in queue' : ToCome(m.job)' => m \in queue
  PROVE  CalmInv'
<1> USE DEF runVars
<1>1. \A job \in Jobs : ToCome(job)' => ToCome(job)
  <2> TAKE job \in Jobs
  <2>1. At(job) \in Nat /\ now \in Nat /\ At(job)' = At(job) BY Hours DEF At
  <2> QED BY <2>1 DEF ToCome
<1>2. \A s \in Sessions : ~OverBy(s, now)' => ~OverBy(s, now)
  <2> TAKE s \in Sessions
  <2>1. StopAt[s] \in Nat /\ now \in Nat BY LoadAssumption DEF LInv, TypeOK
  <2> QED BY <2>1 DEF OverBy
<1>3. \A job \in Jobs : job[1] \in Sessions BY DEF Jobs
<1>4. \A m \in queue' : ToCome(m.job)' => m.job \in Jobs
  BY DEF LInv, TypeOK, Messages
<1>5. OneRun' BY DEF CalmInv, OneRun
<1>6. AllPeeked' BY <1>1, <1>4 DEF CalmInv, AllPeeked, ToCome
<1>7. AllRowsLeft' BY <1>2 DEF CalmInv, AllRowsLeft, RowsOf
<1>8. \A r, job : TriedRows(r, job)' = TriedRows(r, job)
  BY DEF TriedRows, RowsOf, FirstRow
<1>9. SentOnce' BY <1>1, <1>2, <1>3, <1>8 DEF CalmInv, SentOnce, ToCome
<1>10. QueueMatchesSchedule'
  BY <1>1, <1>2, <1>3 DEF CalmInv, QueueMatchesSchedule, Holds, ToCome, RowsOf
<1>11. NoDuplicatesInTurn'
  BY <1>1, <1>3 DEF CalmInv, NoDuplicatesInTurn, ToCome, RowsOf
<1> QED BY <1>5, <1>6, <1>7, <1>9, <1>10, <1>11 DEF CalmInv

\* The clock, a push, and messages that become active or are taken touch nothing that is
\* still to come.
LEMMA NothingToComeTouched ==
  ASSUME LInv, Tick \/ Push \/ (\E m \in queue : Activate(m) \/ Take(m))
  PROVE  /\ UNCHANGED <<runVars, loaded>> /\ now' \in Nat /\ now' >= now
         /\ \A job \in Jobs : ToCome(job)' => Queued(job)' = Queued(job)
         /\ \A m \in queue' : ToCome(m.job)' => m \in queue
<1>0. now \in Nat BY LoadAssumption DEF LInv, TypeOK
<1>1. CASE Tick
  BY <1>0, <1>1 DEF Tick, Queued
<1>2. CASE Push
  BY <1>0, <1>2 DEF Push, Queued
<1>3. ASSUME NEW m \in queue, Activate(m)
      PROVE  /\ UNCHANGED <<runVars, loaded>> /\ now' \in Nat /\ now' >= now
             /\ \A job \in Jobs : ToCome(job)' => Queued(job)' = Queued(job)
             /\ \A x \in queue' : ToCome(x.job)' => x \in queue
  <2> DEFINE new == Message(Fresh, m.job, TRUE)
  <2>1. /\ queue' = (queue \ {m}) \cup {new} /\ new.job = m.job
        /\ UNCHANGED <<now, runVars, loaded>> /\ m.job \in Jobs /\ At(m.job) <= now
    BY <1>3 DEF Activate, Message, LInv, TypeOK, Messages
  <2>2. ~ToCome(m.job)'
    <3>1. At(m.job) \in Nat /\ At(m.job)' = At(m.job) BY <2>1, Hours DEF At
    <3> QED BY <1>0, <2>1, <3>1 DEF ToCome
  <2> HIDE DEF new
  <2>3. \A x \in queue' : ToCome(x.job)' => x \in queue BY <2>1, <2>2
  <2>4. ASSUME NEW job \in Jobs, ToCome(job)' PROVE Queued(job)' = Queued(job)
    <3>1. job # m.job BY <2>2, <2>4
    <3> QED BY <2>1, <3>1 DEF Queued
  <2> QED BY <1>0, <2>1, <2>3, <2>4
<1>4. ASSUME NEW m \in queue, Take(m)
      PROVE  /\ UNCHANGED <<runVars, loaded>> /\ now' \in Nat /\ now' >= now
             /\ \A job \in Jobs : ToCome(job)' => Queued(job)' = Queued(job)
             /\ \A x \in queue' : ToCome(x.job)' => x \in queue
  <2>1. /\ queue' = queue \ {m} /\ UNCHANGED <<now, runVars, loaded>>
        /\ m.job \in Jobs /\ At(m.job) <= now
    BY <1>4 DEF Take, LInv, TypeOK, Messages, QueueInOrder
  <2>2. ~ToCome(m.job)'
    <3>1. At(m.job) \in Nat /\ At(m.job)' = At(m.job) BY <2>1, Hours DEF At
    <3> QED BY <1>0, <2>1, <3>1 DEF ToCome
  <2>3. ASSUME NEW job \in Jobs, ToCome(job)' PROVE Queued(job)' = Queued(job)
    <3>1. job # m.job BY <2>2, <2>3
    <3> QED BY <2>1, <3>1 DEF Queued
  <2> QED BY <1>0, <2>1, <2>3
<1> QED BY <1>1, <1>2, <1>3, <1>4

LEMMA QueueStepsKeep ==
  ASSUME LInv, CalmInv, Calm,
         Tick \/ Push \/ (\E m \in queue : Activate(m) \/ Take(m))
  PROVE  CalmInv'
BY NothingToComeTouched, NothingToCome

-----------------------------------------------------------------------------
(* Steps of the one run in progress *)

\* In a calm step of run r no other run is in progress, before it and after it.
LEMMA Alone ==
  ASSUME LInv, CalmInv, NEW r \in Runs, Run(r), Calm, Calm'
  PROVE  \A q \in Runs \ {r} : pc[q] = "idle" /\ pc'[q] = "idle"
<1>1. \A q \in Runs \ {r} : pc'[q] = pc[q]
  BY DEF LInv, TypeOK, Run, Trigger, Fetch, FetchServers, Parse, Peek, Cancel, CancelRaises, Send,
     Finish, Crash, Match, Withdraw, Goto, Answer
<1>2. CASE pc[r] # "idle"
  BY <1>1, <1>2 DEF CalmInv, OneRun
<1>3. CASE pc[r] = "idle"
  <2>1. Begin(r)
    BY <1>3 DEF Run, Trigger, Fetch, FetchServers, Parse, Peek, Cancel, Send, Finish, Crash,
       Match, Withdraw
  <2>2. \A q \in Runs : pc[q] = "idle"
    BY <2>1 DEF Begin, Mishap, If, Calm
  <2> QED BY <1>1, <2>2
<1> QED BY <1>2, <1>3

\* What remains to be shown of run r.
RunGoal(r) ==
  /\ pc[r] = "cancel" => \A m \in queue : ToCome(m.job) => m.seq \in seqs[r]
  /\ pc[r] \in {"peek", "cancel"} =>
       \A s \in Sessions : ~OverBy(s, now) => RowsOf(text[r], s) \subseteq rows[r]
  /\ pc[r] = "send" =>
       /\ loaded = None
       /\ \A job \in Jobs : ToCome(job) =>
            /\ Cardinality(Queued(job)) <= Cardinality(TriedRows(r, job))
            /\ ~OverBy(job[1], now) /\ ~errors[r] =>
                 Cardinality(Queued(job)) = Cardinality(TriedRows(r, job))

LEMMA GoalSuffices ==
  ASSUME LInv, CalmInv, NEW r \in Runs, Run(r), Calm, Calm',
         RunGoal(r)', QueueMatchesSchedule', NoDuplicatesInTurn'
  PROVE  CalmInv'
<1>1. OneRun' BY Alone DEF OneRun
<1>2. AllPeeked' BY Alone DEF AllPeeked, RunGoal, ToCome
<1>3. AllRowsLeft' BY Alone DEF AllRowsLeft, RunGoal
<1>4. SentOnce' BY Alone DEF SentOnce, RunGoal, ToCome
<1> QED BY <1>1, <1>2, <1>3, <1>4 DEF CalmInv

\* The promises about the queue stay when messages are taken out of it, if that ends
\* what is said of the schedule.
LEMMA PromisesStay ==
  ASSUME LInv, LInv', CalmInv, Calm, now' = now,
         queue' \subseteq queue, loaded' = None \/ UNCHANGED <<queue, loaded>>
  PROVE  QueueMatchesSchedule' /\ NoDuplicatesInTurn'
<1>1. QueueMatchesSchedule'
  BY DEF CalmInv, QueueMatchesSchedule, Holds, Queued, At, OverBy, RowsOf
<1>2. NoDuplicatesInTurn'
  <2> SUFFICES ASSUME NEW job \in Jobs, At(job)' > now'
               PROVE  \E file \in Schedules :
                        Cardinality(Queued(job)') <= Cardinality(RowsOf(file, job[1]))
    BY DEF NoDuplicatesInTurn, RowsOf
  <2>1. At(job) > now BY DEF At
  <2>2. PICK file \in Schedules : Cardinality(Queued(job)) <= Cardinality(RowsOf(file, job[1]))
    BY <2>1 DEF CalmInv, NoDuplicatesInTurn
  <2>3. Cardinality(Queued(job)') <= Cardinality(Queued(job)) BY FewerQueued
  <2>4. /\ Cardinality(Queued(job)) \in Nat /\ Cardinality(Queued(job)') \in Nat
        /\ Cardinality(RowsOf(file, job[1])) \in Nat
    <3>1. IsFiniteSet(Queued(job)') BY FS_Subset DEF LInv, QueueInOrder, Queued
    <3> QED BY <3>1, QueuedFinite, RowsFinite, FS_CardinalityType
  <2>5. Cardinality(Queued(job)') <= Cardinality(RowsOf(file, job[1])) BY <2>2, <2>3, <2>4
  <2> QED BY <2>5
<1> QED BY <1>1, <1>2

\* A run begins to send to a queue that holds nothing to come.
LEMMA SendsFromEmpty ==
  ASSUME LInv, LInv', NEW r \in Runs, CalmInv, Calm, now' = now,
         pc[r] \in {"peek", "cancel"}, pc'[r] = "send", loaded' = None,
         UNCHANGED <<text, rows, half>>,
         \A m \in queue' : ~ToCome(m.job)'
  PROVE  RunGoal(r)'
<1> SUFFICES ASSUME NEW job \in Jobs, ToCome(job)'
             PROVE  /\ Cardinality(Queued(job)') <= Cardinality(TriedRows(r, job)')
                    /\ ~OverBy(job[1], now') =>
                         Cardinality(Queued(job)') = Cardinality(TriedRows(r, job)')
  BY DEF RunGoal, OverBy
<1>1. Queued(job)' = {} BY DEF Queued
<1>2. Cardinality(Queued(job)') = 0 BY <1>1, FS_EmptySet
<1>3. text[r] \in Schedules /\ ~half[r] BY DEF LInv, InStep
<1>4. TriedRows(r, job)' \subseteq RowsOf(text[r], job[1])
  BY DEF TriedRows, RowsOf
<1>5. Cardinality(TriedRows(r, job)') \in Nat BY <1>3, <1>4, RowsFinite
<1>6. ASSUME ~OverBy(job[1], now') PROVE TriedRows(r, job)' = {}
  <2>1. RowsOf(text[r], job[1]) \subseteq rows[r]
    BY <1>6 DEF CalmInv, AllRowsLeft, Jobs, OverBy
  <2> QED BY <1>3, <2>1 DEF TriedRows, RowsOf
<1> QED BY <1>2, <1>5, <1>6, FS_EmptySet

-----------------------------------------------------------------------------
(* A message is sent *)

\* The row of the message a run sends has then been tried for it, and had not been before.
LEMMA RowTried ==
  ASSUME LInv, NEW r \in Runs, Send(r), NEW job \in Jobs
  PROVE  /\ FirstRow(r) \notin TriedRows(r, NextJob(r))
         /\ TriedRows(r, job)' = IF job = NextJob(r)
                                 THEN TriedRows(r, job) \cup {FirstRow(r)}
                                 ELSE TriedRows(r, job)
<1> DEFINE F == FirstRow(r)
<1>1. F \in rows[r] /\ F \in DOMAIN text[r] /\ NextJob(r) \in Jobs
  BY FirstRowIsARow DEF LInv, TypeOK, Send
<1>2. /\ text'[r] = text[r] /\ half'[r] = ~half[r]
      /\ rows'[r] = IF half[r] THEN rows[r] \ {F} ELSE rows[r]
  BY DEF LInv, TypeOK, Send, Tried
<1>3. job = <<job[1], job[2]>> /\ job[2] \in {"start", "stop"} BY DEF Jobs, Commands
<1>4. NextJob(r) = <<text[r][F], IF half[r] THEN "stop" ELSE "start">> BY DEF NextJob
<1>5. RowsOf(text[r], job[1])' = RowsOf(text[r], job[1]) BY <1>2 DEF RowsOf
<1>6. F \in RowsOf(text[r], job[1]) <=> job[1] = text[r][F] BY <1>1 DEF RowsOf
<1>7. CASE ~half[r]
  <2>1. F' = F BY <1>2, <1>7 DEF FirstRow
  <2>2. TriedRows(r, job)' =
          {n \in RowsOf(text[r], job[1]) : n \notin rows[r] \/ (n = F /\ job[2] = "start")}
    BY <1>2, <1>5, <1>7, <2>1 DEF TriedRows
  <2>3. TriedRows(r, job) = {n \in RowsOf(text[r], job[1]) : n \notin rows[r]}
    BY <1>7 DEF TriedRows
  <2>4. job = NextJob(r) <=> job[1] = text[r][F] /\ job[2] = "start"
    BY <1>3, <1>4, <1>7
  <2>5. F \notin TriedRows(r, NextJob(r)) BY <1>1, <1>7 DEF TriedRows
  <2> QED BY <1>1, <1>6, <2>2, <2>3, <2>4, <2>5
<1>8. CASE half[r]
  <2>1. TriedRows(r, job)' =
          {n \in RowsOf(text[r], job[1]) : n \notin rows[r] \/ n = F}
    BY <1>2, <1>5, <1>8 DEF TriedRows
  <2>2. TriedRows(r, job) =
          {n \in RowsOf(text[r], job[1]) : n \notin rows[r] \/ (n = F /\ job[2] = "start")}
    BY <1>8 DEF TriedRows
  <2>3. job = NextJob(r) <=> job[1] = text[r][F] /\ job[2] = "stop"
    BY <1>3, <1>4, <1>8
  <2>4. F \notin TriedRows(r, NextJob(r)) BY <1>1, <1>4, <1>8 DEF TriedRows
  <2> QED BY <1>1, <1>3, <1>6, <2>1, <2>2, <2>3, <2>4
<1> QED BY <1>7, <1>8

\* It has arrived, or its loss is noted.
LEMMA MessageSent ==
  ASSUME LInv, NEW r \in Runs, Send(r), NEW job \in Jobs
  PROVE  \/ /\ job = NextJob(r)
            /\ \E m : m \notin Queued(job) /\ Queued(job)' = Queued(job) \cup {m}
         \/ Queued(job)' = Queued(job) /\ (job # NextJob(r) \/ errors'[r])
<1> DEFINE new == Message(Fresh, NextJob(r), At(NextJob(r)) <= now)
<1>1. queue' = queue \cup {new} \/ (queue' = queue /\ errors'[r])
  BY DEF LInv, TypeOK, Send, Enqueue
<1>2. new.seq = Fresh /\ new.job = NextJob(r) BY DEF Message
<1>3. new \notin queue
  <2>1. \A m \in queue : m.seq < Fresh /\ m.seq \in Nat /\ Fresh \in Nat
    BY FreshIsNew DEF LInv, Known, SeqsOf, TypeOK, Messages
  <2>2. \A m \in queue : m.seq # Fresh BY <2>1
  <2> QED BY <1>2, <2>2
<1> HIDE DEF new
<1>4. CASE queue' = queue \cup {new} /\ job = NextJob(r)
  <2>1. Queued(job)' = Queued(job) \cup {new} BY <1>2, <1>4 DEF Queued
  <2>2. new \notin Queued(job) BY <1>3 DEF Queued
  <2> QED BY <1>4, <2>1, <2>2
<1>5. CASE queue' = queue \cup {new} /\ job # NextJob(r)
  BY <1>2, <1>5 DEF Queued
<1>6. CASE queue' = queue /\ errors'[r]
  BY <1>6 DEF Queued
<1> QED BY <1>1, <1>4, <1>5, <1>6

LEMMA SendKeeps ==
  ASSUME LInv, LInv', CalmInv, Calm, Calm', NEW r \in Runs, Send(r)
  PROVE  CalmInv'
<1>1. /\ pc[r] = "send" /\ pc' = pc /\ text' = text /\ now' = now /\ loaded' = loaded
      /\ errors[r] => errors'[r]
  BY DEF LInv, TypeOK, Send
<1>2. loaded = None /\ text[r] \in Schedules
  BY <1>1 DEF CalmInv, SentOnce, LInv, InStep
<1>3. ASSUME NEW job \in Jobs, At(job)' > now'
      PROVE  /\ Cardinality(Queued(job)') <= Cardinality(TriedRows(r, job)')
             /\ ~OverBy(job[1], now)' /\ ~errors'[r] =>
                  Cardinality(Queued(job)') = Cardinality(TriedRows(r, job)')
             /\ Cardinality(Queued(job)') <= Cardinality(RowsOf(text[r], job[1]))
  <2> DEFINE T == TriedRows(r, job)  Q == Queued(job)
  <2>1. At(job) > now BY <1>1, <1>3 DEF At
  <2>2. /\ Cardinality(Q) <= Cardinality(T)
        /\ ~OverBy(job[1], now) /\ ~errors[r] => Cardinality(Q) = Cardinality(T)
    BY <1>1, <2>1 DEF CalmInv, SentOnce
  <2>3. T \subseteq RowsOf(text[r], job[1]) /\ T' \subseteq RowsOf(text[r], job[1])
    BY <1>1 DEF TriedRows, RowsOf
  <2>4. /\ IsFiniteSet(T) /\ Cardinality(T) \in Nat /\ Cardinality(T') \in Nat
        /\ Cardinality(T') <= Cardinality(RowsOf(text[r], job[1]))
        /\ Cardinality(RowsOf(text[r], job[1])) \in Nat
    BY <1>2, <2>3, RowsFinite
  <2>5. IsFiniteSet(Q) /\ Cardinality(Q) \in Nat BY QueuedFinite
  <2>6. IF job = NextJob(r) THEN Cardinality(T') = Cardinality(T) + 1 ELSE T' = T
    BY <2>4, RowTried, FS_AddElement
  <2>7. \/ job = NextJob(r) /\ Cardinality(Q') = Cardinality(Q) + 1
        \/ Q' = Q /\ (job # NextJob(r) \/ errors'[r])
    BY <2>5, MessageSent, FS_AddElement
  <2> HIDE DEF T, Q
  <2>8. Cardinality(Q') \in Nat BY <2>5, <2>7
  <2>9. /\ Cardinality(Q') <= Cardinality(T')
        /\ ~OverBy(job[1], now) /\ ~errors'[r] => Cardinality(Q') = Cardinality(T')
    BY <1>1, <2>2, <2>4, <2>5, <2>6, <2>7
  <2>10. Cardinality(Q') <= Cardinality(RowsOf(text[r], job[1])) BY <2>4, <2>8, <2>9
  <2> QED BY <1>1, <2>9, <2>10 DEF T, Q, OverBy
<1>4. RunGoal(r)' BY <1>1, <1>2, <1>3 DEF RunGoal, ToCome
<1>5. QueueMatchesSchedule' BY <1>1, <1>2 DEF QueueMatchesSchedule
<1>6. NoDuplicatesInTurn' BY <1>1, <1>2, <1>3 DEF NoDuplicatesInTurn, RowsOf
<1> QED BY <1>4, <1>5, <1>6, GoalSuffices DEF Run

-----------------------------------------------------------------------------
(* The other steps of a run *)

\* A step after which the run is not between its parse and its answer.
LEMMA OutsideKeeps ==
  ASSUME LInv, LInv', CalmInv, Calm, Calm', NEW r \in Runs, Run(r), now' = now,
         pc'[r] \notin {"peek", "cancel", "send"},
         queue' \subseteq queue, loaded' = None \/ UNCHANGED <<queue, loaded>>
  PROVE  CalmInv'
<1>1. RunGoal(r)' BY DEF RunGoal
<1> QED BY <1>1, PromisesStay, GoalSuffices

LEMMA AnswerLeaves ==
  ASSUME LInv, NEW r \in Runs, Answer(r)
  PROVE  pc'[r] = "idle"
BY DEF LInv, TypeOK, Answer, Goto

LEMMA ParseKeeps ==
  ASSUME LInv, LInv', CalmInv, Calm, Calm', NEW r \in Runs, Parse(r)
  PROVE  CalmInv'
<1>1. CASE Answer(r)
  BY <1>1, AnswerLeaves, OutsideKeeps DEF Parse, Run
<1>2. CASE ~Answer(r)
  <2>1. /\ pc'[r] = "peek" /\ rows'[r] = Entries(text[r]) /\ text' = text
        /\ UNCHANGED <<now, queue, loaded>>
    BY <1>2 DEF LInv, TypeOK, Parse, Goto
  <2>2. \A s \in Sessions : ~OverBy(s, now) => RowsOf(text[r], s) \subseteq Entries(text[r])
    BY DEF RowsOf, Entries
  <2>3. RunGoal(r)' BY <2>1, <2>2 DEF RunGoal, RowsOf, OverBy
  <2> QED BY <2>1, <2>3, PromisesStay, GoalSuffices DEF Run
<1> QED BY <1>1, <1>2

LEMMA PeekKeeps ==
  ASSUME LInv, LInv', CalmInv, Calm, Calm', NEW r \in Runs, Peek(r)
  PROVE  CalmInv'
<1>1. CASE Answer(r) /\ UNCHANGED <<loaded, incidents>>
  BY <1>1, AnswerLeaves, OutsideKeeps DEF Peek, Run
<1>2. CASE ~(Answer(r) /\ UNCHANGED <<loaded, incidents>>)
  <2>1. /\ seqs'[r] = SeqsOf(Peeked) /\ pc'[r] = (IF Peeked = {} THEN "send" ELSE "cancel")
        /\ loaded' = (IF Peeked = {} THEN None ELSE loaded)
        /\ UNCHANGED <<now, queue, text, rows, half>> /\ pc[r] = "peek"
    BY <1>2 DEF LInv, TypeOK, Peek, Goto
  <2>2. Peeked = queue
    BY <1>2 DEF Peek, Mishap, If, Calm
  <2>3. QueueMatchesSchedule' /\ NoDuplicatesInTurn'
    BY <2>1, PromisesStay
  <2>4. CASE Peeked = {}
    BY <2>1, <2>2, <2>3, <2>4, SendsFromEmpty, GoalSuffices DEF Peek, Run
  <2>5. CASE Peeked # {}
    <3>1. \A m \in queue : m.seq \in seqs'[r] BY <2>1, <2>2 DEF SeqsOf
    <3>2. \A s \in Sessions : ~OverBy(s, now) => RowsOf(text[r], s) \subseteq rows[r]
      BY <2>1 DEF CalmInv, AllRowsLeft
    <3>3. RunGoal(r)' BY <2>1, <2>5, <3>1, <3>2 DEF RunGoal, RowsOf, OverBy
    <3> QED BY <2>3, <3>3, GoalSuffices DEF Run
  <2> QED BY <2>4, <2>5
<1> QED BY <1>1, <1>2

LEMMA CancelKeeps ==
  ASSUME LInv, LInv', CalmInv, Calm, Calm', NEW r \in Runs, Cancel(r)
  PROVE  CalmInv'
<1>1. /\ now' = now /\ loaded' = None /\ queue' \subseteq queue /\ pc[r] = "cancel"
  BY CancelTypes DEF LInv, Cancel
<1>2. CASE CancelRaises(r)
  BY <1>1, <1>2, AnswerLeaves, OutsideKeeps DEF CancelRaises, Run
<1>3. CASE ~CancelRaises(r)
  <2>1. /\ pc'[r] = "send" /\ queue' = queue \ Doomed(r) /\ UNCHANGED <<text, rows, half>>
    BY <1>3 DEF LInv, TypeOK, Cancel, Cancelled, Goto
  <2>2. ASSUME NEW m \in queue', ToCome(m.job)' PROVE FALSE
    <3>1. m \in queue /\ At(m.job) > now BY <1>1, <2>2 DEF ToCome, At
    <3>2. m.seq \in seqs[r] BY <1>1, <3>1 DEF CalmInv, AllPeeked
    <3>3. ~m.active
      <4>1. m.job \in Jobs BY <3>1 DEF LInv, TypeOK, Messages
      <4>2. At(m.job) \in Nat /\ now \in Nat BY <4>1, Hours
      <4> QED BY <3>1, <4>2 DEF LInv, QueueInOrder
    <3> QED BY <2>1, <2>2, <3>1, <3>2, <3>3 DEF Doomed
  <2>3. RunGoal(r)' BY <1>1, <2>1, <2>2, SendsFromEmpty
  <2> QED BY <1>1, <2>3, PromisesStay, GoalSuffices DEF Run
<1> QED BY <1>2, <1>3

\* A run that answers 200 has put the schedule into the queue.
LEMMA FinishKeeps ==
  ASSUME LInv, LInv', CalmInv, Calm, Calm', NEW r \in Runs, Finish(r)
  PROVE  CalmInv'
<1>1. /\ pc[r] = "send" /\ rows[r] = {} /\ UNCHANGED <<now, queue>>
      /\ loaded' = (IF errors[r] THEN None ELSE text[r])
      /\ pc'[r] = "idle"
  BY AnswerLeaves DEF Finish
<1>2. CASE errors[r]
  BY <1>1, <1>2, OutsideKeeps DEF Run
<1>3. CASE ~errors[r]
  <2>1. ASSUME NEW job \in Jobs, At(job) > now, ~OverBy(job[1], now)
        PROVE  Cardinality(Queued(job)) = Cardinality(RowsOf(text[r], job[1]))
    <3>1. Cardinality(Queued(job)) = Cardinality(TriedRows(r, job))
      BY <1>1, <1>3, <2>1 DEF CalmInv, SentOnce
    <3>2. TriedRows(r, job) = RowsOf(text[r], job[1])
      BY <1>1 DEF TriedRows
    <3> QED BY <3>1, <3>2
  <2>2. QueueMatchesSchedule'
    BY <1>1, <1>3, <2>1 DEF QueueMatchesSchedule, Holds, Queued, At, OverBy, RowsOf
  <2>3. NoDuplicatesInTurn'
    BY <1>1 DEF CalmInv, NoDuplicatesInTurn, Queued, At, RowsOf
  <2>4. RunGoal(r)' BY <1>1 DEF RunGoal
  <2> QED BY <2>2, <2>3, <2>4, GoalSuffices DEF Run
<1> QED BY <1>2, <1>3

LEMMA RunKeeps ==
  ASSUME LInv, LInv', CalmInv, Calm, Calm', NEW r \in Runs, Run(r)
  PROVE  CalmInv'
<1>1. CASE Trigger(r)
  <2>1. pc'[r] = "fetch" BY <1>1 DEF LInv, TypeOK, Trigger, Goto
  <2> QED BY <1>1, <2>1, OutsideKeeps DEF Trigger
<1>2. CASE Fetch(r) \/ FetchServers(r)
  <2>1. pc'[r] \in {"idle", "servers", "parse"}
    BY <1>2, AnswerLeaves DEF LInv, TypeOK, Fetch, FetchServers, Goto
  <2> QED BY <1>2, <2>1, OutsideKeeps DEF Fetch, FetchServers
<1>3. CASE Crash(r)
  BY <1>3, AnswerLeaves, OutsideKeeps DEF Crash
<1>4. ASSUME NEW s \in Sessions, Match(r, s) PROVE CalmInv'
  <2>1. pc'[r] \in {"idle", "withdraw"} BY <1>4 DEF LInv, TypeOK, Match, Goto
  <2> QED BY <1>4, <2>1, OutsideKeeps DEF Match
<1>5. CASE Withdraw(r)
  <2>1. queue' \subseteq queue /\ Answer(r) BY <1>5, CancelTypes DEF LInv, Withdraw, CancelRaises
  <2> QED BY <1>5, <2>1, AnswerLeaves, OutsideKeeps DEF Withdraw
<1> QED BY <1>1, <1>2, <1>3, <1>4, <1>5, ParseKeeps, PeekKeeps, CancelKeeps, SendKeeps,
        FinishKeeps DEF Run

-----------------------------------------------------------------------------
(* Theorems *)

\* As long as runs do not overlap and peeks reach the end of the queue, the messages of
\* each job are counted right in every state, in the middle of a run or of a purge as well.
THEOREM CalmInvariance == Spec => []CalmInv
<1>1. Init => CalmInv
  <2> SUFFICES ASSUME Init PROVE CalmInv OBVIOUS
  <2>1. OneRun /\ AllPeeked /\ AllRowsLeft /\ SentOnce /\ QueueMatchesSchedule
    BY DEF Init, OneRun, AllPeeked, AllRowsLeft, SentOnce, QueueMatchesSchedule
  <2>2. NoDuplicatesInTurn
    <3> SUFFICES ASSUME NEW job \in Jobs
                 PROVE  \E file \in Schedules :
                          Cardinality(Queued(job)) <= Cardinality(RowsOf(file, job[1]))
      BY DEF NoDuplicatesInTurn
    <3>1. Queued(job) = {} BY DEF Init, Queued
    <3>2. csv \in Schedules BY DEF Init
    <3>3. Cardinality(RowsOf(csv, job[1])) \in Nat BY <3>2, RowsFinite
    <3>4. Cardinality(Queued(job)) = 0 BY <3>1, FS_EmptySet
    <3> QED BY <3>2, <3>3, <3>4
  <2> QED BY <2>1, <2>2 DEF CalmInv
<1>2. LInv /\ LInv' /\ CalmInv /\ [Next]_vars => CalmInv'
  <2> SUFFICES ASSUME LInv, LInv', CalmInv, [Next]_vars, Calm' PROVE CalmInv'
    BY DEF CalmInv
  <2>1. CASE Next
    <3>1. Calm BY <2>1, CalmBefore
    <3> QED BY <2>1, <3>1, QueueStepsKeep, RunKeeps DEF Next
  <2>2. CASE UNCHANGED vars
    <3>1. now \in Nat BY LoadAssumption DEF LInv, TypeOK
    <3>2. \A job : Queued(job)' = Queued(job) BY <2>2 DEF vars, Queued
    <3>3. Calm BY <2>2 DEF vars, Calm
    <3> QED BY <2>2, <3>1, <3>2, <3>3, NothingToCome DEF vars
  <2> QED BY <2>1, <2>2
<1> QED BY <1>1, <1>2, LoadInvariance, PTL DEF Spec

\* After a 200 the queue holds what the schedule lists, as often as it lists it, until
\* something is cancelled (load_schedule_function), whatever runs were refused, failed or
\* died before and since, at every hour.
THEOREM QueueIsTheSchedule == Spec => []QueueMatchesSchedule
<1>1. CalmInv => QueueMatchesSchedule BY DEF CalmInv, QueueMatchesSchedule
<1> QED BY <1>1, CalmInvariance, PTL

\* Runs that follow one another leave no duplicates (purge_scheduled_messages before the
\* sends), wherever one of them fails or dies.
THEOREM ReloadsDoNotAddUp == Spec => []NoDuplicatesInTurn
<1>1. CalmInv => NoDuplicatesInTurn BY DEF CalmInv, NoDuplicatesInTurn
<1> QED BY <1>1, CalmInvariance, PTL

-----------------------------------------------------------------------------
(* The machine *)

\* The machine only takes what OBSControl takes.
LEMMA MachineStep ==
  ASSUME [MachineNext]_machineVars PROVE [Next]_vars
BY DEF MachineNext, machineVars, CarryOut, Next

\* Nothing has gone wrong before a step after which nothing has.
LEMMA NoMishapBefore ==
  ASSUME Next, incidents' = {} PROVE incidents = {}
BY DEF Next, Tick, Push, Activate, Take, Run, Trigger, Fetch, FetchServers, Parse, Peek, Cancel,
   CancelRaises, Send, Finish, Crash, Match, Withdraw, Begin, Mishap, Calm

\* Nobody is forsaken but by a cancel.
LEMMA NobodyForsaken ==
  ASSUME \A r \in Runs : pc[r] = "cancel" => pc'[r] # "send"
  PROVE  Forsakes = {}
BY DEF Forsakes

\* The jobs of a session, and their hours.
LEMMA SessionHours ==
  ASSUME LInv, NEW s \in Sessions
  PROVE  /\ <<s, "start">> \in Jobs /\ <<s, "stop">> \in Jobs
         /\ At(<<s, "start">>) = StartAt[s] /\ At(<<s, "stop">>) = StopAt[s]
         /\ StartAt[s] \in Nat /\ StopAt[s] \in Nat /\ now \in Nat
BY LoadAssumption DEF LInv, TypeOK, Jobs, Commands, At

\* A step that changes no job in the queue, nor what is to be sent, at the same hour.
LEMMA JobsStay ==
  ASSUME LInv, AsScheduled, onAir \subseteq Sessions, now' = now,
         UNCHANGED <<onAir, forsaken, loaded>>,
         \A job \in Jobs : Queued(job)' = {} <=> Queued(job) = {},
         \A m \in queue' : \E n \in queue : m.job = n.job,
         PurgesAll',
         \A r \in Runs : /\ \A n \in rows'[r] : ~OverBy(text'[r][n], now)
                         /\ pc'[r] = "send" <=> pc[r] = "send"
                         /\ pc[r] = "send" => /\ text'[r] = text[r] /\ rows'[r] = rows[r]
                                              /\ half'[r] = half[r] /\ errors'[r] = errors[r]
  PROVE  AsScheduled'
<1>1. DueNow'
  BY DEF AsScheduled, DueNow, At, InHours, OverBy
<1>2. \A s : Ahead(s)' <=> Ahead(s)
  BY DEF Ahead, RowsOf
<1>3. \A s \in Sessions : HasStop(s)' <=> HasStop(s)
  BY <1>2, SessionHours DEF HasStop
<1>4. StopsAhead'
  BY <1>3, SessionHours DEF AsScheduled, StopsAhead
<1>5. \A s \in Sessions : OnTime(s)' <=> OnTime(s)
  BY SessionHours DEF OnTime, InHours
<1>6. \A r \in Runs : \A job : pc[r] = "send" => TriedRows(r, job)' = TriedRows(r, job)
  BY DEF TriedRows, RowsOf, FirstRow
<1>7. StartsBehind'
  BY <1>5, <1>6 DEF AsScheduled, StartsBehind, SessionsOf
<1> QED BY <1>1, <1>4, <1>7 DEF AsScheduled

LEMMA TickOnSchedule ==
  ASSUME LInv, CalmInv, AsScheduled, onAir \subseteq Sessions,
         Tick, UNCHANGED <<onAir, forsaken>>, incidents' = {}
  PROVE  AsScheduled'
<1>1. now \in Nat /\ now' = now + 1 BY LoadAssumption DEF LInv, TypeOK, Tick
<1>2. /\ \A m \in queue : ~(At(m.job) <= now)
      /\ \A r \in Runs : \A n \in rows[r] : ~OverBy(text[r][n], now + 1)
      /\ incidents = {} /\ Calm
  BY DEF Tick, Mishap, If, Calm
<1>3. UNCHANGED <<queue, pc, text, seqs, rows, half, errors, loaded>> BY DEF Tick, runVars
<1>4. DueNow'
  <2>1. ASSUME NEW m \in queue, At(m.job) <= now + 1 PROVE At(m.job) = now + 1
    <3>1. m.job \in Jobs BY DEF LInv, TypeOK, Messages
    <3>2. At(m.job) \in Nat BY <3>1, Hours
    <3> QED BY <1>1, <1>2, <2>1, <3>2
  <2> QED BY <1>1, <1>2, <1>3, <2>1 DEF DueNow, At, OverBy
<1>5. PurgesAll' BY <1>3 DEF AsScheduled, PurgesAll, SeqsOf
<1>6. \A s : HasStop(s)' <=> HasStop(s)
  BY <1>3 DEF HasStop, Queued, Ahead, RowsOf
<1>7. StopsAhead'
  <2>1. \A s \in onAir : StartAt[s] <= now + 1
    BY <1>1, LoadAssumption DEF AsScheduled, StopsAhead
  <2> QED BY <1>1, <1>3, <1>6, <2>1 DEF AsScheduled, StopsAhead, Queued
<1>8. ASSUME NEW s \in Sessions, InHours(s)'
      PROVE  /\ ~OverBy(s, now)
             /\ InHours(s) \/ At(<<s, "start">>) > now
  <2>1. StartAt[s] <= now + 1 /\ now + 1 < StopAt[s] BY <1>1, <1>8 DEF InHours
  <2>2. StartAt[s] \in Nat /\ StopAt[s] \in Nat /\ At(<<s, "start">>) = StartAt[s]
    BY SessionHours
  <2>3. ~(StopAt[s] <= now) /\ now < StopAt[s] BY <1>1, <2>1, <2>2
  <2>4. StartAt[s] <= now \/ StartAt[s] > now BY <1>1, <2>2
  <2> QED BY <2>2, <2>3, <2>4 DEF InHours, OverBy
<1>9. ASSUME NEW s \in Sessions, InHours(s)', At(<<s, "start">>) > now,
             Cardinality(Queued(<<s, "start">>)) # 0
      PROVE  Queued(<<s, "start">>)' # {}
  BY <1>3, <1>9, FS_EmptySet DEF Queued
<1>10. ASSUME loaded' # None, NEW s \in SessionsOf(loaded') PROVE OnTime(s)'
  <2> SUFFICES ASSUME InHours(s)', s \notin onAir PROVE Queued(<<s, "start">>)' # {}
    BY DEF OnTime
  <2>1. s \in Sessions /\ RowsOf(loaded, s) # {} /\ loaded # None /\ s \in SessionsOf(loaded)
    BY <1>3, <1>10 DEF SessionsOf, RowsOf
  <2>2. CASE InHours(s)
    BY <1>3, <2>1, <2>2 DEF AsScheduled, StartsBehind, OnTime, Queued
  <2>3. CASE At(<<s, "start">>) > now
    <3>1. loaded \in Schedules BY <2>1 DEF LInv, TypeOK
    <3>2. <<s, "start">>[1] = s OBVIOUS
    <3>3. Cardinality(Queued(<<s, "start">>)) = Cardinality(RowsOf(loaded, s))
      BY <1>2, <1>8, <2>1, <2>3, <3>2, SessionHours DEF CalmInv, QueueMatchesSchedule, Holds
    <3>4. Cardinality(RowsOf(loaded, s)) # 0 BY <2>1, <3>1, RowsFinite, FS_EmptySet
    <3> QED BY <1>9, <2>1, <2>3, <3>3, <3>4
  <2> QED BY <1>8, <2>1, <2>2, <2>3
<1>11. ASSUME NEW r \in Runs, pc[r] = "send", ~errors[r], NEW s \in Sessions,
              TriedRows(r, <<s, "start">>) # {}
       PROVE  OnTime(s)'
  <2> SUFFICES ASSUME InHours(s)', s \notin onAir PROVE Queued(<<s, "start">>)' # {}
    BY DEF OnTime
  <2> DEFINE job == <<s, "start">>
  <2>2. CASE InHours(s)
    BY <1>3, <1>11, <2>2 DEF AsScheduled, StartsBehind, OnTime, Queued
  <2>3. CASE At(job) > now
    <3>1. text[r] \in Schedules BY <1>11 DEF LInv, InStep
    <3>2. job \in Jobs /\ job[1] = s BY SessionHours
    <3>3. Cardinality(Queued(job)) = Cardinality(TriedRows(r, job))
      BY <1>2, <1>8, <1>11, <2>3, <3>2 DEF CalmInv, SentOnce
    <3>4. TriedRows(r, job) \subseteq RowsOf(text[r], s) BY <3>2 DEF TriedRows
    <3>5. Cardinality(TriedRows(r, job)) # 0 BY <1>11, <3>1, <3>4, RowsFinite, FS_EmptySet
    <3> QED BY <1>9, <2>3, <3>3, <3>5
  <2> QED BY <1>8, <2>2, <2>3
<1>12. StartsBehind'
  <2>1. \A r, job : TriedRows(r, job)' = TriedRows(r, job)
    BY <1>3 DEF TriedRows, RowsOf, FirstRow
  <2> QED BY <1>3, <1>10, <1>11, <2>1 DEF StartsBehind
<1> QED BY <1>4, <1>5, <1>7, <1>12 DEF AsScheduled

\* A message that becomes active is no longer one that a purge can cancel.
LEMMA ActivateOnSchedule ==
  ASSUME LInv, AsScheduled, onAir \subseteq Sessions,
         NEW m \in queue, Activate(m), UNCHANGED <<onAir, forsaken>>
  PROVE  AsScheduled'
<1> DEFINE new == Message(Fresh, m.job, TRUE)
<1>1. /\ queue' = (queue \ {m}) \cup {new} /\ new.job = m.job /\ new.seq = Fresh
      /\ UNCHANGED <<now, pc, text, seqs, rows, half, errors, loaded>>
  BY DEF Activate, Message, runVars
<1> HIDE DEF new
<1>2. \A job \in Jobs : Queued(job)' = {} <=> Queued(job) = {}
  BY <1>1 DEF Queued
<1>3. ASSUME NEW r \in Runs, pc[r] = "cancel" PROVE ~(seqs[r] \subseteq SeqsOf(queue'))
  <2>1. \A k \in seqs[r] : k < Fresh /\ k \in Nat BY FreshIsNew DEF LInv, Known, TypeOK
  <2>2. Fresh \in Nat BY FreshIsNew DEF LInv
  <2>3. CASE m.seq \in seqs[r]
    <3>1. \A n \in queue \ {m} : n.seq # m.seq BY DEF LInv, QueueInOrder
    <3>2. m.seq # Fresh BY <2>1, <2>2, <2>3
    <3> QED BY <1>1, <2>3, <3>1, <3>2 DEF SeqsOf
  <2>4. CASE m.seq \notin seqs[r]
    <3>1. PICK k \in seqs[r] : k \notin SeqsOf(queue)
      BY <1>3, <2>4 DEF AsScheduled, PurgesAll
    <3>2. k # Fresh BY <2>1, <2>2
    <3> QED BY <1>1, <3>1, <3>2 DEF SeqsOf
  <2> QED BY <2>3, <2>4
<1>4. PurgesAll' BY <1>1, <1>3 DEF PurgesAll
<1>5. \A r \in Runs : \A n \in rows[r] : ~OverBy(text[r][n], now)
  BY DEF AsScheduled, DueNow
<1>6. \A x \in queue' : \E n \in queue : x.job = n.job BY <1>1
<1> QED BY <1>1, <1>2, <1>4, <1>5, <1>6, JobsStay

\* A job that is carried out: a start finds its stop to come, and a stop finds nobody else
\* in hours, as sessions are apart.
LEMMA CarryOutOnSchedule ==
  ASSUME OneAtATime, LInv, AsScheduled, onAir \subseteq Sessions, forsaken \subseteq onAir,
         NEW m \in queue, CarryOut(m)
  PROVE  AsScheduled'
<1>1. /\ queue' = queue \ {m} /\ onAir' = After(m.job) /\ forsaken' = forsaken \cap onAir'
      /\ UNCHANGED <<now, pc, text, seqs, rows, half, errors, loaded>>
      /\ m.job \in Jobs /\ At(m.job) <= now
  BY DEF CarryOut, Take, runVars, LInv, TypeOK, Messages, QueueInOrder
<1>2. PICK s \in Sessions : m.job = <<s, "start">> \/ m.job = <<s, "stop">>
  BY <1>1 DEF Jobs, Commands
<1>3. DueNow' BY <1>1 DEF AsScheduled, DueNow, At, InHours, OverBy
<1>4. PurgesAll' BY <1>1 DEF AsScheduled, PurgesAll, SeqsOf
<1>5. \A job \in Jobs \ {m.job} : Queued(job)' = Queued(job)
  BY <1>1 DEF Queued
<1>6. \A job : Queued(job)' \subseteq Queued(job) BY <1>1 DEF Queued
<1>7. \A t \in Sessions : Ahead(t)' <=> Ahead(t) BY <1>1 DEF Ahead, RowsOf
<1>8. \A r, job : TriedRows(r, job)' = TriedRows(r, job)
  BY <1>1 DEF TriedRows, RowsOf, FirstRow
<1>9. \A t \in Sessions : InHours(t)' <=> InHours(t) BY <1>1 DEF InHours
<1>10. CASE m.job = <<s, "start">>
  <2>1. onAir' = onAir \cup {s} /\ forsaken' = forsaken
    BY <1>1, <1>10 DEF After
  <2>2. \A t \in Sessions : HasStop(t)' <=> HasStop(t)
    <3>1. \A t \in Sessions : <<t, "stop">> \in Jobs \ {m.job}
      <4> TAKE t \in Sessions
      <4>1. <<t, "stop">>[2] # m.job[2] BY <1>10
      <4>2. <<t, "stop">> # m.job BY <4>1
      <4> QED BY <4>2, SessionHours
    <3>2. \A t \in Sessions : Queued(<<t, "stop">>)' = Queued(<<t, "stop">>) BY <1>5, <3>1
    <3> QED BY <1>7, <3>2 DEF HasStop
  <2>3. StartAt[s] <= now /\ Queued(<<s, "start">>) # {}
    BY <1>1, <1>10, SessionHours DEF Queued
  <2>4. HasStop(s) BY <2>3 DEF AsScheduled, StopsAhead
  <2>5. StopsAhead'
    BY <1>1, <1>6, <2>1, <2>2, <2>3, <2>4 DEF AsScheduled, StopsAhead
  <2>6. \A t \in Sessions : OnTime(t) => OnTime(t)'
    <3> SUFFICES ASSUME NEW t \in Sessions \ {s}, OnTime(t) PROVE OnTime(t)'
      BY <2>1 DEF OnTime
    <3>1. <<t, "start">> \in Jobs \ {m.job}
      <4>1. <<t, "start">>[1] # m.job[1] BY <1>10
      <4>2. <<t, "start">> # m.job BY <4>1
      <4> QED BY <4>2, SessionHours
    <3>2. Queued(<<t, "start">>)' = Queued(<<t, "start">>) BY <1>5, <3>1
    <3> QED BY <1>9, <2>1, <3>2 DEF OnTime
  <2>7. StartsBehind'
    BY <1>1, <1>8, <2>6 DEF AsScheduled, StartsBehind, SessionsOf
  <2> QED BY <1>3, <1>4, <2>5, <2>7 DEF AsScheduled
<1>11. CASE m.job = <<s, "stop">>
  <2>1. onAir' = {} BY <1>1, <1>11 DEF After
  <2>2. StopAt[s] = now
    <3>1. m.job[1] = s /\ m.job[2] = "stop" BY <1>11
    <3>2. At(m.job) = now BY <1>1, <3>1 DEF AsScheduled, DueNow
    <3> QED BY <1>11, <3>2, SessionHours
  <2>3. StartAt[s] < StopAt[s] BY DEF OneAtATime
  <2>4. Queued(<<s, "start">>) = {}
    <3> SUFFICES ASSUME NEW k \in queue, k.job = <<s, "start">> PROVE FALSE BY DEF Queued
    <3>1. At(k.job) = StartAt[s] /\ StartAt[s] < now /\ StartAt[s] \in Nat /\ now \in Nat
      BY <2>2, <2>3, SessionHours
    <3>2. InHours(s) BY <3>1 DEF AsScheduled, DueNow
    <3> QED BY <2>2, <3>1, <3>2 DEF InHours
  <2>5. StopsAhead'
    <3> SUFFICES ASSUME NEW t \in Sessions, Queued(<<t, "start">>)' # {} PROVE HasStop(t)'
      BY <2>1 DEF StopsAhead
    <3>1. t # s
      <4> SUFFICES ASSUME t = s PROVE FALSE OBVIOUS
      <4>1. PICK k \in queue' : k.job = <<t, "start">> BY DEF Queued
      <4> QED BY <1>1, <2>4, <4>1 DEF Queued
    <3>2. HasStop(t) BY <1>6 DEF AsScheduled, StopsAhead
    <3>3. Queued(<<t, "stop">>)' = Queued(<<t, "stop">>)
      BY <1>5, <1>11, <3>1, SessionHours
    <3> QED BY <1>7, <3>2, <3>3 DEF HasStop
  <2>6. \A t \in onAir : ~InHours(t)
    <3> SUFFICES ASSUME NEW t \in Sessions, InHours(t) PROVE FALSE OBVIOUS
    <3>1. StartAt[t] <= now /\ now < StopAt[t] BY DEF InHours
    <3>2. t # s
      <4>1. now \in Nat /\ StopAt[t] \in Nat BY SessionHours
      <4>2. StopAt[t] # now BY <3>1, <4>1
      <4> QED BY <2>2, <4>2
    <3>3. StopAt[t] < StartAt[s] \/ StopAt[s] < StartAt[t] BY <3>2 DEF OneAtATime
    <3>4. StartAt[t] \in Nat /\ StopAt[t] \in Nat /\ StartAt[s] \in Nat /\ StopAt[s] \in Nat
      BY SessionHours
    <3> QED BY <2>2, <2>3, <3>1, <3>3, <3>4
  <2>7. \A t \in Sessions : OnTime(t) => OnTime(t)'
    <3> SUFFICES ASSUME NEW t \in Sessions, OnTime(t) PROVE OnTime(t)' OBVIOUS
    <3>1. <<t, "start">> \in Jobs \ {m.job}
      <4>1. <<t, "start">>[2] # m.job[2] BY <1>11
      <4>2. <<t, "start">> # m.job BY <4>1
      <4> QED BY <4>2, SessionHours
    <3>2. Queued(<<t, "start">>)' = Queued(<<t, "start">>) BY <1>5, <3>1
    <3> QED BY <1>9, <2>6, <3>2 DEF OnTime
  <2>8. StartsBehind'
    BY <1>1, <1>8, <2>7 DEF AsScheduled, StartsBehind, SessionsOf
  <2> QED BY <1>3, <1>4, <2>5, <2>8 DEF AsScheduled
<1> QED BY <1>2, <1>10, <1>11

\* A run begins to send: what it is going to enqueue has all its rows left.
LEMMA NothingTried ==
  ASSUME LInv, CalmInv, Calm, NEW r \in Runs, pc[r] \in {"peek", "cancel"}, now' = now,
         UNCHANGED <<text, rows, half>>, NEW s \in Sessions,
         TriedRows(r, <<s, "start">>)' # {}
  PROVE  ~InHours(s)'
<1>1. ~half[r] BY DEF LInv, InStep
<1>2. PICK n \in RowsOf(text[r], s) : n \notin rows[r]
  BY <1>1 DEF TriedRows, RowsOf, FirstRow
<1>3. OverBy(s, now) BY <1>2 DEF CalmInv, AllRowsLeft
<1>4. StopAt[s] \in Nat /\ now \in Nat BY SessionHours
<1>5. ~(now' < StopAt[s]) BY <1>3, <1>4 DEF OverBy
<1> QED BY <1>5 DEF InHours

LEMMA PeekOnSchedule ==
  ASSUME LInv, CalmInv, AsScheduled, onAir \subseteq Sessions, incidents = {}, incidents' = {},
         NEW r \in Runs, Peek(r), ~Answer(r), UNCHANGED <<onAir, forsaken>>
  PROVE  AsScheduled'
<1>1. /\ seqs'[r] = SeqsOf(Peeked) /\ pc[r] = "peek"
      /\ pc' = [pc EXCEPT ![r] = IF Peeked = {} THEN "send" ELSE "cancel"]
      /\ loaded' = (IF Peeked = {} THEN None ELSE loaded)
      /\ UNCHANGED <<now, queue, text, rows, half, errors>>
  BY DEF LInv, TypeOK, Peek, Goto
<1>2. Peeked = queue
  BY DEF Peek, Mishap, If
<1>3. Calm BY DEF Calm
<1>4. \A q \in Runs \ {r} : pc[q] = "idle" /\ pc'[q] = "idle"
  BY <1>1, <1>3 DEF CalmInv, OneRun, LInv, TypeOK
<1>5. \A q \in Runs : \A n \in rows[q] : ~OverBy(text[q][n], now)
  BY DEF AsScheduled, DueNow
<1>6. CASE Peeked # {}
  <2>1. PurgesAll' BY <1>1, <1>2, <1>4 DEF PurgesAll, SeqsOf
  <2>2. \A q \in Runs : pc'[q] = "send" <=> pc[q] = "send"
    BY <1>1, <1>4, <1>6 DEF LInv, TypeOK
  <2>3. \A job : Queued(job)' = Queued(job) BY <1>1 DEF Queued
  <2>4. \A m \in queue' : m \in queue BY <1>1
  <2> QED BY <1>1, <1>5, <1>6, <2>1, <2>2, <2>3, <2>4, JobsStay
<1>7. CASE Peeked = {}
  <2>1. queue = {} /\ queue' = {} /\ loaded' = None /\ pc'[r] = "send"
    BY <1>1, <1>2, <1>7 DEF LInv, TypeOK
  <2>2. DueNow' BY <1>1, <1>5, <2>1 DEF DueNow, OverBy
  <2>3. PurgesAll' BY <1>4, <2>1 DEF PurgesAll
  <2>4. \A s : ~HasStop(s) BY <1>1, <1>4, <2>1 DEF HasStop, Queued, Ahead
  <2>5. StopsAhead' BY <1>1, <2>1, <2>4 DEF AsScheduled, StopsAhead, Queued
  <2>6. StartsBehind'
    BY <1>1, <1>3, <1>4, <2>1, NothingTried DEF StartsBehind, OnTime
  <2> QED BY <2>2, <2>3, <2>5, <2>6 DEF AsScheduled
<1> QED BY <1>6, <1>7

\* A purge that succeeds has emptied the queue, and will enqueue the stops of all whom the
\* schedule lists; the others on the air are forsaken.
LEMMA CancelOnSchedule ==
  ASSUME LInv, CalmInv, AsScheduled, onAir \subseteq Sessions, incidents = {}, incidents' = {},
         NEW r \in Runs, Cancel(r), onAir' = onAir, forsaken' = forsaken \cup Forsakes
  PROVE  AsScheduled'
<1>1. /\ pc[r] = "cancel" /\ pc' = [pc EXCEPT ![r] = "send"]
      /\ Cancelled(r) /\ loaded' = None /\ UNCHANGED <<now, text, rows, half, errors>>
      /\ \A m \in Doomed(r) : ~(At(m.job) <= now)
  BY DEF Cancel, Mishap, If, Goto
<1>2. Calm BY DEF Calm
<1>3. pc'[r] = "send" /\ \A q \in Runs \ {r} : pc[q] = "idle" /\ pc'[q] = "idle"
  BY <1>1, <1>2 DEF CalmInv, OneRun, LInv, TypeOK
<1>4. queue = Doomed(r)
  <2>1. seqs[r] \subseteq SeqsOf(queue) BY <1>1 DEF Cancelled, Doomed, SeqsOf
  <2>2. \A m \in queue : m.seq \in seqs[r] BY <1>1, <2>1 DEF AsScheduled, PurgesAll
  <2>3. ASSUME NEW m \in queue PROVE m \in Doomed(r)
    <3>1. PICK n \in Doomed(r) : n.seq = m.seq BY <1>1, <2>2 DEF Cancelled, SeqsOf
    <3>2. n \in queue BY DEF Doomed
    <3> QED BY <3>1, <3>2 DEF LInv, QueueInOrder
  <2> QED BY <2>3 DEF Doomed
<1>5. queue' = {} BY <1>1, <1>4 DEF Cancelled
<1>6. DueNow' BY <1>1, <1>5 DEF AsScheduled, DueNow, OverBy
<1>7. PurgesAll' BY <1>5 DEF PurgesAll
<1>8. ASSUME NEW s \in onAir \ forsaken' PROVE Ahead(s)'
  <2>1. s \in SessionsOf(text[r]) BY <1>1, <1>3, <1>8 DEF Forsakes
  <2>2. HasStop(s) BY <1>8 DEF AsScheduled, StopsAhead
  <2>3. ~Ahead(s) BY <1>1, <1>3 DEF Ahead
  <2>4. PICK m \in queue : m.job = <<s, "stop">> BY <2>2, <2>3 DEF HasStop, Queued
  <2>5. ~(StopAt[s] <= now) BY <1>1, <1>4, <2>4, SessionHours
  <2>6. RowsOf(text[r], s) \subseteq rows[r] /\ RowsOf(text[r], s) # {}
    BY <1>1, <1>2, <2>1, <2>5 DEF CalmInv, AllRowsLeft, OverBy, SessionsOf, RowsOf
  <2>7. RowsOf(text[r], s)' = RowsOf(text[r], s) BY <1>1 DEF RowsOf
  <2> QED BY <1>1, <1>3, <2>6, <2>7 DEF Ahead
<1>9. StopsAhead'
  BY <1>1, <1>5, <1>8 DEF AsScheduled, StopsAhead, HasStop, Queued
<1>10. StartsBehind'
  BY <1>1, <1>2, <1>3, NothingTried DEF StartsBehind, OnTime
<1> QED BY <1>6, <1>7, <1>9, <1>10 DEF AsScheduled

LEMMA SendOnSchedule ==
  ASSUME LInv, CalmInv, AsScheduled, onAir \subseteq Sessions, incidents = {},
         NEW r \in Runs, Send(r), UNCHANGED <<onAir, forsaken>>
  PROVE  AsScheduled'
<1> DEFINE F == FirstRow(r)  sent == text[r][F]
<1>1. /\ pc[r] = "send" /\ rows[r] # {} /\ UNCHANGED <<now, pc, text, seqs, loaded>>
      /\ rows'[r] = (IF half[r] THEN rows[r] \ {F} ELSE rows[r])
      /\ half'[r] = ~half[r]
      /\ errors[r] => errors'[r]
      /\ \A q \in Runs \ {r} : rows'[q] = rows[q]
  BY DEF LInv, TypeOK, Send, Tried
<1>2. F \in rows[r] /\ sent \in Sessions /\ NextJob(r) \in Jobs
  BY <1>1, FirstRowIsARow DEF LInv
<1>3. Calm BY DEF Calm
<1>4. \A q \in Runs \ {r} : pc[q] = "idle" BY <1>1, <1>3 DEF CalmInv, OneRun
<1>5. loaded = None BY <1>1, <1>3 DEF CalmInv, SentOnce
<1>6. NextJob(r) = <<sent, IF half[r] THEN "stop" ELSE "start">> BY DEF NextJob
<1>7. ~OverBy(sent, now) BY <1>2 DEF AsScheduled, DueNow
<1>8. DueNow'
  <2>1. \A m \in queue' : m \in queue \/ m.job = NextJob(r)
    BY DEF Send, Enqueue, Message
  <2>2. ASSUME NEW m \in queue', At(m.job) <= now
        PROVE  At(m.job) = now \/ (m.job[2] = "start" /\ InHours(m.job[1]))
    <3>1. CASE m \in queue BY <2>2, <3>1 DEF AsScheduled, DueNow
    <3>2. CASE m.job = NextJob(r)
      <4>1. StartAt[sent] \in Nat /\ StopAt[sent] \in Nat /\ now \in Nat /\ now < StopAt[sent]
        <5>1. StartAt[sent] \in Nat /\ StopAt[sent] \in Nat /\ now \in Nat
          BY <1>2, SessionHours
        <5> QED BY <1>7, <5>1 DEF OverBy
      <4>2. ~half[r]
        <5> SUFFICES ASSUME half[r] PROVE FALSE OBVIOUS
        <5>1. m.job = <<sent, "stop">> BY <1>6, <3>2
        <5>2. At(m.job) = StopAt[sent] BY <1>2, <5>1, SessionHours
        <5> QED BY <2>2, <4>1, <5>2
      <4>3. m.job = <<sent, "start">> BY <1>6, <3>2, <4>2
      <4>4. StartAt[sent] <= now BY <1>2, <2>2, <4>3, SessionHours
      <4>5. InHours(sent) BY <4>1, <4>4 DEF InHours
      <4> QED BY <4>3, <4>5
    <3> QED BY <2>1, <3>1, <3>2
  <2>3. \A q \in Runs : rows'[q] \subseteq rows[q] BY <1>1
  <2> QED BY <1>1, <2>2, <2>3 DEF AsScheduled, DueNow, At, OverBy, InHours
<1>9. PurgesAll' BY <1>1, <1>4 DEF PurgesAll
<1>10. \A job \in Jobs : Queued(job) \subseteq Queued(job)'
  BY DEF Send, Enqueue, Queued
<1>11. ASSUME NEW s \in Sessions, HasStop(s) PROVE HasStop(s)'
  <2>1. CASE Queued(<<s, "stop">>) # {}
    BY <1>10, <2>1, SessionHours DEF HasStop
  <2>2. CASE Ahead(s)
    <3>1. errors[r] \/ RowsOf(text[r], s) \cap rows[r] # {}
      BY <1>1, <1>4, <2>2 DEF Ahead
    <3>2. CASE errors'[r] \/ RowsOf(text[r], s) \cap rows'[r] # {}
      BY <1>1, <3>2 DEF HasStop, Ahead, RowsOf
    <3>3. CASE ~errors'[r] /\ RowsOf(text[r], s) \cap rows'[r] = {}
      <4>1. half[r] /\ F \in RowsOf(text[r], s) BY <1>1, <3>1, <3>3
      <4>2. NextJob(r) = <<s, "stop">> BY <1>6, <4>1 DEF RowsOf
      <4>3. Queued(<<s, "stop">>)' # {} BY <1>2, <3>3, <4>2, MessageSent
      <4> QED BY <4>3 DEF HasStop
    <3> QED BY <3>2, <3>3
  <2> QED BY <1>11, <2>1, <2>2 DEF HasStop
<1>12. ASSUME NEW s \in Sessions, Queued(<<s, "start">>)' # {} PROVE HasStop(s)'
  <2>1. CASE Queued(<<s, "start">>) # {}
    BY <1>11, <2>1 DEF AsScheduled, StopsAhead
  <2>2. CASE Queued(<<s, "start">>) = {}
    <3>1. NextJob(r) = <<s, "start">> BY <1>12, <2>2, SessionHours, MessageSent
    <3>2. ~half[r] /\ sent = s BY <1>6, <3>1
    <3>3. F \in RowsOf(text[r], s) /\ F \in rows'[r]
      BY <1>1, <1>2, <3>2 DEF LInv, TypeOK, RowsOf
    <3>4. RowsOf(text[r], s)' = RowsOf(text[r], s) BY <1>1 DEF RowsOf
    <3> QED BY <1>1, <3>3, <3>4 DEF HasStop, Ahead
  <2> QED BY <2>1, <2>2
<1>13. StopsAhead'
  BY <1>1, <1>11, <1>12 DEF AsScheduled, StopsAhead
<1>14. ASSUME NEW s \in Sessions, ~errors'[r], TriedRows(r, <<s, "start">>)' # {}
       PROVE  OnTime(s)'
  <2>1. CASE TriedRows(r, <<s, "start">>) # {}
    <3>1. OnTime(s) BY <1>1, <1>14, <2>1 DEF AsScheduled, StartsBehind
    <3> QED BY <1>1, <1>10, <3>1, SessionHours DEF OnTime, InHours
  <2>2. CASE TriedRows(r, <<s, "start">>) = {}
    <3>1. NextJob(r) = <<s, "start">> BY <1>14, <2>2, SessionHours, RowTried
    <3>2. Queued(<<s, "start">>)' # {} BY <1>2, <1>14, <3>1, MessageSent
    <3> QED BY <3>2 DEF OnTime
  <2> QED BY <2>1, <2>2
<1>15. StartsBehind'
  BY <1>1, <1>4, <1>5, <1>14 DEF StartsBehind
<1> QED BY <1>8, <1>9, <1>13, <1>15 DEF AsScheduled

\* A run that answers 200 leaves a stop for all that is on the air or will be.
LEMMA FinishOnSchedule ==
  ASSUME LInv, CalmInv, AsScheduled, onAir \subseteq Sessions, incidents = {}, incidents' = {},
         NEW r \in Runs, Finish(r), UNCHANGED <<onAir, forsaken>>
  PROVE  AsScheduled'
<1>1. /\ pc[r] = "send" /\ rows[r] = {} /\ ~errors[r] /\ UNCHANGED <<now, queue>>
      /\ loaded' = text[r]
  BY DEF Finish, Mishap, If
<1>2. /\ \A q \in Runs \ {r} : pc'[q] = pc[q] /\ rows'[q] = rows[q] /\ text'[q] = text[q]
      /\ pc'[r] = "idle" /\ rows'[r] = {}
  BY DEF Finish, Answer, Goto, LInv, TypeOK
<1>3. Calm BY DEF Calm
<1>4. \A q \in Runs : pc'[q] = "idle" BY <1>1, <1>2, <1>3 DEF CalmInv, OneRun
<1>5. DueNow'
  <2>1. \A q \in Runs : \A n \in rows'[q] : ~OverBy(text'[q][n], now)
    BY <1>2 DEF AsScheduled, DueNow
  <2> QED BY <1>1, <2>1 DEF AsScheduled, DueNow, At, InHours, OverBy
<1>6. PurgesAll' BY <1>4 DEF PurgesAll
<1>7. \A s : ~Ahead(s)
  BY <1>1, <1>3 DEF Ahead, CalmInv, OneRun
<1>8. StopsAhead'
  BY <1>1, <1>7 DEF AsScheduled, StopsAhead, HasStop, Queued
<1>9. ASSUME NEW s \in SessionsOf(text[r]) PROVE OnTime(s)'
  <2>1. s \in Sessions /\ RowsOf(text[r], s) # {} BY DEF SessionsOf, RowsOf
  <2>2. TriedRows(r, <<s, "start">>) = RowsOf(text[r], s) BY <1>1 DEF TriedRows
  <2>3. OnTime(s) BY <1>1, <2>1, <2>2 DEF AsScheduled, StartsBehind
  <2> QED BY <1>1, <2>3 DEF OnTime, InHours, Queued
<1>10. StartsBehind' BY <1>1, <1>4, <1>9 DEF StartsBehind
<1> QED BY <1>5, <1>6, <1>8, <1>10 DEF AsScheduled

\* A step of run r, which neither purges nor sends, that changes nothing but r.
LEMMA OutsideOnSchedule ==
  ASSUME LInv, AsScheduled, onAir \subseteq Sessions, NEW r \in Runs,
         UNCHANGED <<now, queue, loaded, onAir, forsaken>>,
         pc[r] # "send", pc'[r] \notin {"send", "cancel"},
         \A q \in Runs \ {r} : /\ pc'[q] = pc[q] /\ text'[q] = text[q] /\ seqs'[q] = seqs[q]
                               /\ rows'[q] = rows[q] /\ half'[q] = half[q]
                               /\ errors'[q] = errors[q],
         \A n \in rows'[r] : ~OverBy(text'[r][n], now)
  PROVE  AsScheduled'
<1>1. PurgesAll' BY DEF AsScheduled, PurgesAll
<1>2. \A job : Queued(job)' = Queued(job) BY DEF Queued
<1>3. \A q \in Runs \ {r} : \A n \in rows'[q] : ~OverBy(text'[q][n], now)
  BY DEF AsScheduled, DueNow
<1>4. \A m \in queue' : m \in queue OBVIOUS
<1> QED BY <1>1, <1>2, <1>3, <1>4, JobsStay

\* An answer is such a step.
LEMMA AnswerOnSchedule ==
  ASSUME LInv, AsScheduled, onAir \subseteq Sessions, NEW r \in Runs, Answer(r),
         UNCHANGED <<now, queue, loaded, onAir, forsaken>>, pc[r] # "send"
  PROVE  AsScheduled'
<1>1. /\ pc'[r] = "idle" /\ rows'[r] = {}
      /\ \A q \in Runs \ {r} : /\ pc'[q] = pc[q] /\ text'[q] = text[q] /\ seqs'[q] = seqs[q]
                               /\ rows'[q] = rows[q] /\ half'[q] = half[q]
                               /\ errors'[q] = errors[q]
  BY DEF LInv, TypeOK, Answer, Goto
<1> QED BY <1>1, OutsideOnSchedule

LEMMA RunOnSchedule ==
  ASSUME LInv, CalmInv, AsScheduled, onAir \subseteq Sessions, incidents = {}, incidents' = {},
         NEW r \in Runs, Run(r), onAir' = onAir, forsaken' = forsaken \cup Forsakes
  PROVE  AsScheduled'
<1>1. ASSUME \A q \in Runs : pc[q] = "cancel" => pc'[q] # "send" PROVE forsaken' = forsaken
  BY <1>1, NobodyForsaken
<1>2. CASE Answer(r) /\ UNCHANGED <<now, queue, loaded>> /\ pc[r] # "send"
  <2>1. \A q \in Runs : pc[q] = "cancel" => pc'[q] # "send"
    BY <1>2 DEF LInv, TypeOK, Answer, Goto
  <2> QED BY <1>1, <1>2, <2>1, AnswerOnSchedule
<1>3. CASE \/ Trigger(r) \/ ((Fetch(r) \/ FetchServers(r) \/ Parse(r)) /\ ~Answer(r))
           \/ \E s \in Sessions : Match(r, s)
  <2>1. /\ pc[r] \in {"idle", "fetch", "servers", "parse"}
        /\ pc'[r] \in {"idle", "fetch", "servers", "parse", "peek", "withdraw"}
        /\ \A q \in Runs \ {r} : /\ pc'[q] = pc[q] /\ text'[q] = text[q] /\ seqs'[q] = seqs[q]
                                 /\ rows'[q] = rows[q] /\ half'[q] = half[q]
                                 /\ errors'[q] = errors[q]
        /\ UNCHANGED <<now, queue, loaded>>
    BY <1>3 DEF LInv, TypeOK, Trigger, Fetch, FetchServers, Parse, Match, Begin, Goto
  <2>2. \A q \in Runs : pc[q] = "cancel" => pc'[q] # "send" BY <2>1
  <2>3. rows[r] = {} BY <2>1 DEF LInv, TypeOK
  <2>4. \A n \in rows'[r] : ~OverBy(text'[r][n], now)
    <3>1. CASE Parse(r)
      BY <1>3, <3>1 DEF LInv, TypeOK, Parse, Entries, Trigger, Fetch, FetchServers, Match, Begin
    <3>2. CASE ~Parse(r)
      BY <1>3, <2>3, <3>2 DEF LInv, TypeOK, Trigger, Fetch, FetchServers, Match
    <3> QED BY <3>1, <3>2
  <2> QED BY <1>1, <2>1, <2>2, <2>4, OutsideOnSchedule
<1>4. CASE Peek(r) /\ ~Answer(r)
  <2>1. \A q \in Runs : pc[q] = "cancel" => pc'[q] # "send"
    BY <1>4 DEF LInv, TypeOK, Peek, Goto
  <2> QED BY <1>1, <1>4, <2>1, PeekOnSchedule
<1>5. CASE Cancel(r) BY <1>5, CancelOnSchedule
<1>6. CASE Send(r)
  <2>1. \A q \in Runs : pc[q] = "cancel" => pc'[q] # "send" BY <1>6 DEF Send
  <2> QED BY <1>1, <1>6, <2>1, SendOnSchedule
<1>7. CASE Finish(r)
  <2>1. \A q \in Runs : pc[q] = "cancel" => pc'[q] # "send"
    BY <1>7 DEF Finish, Answer, Goto, LInv, TypeOK
  <2> QED BY <1>1, <1>7, <2>1, FinishOnSchedule
<1>8. ~Crash(r) /\ ~Withdraw(r)
  BY DEF Crash, Withdraw, Mishap
<1>9. CASE (Fetch(r) \/ FetchServers(r) \/ Parse(r) \/ Peek(r)) /\ Answer(r)
  <2>1. UNCHANGED <<now, queue>> /\ pc[r] # "send"
    BY <1>9 DEF Fetch, FetchServers, Parse, Peek
  <2>2. loaded' = loaded
    <3>1. pc'[r] = "idle" BY <1>9, AnswerLeaves DEF LInv
    <3> QED BY <1>9, <3>1 DEF LInv, TypeOK, Fetch, FetchServers, Parse, Peek, Goto
  <2> QED BY <1>2, <1>9, <2>1, <2>2
<1> QED BY <1>3, <1>4, <1>5, <1>6, <1>7, <1>8, <1>9 DEF Run

LEMMA MachineInvKept ==
  ASSUME LInv, CalmInv, MachineInv, MachineNext
  PROVE  MachineInv'
<1>1. [MachineNext]_machineVars OBVIOUS
<1>2. Next BY DEF MachineNext, CarryOut, Next
<1>3. forsaken' \subseteq onAir' /\ onAir' \subseteq Sessions
  <2>1. ASSUME NEW m \in queue, CarryOut(m) PROVE onAir' \subseteq Sessions
    <3>1. m.job[1] \in Sessions BY DEF LInv, TypeOK, Messages, Jobs
    <3> QED BY <2>1, <3>1 DEF CarryOut, After, MachineInv
  <2>2. ASSUME NEW m \in queue, CarryOut(m) PROVE forsaken' \subseteq onAir'
    BY <2>2 DEF CarryOut
  <2>3. CASE onAir' = onAir /\ forsaken' = forsaken \cup Forsakes
    BY <2>3 DEF MachineInv, Forsakes
  <2> QED BY <2>1, <2>2, <2>3 DEF MachineNext
<1>4. ASSUME OneAtATime, incidents' = {} PROVE AsScheduled'
  <2>1. incidents = {} BY <1>2, <1>4, NoMishapBefore
  <2>2. AsScheduled /\ onAir \subseteq Sessions /\ forsaken \subseteq onAir
    BY <1>4, <2>1 DEF MachineInv
  <2>3. ASSUME NEW m \in queue, CarryOut(m) PROVE AsScheduled'
    BY <1>4, <2>2, <2>3, CarryOutOnSchedule
  <2>4. CASE onAir' = onAir /\ forsaken' = forsaken \cup Forsakes
    <3>1. CASE Tick \/ Push \/ \E m \in queue : Activate(m)
      <4>1. pc' = pc BY <3>1 DEF Tick, Push, Activate, runVars
      <4>2. forsaken' = forsaken BY <2>4, <4>1, NobodyForsaken
      <4>3. CASE Push
        <5>1. UNCHANGED <<now, queue, runVars, loaded>> BY <4>3 DEF Push
        <5>2. PurgesAll' BY <2>2, <5>1 DEF AsScheduled, PurgesAll, runVars
        <5>3. \A job : Queued(job)' = Queued(job) BY <5>1 DEF Queued
        <5>4. \A r \in Runs : \A n \in rows'[r] : ~OverBy(text'[r][n], now)
          BY <2>2, <5>1 DEF AsScheduled, DueNow, runVars
        <5>5. \A m \in queue' : m \in queue BY <5>1
        <5> QED BY <2>2, <2>4, <4>2, <5>1, <5>2, <5>3, <5>4, <5>5, JobsStay DEF runVars
      <4> QED BY <1>4, <2>2, <2>4, <3>1, <4>2, <4>3, TickOnSchedule, ActivateOnSchedule
    <3>2. ASSUME NEW r \in Runs, Run(r) PROVE AsScheduled'
      BY <1>4, <2>1, <2>2, <2>4, <3>2, RunOnSchedule
    <3>3. ASSUME Tick \/ Push \/ (\E m \in queue : Activate(m)) \/ (\E r \in Runs : Run(r))
          PROVE  AsScheduled'
      BY <3>1, <3>2, <3>3
    <3>4. CASE \E m \in queue : CarryOut(m) BY <2>3, <3>4
    <3> QED BY <3>3, <3>4 DEF MachineNext
  <2> QED BY <2>3, <2>4 DEF MachineNext
<1> QED BY <1>3, <1>4 DEF MachineInv

-----------------------------------------------------------------------------
(* Theorems about the machine *)

\* Every step of the queue and the machine is one of LoadSchedule's model (OBSControl takes a
\* message that is due) or does not concern it.
THEOREM MachineImplements == MachineSpec => Spec
<1>1. MachineInit => Init BY DEF MachineInit
<1>2. [MachineNext]_machineVars => [Next]_vars BY MachineStep
<1> QED BY <1>1, <1>2, PTL DEF MachineSpec, Spec

\* While nothing goes wrong, what is on the air or will be has its stop to come, in the queue
\* or with the run that has taken it out, and what should be on the air is or is about to be.
THEOREM MachineInvariance == MachineSpec => []MachineInv
<1>1. MachineInit => MachineInv
  <2> SUFFICES ASSUME MachineInit PROVE MachineInv OBVIOUS
  <2> USE DEF MachineInit, Init
  <2>1. DueNow /\ PurgesAll BY DEF DueNow, PurgesAll
  <2>2. StopsAhead /\ StartsBehind BY DEF StopsAhead, StartsBehind, Queued
  <2> QED BY <2>1, <2>2 DEF MachineInv, AsScheduled
<1>2. LInv /\ CalmInv /\ MachineInv /\ [MachineNext]_machineVars => MachineInv'
  <2>1. ASSUME LInv, CalmInv, MachineInv, MachineNext PROVE MachineInv'
    BY <2>1, MachineInvKept
  <2>2. ASSUME LInv, MachineInv, UNCHANGED machineVars PROVE MachineInv'
    <3> USE <2>2 DEF machineVars, vars, runVars
    <3> SUFFICES ASSUME OneAtATime, incidents = {} PROVE AsScheduled' BY DEF MachineInv
    <3>1. AsScheduled /\ onAir \subseteq Sessions BY DEF MachineInv
    <3>2. PurgesAll' BY <3>1 DEF AsScheduled, PurgesAll
    <3>3. \A job : Queued(job)' = Queued(job) BY DEF Queued
    <3>4. \A r \in Runs : \A n \in rows'[r] : ~OverBy(text'[r][n], now)
      BY <3>1 DEF AsScheduled, DueNow
    <3>5. \A m \in queue' : m \in queue OBVIOUS
    <3> QED BY <3>1, <3>2, <3>3, <3>4, <3>5, JobsStay
  <2> QED BY <2>1, <2>2
<1> QED BY <1>1, <1>2, MachineImplements, LoadInvariance, CalmInvariance, PTL DEF MachineSpec

\* The machine follows the schedule loaded last (load_schedule_function against
\* obs_control_function), if no two sessions of it meet: however often it was changed and
\* loaded again, refused, or failed to load, and wherever the clock stood.
THEOREM MachineFollowsTheSchedule ==
  ASSUME OneAtATime
  PROVE  MachineSpec => []FollowsSchedule
<1>1. LInv /\ MachineInv => FollowsSchedule
  <2> SUFFICES ASSUME LInv, MachineInv, Quiet, loaded # None, incidents = {},
                      NEW s \in SessionsOf(loaded)
               PROVE  /\ InHours(s) => s \in onAir
                      /\ s \in onAir => InHours(s) \/ s \in forsaken
    BY DEF FollowsSchedule
  <2>1. AsScheduled /\ s \in Sessions BY DEF MachineInv, SessionsOf
  <2>2. \A job : \A m \in Queued(job) : At(job) > now BY DEF Quiet, Queued
  <2>3. InHours(s) => s \in onAir
    <3> SUFFICES ASSUME InHours(s), s \notin onAir PROVE FALSE OBVIOUS
    <3>1. Queued(<<s, "start">>) # {} BY <2>1 DEF AsScheduled, StartsBehind, OnTime
    <3>2. StartAt[s] > now
      <4>1. At(<<s, "start">>) > now BY <2>2, <3>1
      <4> QED BY <2>1, <4>1, SessionHours
    <3>3. StartAt[s] <= now /\ StartAt[s] \in Nat /\ now \in Nat
      BY <2>1, SessionHours DEF InHours
    <3> QED BY <3>2, <3>3
  <2>4. ASSUME s \in onAir, s \notin forsaken PROVE InHours(s)
    <3>1. HasStop(s) /\ StartAt[s] <= now BY <2>1, <2>4 DEF AsScheduled, StopsAhead
    <3>2. Queued(<<s, "stop">>) # {} BY <3>1 DEF HasStop, Ahead, Quiet
    <3>3. StopAt[s] > now BY <2>1, <2>2, <3>2, SessionHours
    <3> QED BY <2>1, <3>1, <3>3, SessionHours DEF InHours
  <2> QED BY <2>3, <2>4
<1> QED BY <1>1, MachineImplements, MachineInvariance, LoadInvariance, PTL

-----------------------------------------------------------------------------
(* The validator *)

\* What a schedule holds to come stays so while no run changes the queue.
LEMMA HoldsOn ==
  ASSUME LInv, [Next]_vars, ~RunHasChangedQueue, NEW text0 \in Schedules, Holds(text0)
  PROVE  Holds(text0)'
<1>0. now \in Nat BY LoadAssumption DEF LInv, TypeOK
<1>1. ASSUME now' \in Nat, now' >= now,
             \A job \in Jobs : ToCome(job)' => Queued(job)' = Queued(job)
      PROVE  Holds(text0)'
  <2> SUFFICES ASSUME NEW job \in Jobs, At(job) > now', ~OverBy(job[1], now')
               PROVE  Cardinality(Queued(job)') = Cardinality(RowsOf(text0, job[1]))
    BY DEF Holds, At, OverBy, RowsOf
  <2>1. At(job) \in Nat /\ StopAt[job[1]] \in Nat BY Hours
  <2>2. At(job) > now /\ ~OverBy(job[1], now) BY <1>0, <1>1, <2>1 DEF OverBy
  <2>3. Queued(job)' = Queued(job) BY <1>1 DEF ToCome, At
  <2> QED BY <2>2, <2>3 DEF Holds
<1>2. ASSUME UNCHANGED <<now, queue>> PROVE Holds(text0)'
  BY <1>0, <1>1, <1>2 DEF Queued
<1>3. ASSUME NEW r \in Runs, Run(r), runVars' = runVars PROVE UNCHANGED <<now, queue>>
  <2>1. now' = now
    BY <1>3 DEF Run, Trigger, Fetch, FetchServers, Parse, Peek, Cancel, Send, Finish, Crash, Match,
       Withdraw
  <2>2. ~Cancel(r) /\ ~Withdraw(r)
    BY <1>3 DEF Cancel, Withdraw, CancelRaises, Answer, Goto, runVars, LInv, TypeOK
  <2>3. ~Send(r)
    BY <1>3 DEF Send, Tried, runVars, LInv, TypeOK
  <2> QED BY <1>3, <2>1, <2>2, <2>3 DEF Run, Trigger, Fetch, FetchServers, Parse, Peek, Finish, Crash,
      Match
<1>4. ASSUME NEW r \in Runs, Run(r), queue' = queue PROVE UNCHANGED <<now, queue>>
  BY <1>4 DEF Run, Trigger, Fetch, FetchServers, Parse, Peek, Cancel, Send, Finish, Crash, Match,
     Withdraw
<1> QED BY <1>1, <1>2, <1>3, <1>4, NothingToComeTouched DEF Next, RunHasChangedQueue, vars

\* The OK is right when it is given: both counts are those of what is to come now.
LEMMA CompareIsRight ==
  ASSUME LInv, ValidatorTypeOK, ReadsAreOld, check = "peek",
         Missing = {}, Extra = {}, Peeked = queue
  PROVE  Holds(page)
<1> SUFFICES ASSUME NEW job \in Jobs, At(job) > now, ~OverBy(job[1], now)
             PROVE  Cardinality(Queued(job)) = Cardinality(RowsOf(page, job[1]))
  BY DEF Holds
<1>1. page \in Schedules BY DEF ReadsAreOld, ValidatorTypeOK
<1>2. Expected(job) = Cardinality(RowsOf(page, job[1]))
  <2>1. {n \in expected : page[n] = job[1]} = RowsOf(page, job[1])
    BY DEF ReadsAreOld, RowsOf, Jobs
  <2> QED BY <2>1 DEF Expected
<1>3. ActualFuture(job) = Cardinality(Queued(job))
  <2>1. At(job) > clock
    <3>1. At(job) \in Nat /\ now \in Nat /\ clock \in Nat
      BY Hours, LoadAssumption DEF ValidatorTypeOK
    <3> QED BY <3>1 DEF ReadsAreOld
  <2>2. {m \in Peeked : m.job = job /\ At(job) > clock} = Queued(job)
    BY <2>1 DEF Queued
  <2> QED BY <2>2 DEF ActualFuture
<1>4. ~(Expected(job) > ActualFuture(job)) /\ ~(ActualFuture(job) > Expected(job))
  BY DEF Missing, Extra
<1>5. Cardinality(RowsOf(page, job[1])) \in Nat /\ Cardinality(Queued(job)) \in Nat
  BY <1>1, QueuedFinite, RowsFinite
<1> QED BY <1>2, <1>3, <1>4, <1>5

\* A step of the script itself.
LEMMA CheckKeeps ==
  ASSUME LInv, ValidatorInv, Check, UNCHANGED machineVars
  PROVE  ValidatorInv'
<1>1. now \in 0 .. Horizon /\ now \in Nat /\ csv \in Schedules BY LoadAssumption DEF LInv, TypeOK
<1>2. UNCHANGED <<now, queue>> BY DEF machineVars, vars
<1>3. ASSUME EndCheck PROVE ValidatorInv'
  BY <1>1, <1>2, <1>3, LoadAssumption
  DEF EndCheck, ValidatorInv, ValidatorTypeOK, ReadsAreOld, ValidatorIsSound
<1>4. CASE ReadClock
  BY <1>1, <1>2, <1>4
  DEF ReadClock, ValidatorInv, ValidatorTypeOK, ReadsAreOld, ValidatorIsSound
<1>5. CASE ReadPage /\ ~EndCheck
  <2>1. /\ check = "fetch" /\ check' = "peek" /\ page' = csv /\ clock' = clock
        /\ expected' = {n \in DOMAIN csv : csv[n] \in Sessions /\ ~OverBy(csv[n], now)}
    BY <1>5 DEF ReadPage
  <2>2. csv \in Seq(Sessions \cup {BadRow}) BY <1>1, LoadAssumption
  <2>3. expected' \subseteq Nat BY <2>1, <2>2
  <2>4. ReadsAreOld'
    BY <1>1, <1>2, <2>1 DEF ReadsAreOld, ValidatorInv, OverBy
  <2> QED BY <1>1, <2>1, <2>3, <2>4 DEF ValidatorInv, ValidatorTypeOK, ValidatorIsSound
<1>6. CASE Compare /\ ~EndCheck
  <2>1. /\ check = "peek" /\ Missing = {} /\ Extra = {} /\ Peeked = queue
        /\ check' = "ok" /\ page' = page /\ clock' = 0 /\ expected' = {}
    BY <1>6 DEF Compare
  <2>2. Holds(page) BY <2>1, CompareIsRight DEF ValidatorInv
  <2>3. Holds(page)' BY <1>2, <2>1, <2>2 DEF Holds, Queued, At, OverBy, RowsOf
  <2>4. page \in Schedules BY <2>1 DEF ValidatorInv, ReadsAreOld
  <2>5. 0 \in 0 .. Horizon BY LoadAssumption
  <2> QED BY <2>1, <2>3, <2>4, <2>5 DEF ValidatorInv, ValidatorTypeOK, ReadsAreOld, ValidatorIsSound
<1> QED BY <1>3, <1>4, <1>5, <1>6 DEF Check

\* A step of anything else, between two reads or after the last.
LEMMA OthersKeep ==
  ASSUME LInv, LInv', ValidatorInv, [MachineNext]_machineVars, UNCHANGED checkVars,
         check = "ok" => ~RunHasChangedQueue
  PROVE  ValidatorInv'
<1>1. [Next]_vars BY MachineStep
<1>2. now \in Nat /\ now' \in Nat BY LoadAssumption DEF LInv, TypeOK
<1>3. now' >= now
  <2>1. ASSUME NEW r \in Runs, Run(r) PROVE now' = now
    BY <2>1 DEF Run, Trigger, Fetch, FetchServers, Parse, Peek, Cancel, Send, Finish, Crash, Match,
       Withdraw
  <2>2. CASE UNCHANGED vars BY <1>2, <2>2 DEF vars
  <2> QED BY <1>1, <1>2, <2>1, <2>2, NothingToComeTouched DEF Next
<1>4. ValidatorTypeOK' BY DEF ValidatorInv, ValidatorTypeOK, checkVars
<1>5. ReadsAreOld'
  <2> USE DEF ReadsAreOld, checkVars
  <2>1. ReadsAreOld /\ clock \in Nat
    BY LoadAssumption DEF ValidatorInv, ValidatorTypeOK
  <2>2. check' \in {"fetch", "peek"} => clock' <= now' BY <1>2, <1>3, <2>1
  <2>3. \A s \in Sessions : ~OverBy(s, now') => ~OverBy(s, now)
    BY <1>2, <1>3, LoadAssumption DEF OverBy
  <2>4. \A n : page'[n] = page[n] BY DEF checkVars
  <2> QED BY <2>1, <2>2, <2>3, <2>4 DEF OverBy
<1>6. ValidatorIsSound'
  <2> SUFFICES ASSUME check = "ok" PROVE Holds(page)'
    BY DEF ValidatorIsSound, checkVars
  <2>1. page \in Schedules /\ Holds(page)
    BY DEF ValidatorInv, ReadsAreOld, ValidatorIsSound
  <2>2. PICK read \in Schedules : read = page BY <2>1
  <2>3. Holds(read) BY <2>1, <2>2 DEF Holds, RowsOf
  <2>4. Holds(read)' BY <1>1, <2>3, HoldsOn
  <2> QED BY <2>2, <2>4 DEF checkVars, Holds, RowsOf
<1> QED BY <1>4, <1>5, <1>6 DEF ValidatorInv

\* The script only reads: a step of the system with it beside it is one of the machine and
\* the runs of LoadSchedule, or leaves them as they are.
THEOREM ValidatorOnlyReads == ValidatorSpec => MachineSpec
<1>1. ValidatorInit => MachineInit BY DEF ValidatorInit
<1>2. [ValidatorNext]_validatorVars => [MachineNext]_machineVars
  BY DEF ValidatorNext, validatorVars
<1> QED BY <1>1, <1>2, PTL DEF ValidatorSpec, MachineSpec

\* What validate_sb_messages.py has read is as old as it is, and its OK is right, whatever
\* happened between its reads.
THEOREM ValidatorInvariance == ValidatorSpec => []ValidatorInv
<1>1. ValidatorInit => ValidatorInv
  BY LoadAssumption
  DEF ValidatorInit, ValidatorInv, ValidatorTypeOK, ReadsAreOld, ValidatorIsSound
<1>2. LInv /\ LInv' /\ ValidatorInv /\ [ValidatorNext]_validatorVars => ValidatorInv'
  <2> SUFFICES ASSUME LInv, LInv', ValidatorInv, [ValidatorNext]_validatorVars
               PROVE  ValidatorInv'
    OBVIOUS
  <2>1. CASE Check /\ UNCHANGED machineVars BY <2>1, CheckKeeps
  <2>2. CASE MachineNext /\ UNCHANGED checkVars /\ ~(check = "ok" /\ RunHasChangedQueue)
    BY <2>2, OthersKeep
  <2>3. CASE EndCheck
    BY <2>3, LoadAssumption
    DEF EndCheck, ValidatorInv, ValidatorTypeOK, ReadsAreOld, ValidatorIsSound
  <2>4. CASE UNCHANGED validatorVars
    <3>1. ~RunHasChangedQueue BY <2>4 DEF validatorVars, machineVars, vars, RunHasChangedQueue
    <3> QED BY <2>4, <3>1, OthersKeep DEF validatorVars
  <2> QED BY <2>1, <2>2, <2>3, <2>4 DEF ValidatorNext
<1> QED BY <1>1, <1>2, ValidatorOnlyReads, MachineImplements, LoadInvariance, PTL
    DEF ValidatorSpec

\* "OK - queue matches the current schedule exactly" is right about the schedule that was
\* read, when it is printed and until a run cancels or sends again (validate_sb_messages.py
\* main), if the peek has reached the end of the queue: although the clock, the CSV and the
\* queue are read at three moments.
THEOREM TheValidatorIsRight == ValidatorSpec => []ValidatorIsSound
<1>1. ValidatorInv => ValidatorIsSound BY DEF ValidatorInv
<1> QED BY <1>1, ValidatorInvariance, PTL
=============================================================================
