-------------------------- MODULE ObsTunnelProofs --------------------------
(***************************************************************************)
(* What obs_tunnel and verify_action_active never do, proved for any       *)
(* number of retries and polls and every fault of OBS and the network.     *)
(*                                                                         *)
(* The threads share sockets and channels and no lock.  The argument is    *)
(* that a connection is passed on: from the backlog to the accept thread,  *)
(* from there to its two pipes, and never back, while the handler's thread *)
(* holds one connection at a time.                                         *)
(***************************************************************************)
EXTENDS ObsTunnel, TLAPS

\* The connections are numbered by the attempts.
LEMMA ConnsAreNumbers == Conns \subseteq Nat /\ (\A c \in Conns : 1 <= c /\ c <= MaxRetries)
BY TunnelAssumption DEF Conns

\* What is closed with the transport, or with OBS, is every channel.
LEMMA ChannelsClose ==
  ASSUME TypeOK, CloseChannels
  PROVE  /\ chan' \in [Conns -> {"none", "open", "closed"}]
         /\ \A c \in Conns : chan'[c] # "open"
BY DEF TypeOK, CloseChannels

\* Every step of every thread keeps the types.
LEMMA TypesKept ==
  ASSUME TypeOK, TunnelInv, Next
  PROVE  TypeOK'
<1> USE TunnelAssumption, ConnsAreNumbers
    DEF TypeOK, InUse, obsVars, mainVars, acceptVars, forwardVars, dataVars
<1>0. /\ main = "connect" => tries + 1 \in Conns /\ tries + 1 \in 0 .. MaxRetries
      /\ main \in InUse => tries \in Conns
      /\ main \in {"poll", "sleep"} => polls < MaxChecks
      /\ acceptor = "opening" => accepted \in Conns
  BY DEF TunnelInv, MainInv, Conns
<1>1. CASE Enter
  <2>1. transport' \in BOOLEAN /\ listening' \in BOOLEAN BY <1>1 DEF Enter
  <2>2. /\ main' \in {"connect", "end"} /\ acceptor' \in {"off", "accept", "opening", "dead", "done"}
        /\ outcome' \in {"none", "no_tunnel", "unreachable", "active", "inactive", "unanswered"}
        /\ UNCHANGED <<obsVars, tries, polls, held, upAtTry, activeAtPoll, accepted,
                       forwardVars, dataVars>>
    BY <1>1 DEF Enter
  <2> QED BY <2>1, <2>2
<1>2. CASE Attempt BY <1>0, <1>2 DEF Attempt
<1>3. CASE Connected BY <1>0, <1>3 DEF Connected
<1>4. CASE AttemptFails BY <1>0, <1>4 DEF AttemptFails
<1>5. CASE Poll BY <1>0, <1>5 DEF Poll
<1>6. CASE Status BY <1>0, <1>6 DEF Status
<1>7. CASE Unanswered BY <1>0, <1>7 DEF Unanswered
<1>8. CASE Wake BY <1>0, <1>8 DEF Wake
<1>9. CASE Disconnect BY <1>0, <1>9 DEF Disconnect
<1>10. CASE Leave
  <2>1. listening' \in BOOLEAN BY <1>10 DEF Leave
  <2>2. sock' \in [Conns -> {"none", "backlog", "accepted", "closed"}] BY <1>10 DEF Leave
  <2> QED BY <1>10, <2>1, <2>2 DEF Leave
<1>11. CASE Join
  <2>1. chan' \in [Conns -> {"none", "open", "closed"}] BY <1>11, ChannelsClose DEF Join
  <2>2. obs' \in BOOLEAN /\ active' \in BOOLEAN /\ transport' \in BOOLEAN BY <1>11 DEF Join
  <2> QED BY <1>11, <2>1, <2>2 DEF Join
<1>12. ASSUME NEW c \in Conns, Accept(c) PROVE TypeOK' BY <1>0, <1>12 DEF Accept
<1>13. CASE OpenChannel BY <1>0, <1>13 DEF OpenChannel
<1>14. CASE AcceptEnds BY <1>0, <1>14 DEF AcceptEnds
<1>15. ASSUME NEW c \in Conns, CopyUp(c) PROVE TypeOK' BY <1>0, <1>15 DEF CopyUp
<1>16. ASSUME NEW c \in Conns, UpEnds(c) PROVE TypeOK' BY <1>0, <1>16 DEF UpEnds
<1>17. ASSUME NEW c \in Conns, CopyDown(c) PROVE TypeOK' BY <1>0, <1>17 DEF CopyDown
<1>18. ASSUME NEW c \in Conns, DownEnds(c) PROVE TypeOK' BY <1>0, <1>18 DEF DownEnds
<1>19. ASSUME NEW c \in Conns, CloseBoth(c) PROVE TypeOK' BY <1>0, <1>19 DEF CloseBoth
<1>20. ASSUME NEW c \in Conns, ObsAnswers(c) PROVE TypeOK' BY <1>0, <1>20 DEF ObsAnswers
<1>21. CASE ObsUp BY <1>0, <1>21 DEF ObsUp
<1>22. CASE OutputUp BY <1>0, <1>22 DEF OutputUp
<1>23. CASE ObsDies
  <2>1. chan' \in [Conns -> {"none", "open", "closed"}] BY <1>23, ChannelsClose DEF ObsDies
  <2>2. obs' \in BOOLEAN /\ active' \in BOOLEAN /\ transport' \in BOOLEAN
    BY <1>23 DEF ObsDies
  <2> QED BY <1>23, <2>1, <2>2 DEF ObsDies
<1>24. CASE TransportDrops
  <2>1. chan' \in [Conns -> {"none", "open", "closed"}]
    BY <1>24, ChannelsClose DEF TransportDrops
  <2>2. obs' \in BOOLEAN /\ active' \in BOOLEAN /\ transport' \in BOOLEAN
    BY <1>24 DEF TransportDrops
  <2> QED BY <1>24, <2>1, <2>2 DEF TransportDrops
<1> QED
  BY <1>1, <1>2, <1>3, <1>4, <1>5, <1>6, <1>7, <1>8, <1>9, <1>10, <1>11, <1>12, <1>13,
     <1>14, <1>15, <1>16, <1>17, <1>18, <1>19, <1>20, <1>21, <1>22, <1>23, <1>24
     DEF Next, Main, Forward, Environment

\* The handler's thread uses one connection at a time.
LEMMA MainKept ==
  ASSUME TypeOK, TunnelInv, Next
  PROVE  MainInv'
<1> USE TunnelAssumption, ConnsAreNumbers
    DEF TypeOK, MainInv, InUse, Conns, obsVars, mainVars, acceptVars, forwardVars, dataVars
<1>0. MainInv
  BY DEF TunnelInv
<1>1. CASE Enter BY <1>0, <1>1 DEF Enter
<1>2. CASE Attempt BY <1>0, <1>2 DEF Attempt
<1>3. CASE Connected BY <1>0, <1>3 DEF Connected
<1>4. CASE AttemptFails BY <1>0, <1>4 DEF AttemptFails
<1>5. CASE Poll BY <1>0, <1>5 DEF Poll
<1>6. CASE Status BY <1>0, <1>6 DEF Status
<1>7. CASE Unanswered BY <1>0, <1>7 DEF Unanswered
<1>8. CASE Wake BY <1>0, <1>8 DEF Wake
<1>9. CASE Disconnect BY <1>0, <1>9 DEF Disconnect
<1>10. CASE Leave BY <1>0, <1>10 DEF Leave
<1>11. CASE Join BY <1>0, <1>11 DEF Join
<1>12. ASSUME NEW c \in Conns, Accept(c) PROVE MainInv' BY <1>0, <1>12 DEF Accept
<1>13. CASE OpenChannel BY <1>0, <1>13 DEF OpenChannel
<1>14. CASE AcceptEnds BY <1>0, <1>14 DEF AcceptEnds
<1>15. CASE TransportDrops BY <1>0, <1>15 DEF TransportDrops
<1>16. CASE UNCHANGED <<main, acceptor, accepted, tries, held, polls, listening, transport>>
  BY <1>0, <1>16
<1> QED
  BY <1>1, <1>2, <1>3, <1>4, <1>5, <1>6, <1>7, <1>8, <1>9, <1>10, <1>11, <1>12, <1>13,
     <1>14, <1>15, <1>16
     DEF Next, Main, Forward, Environment, CopyUp, UpEnds, CopyDown, DownEnds, CloseBoth,
         ObsAnswers, ObsUp, OutputUp, ObsDies

\* A connection is passed on and never back.
LEMMA ConnsKept ==
  ASSUME TypeOK, TunnelInv, Next
  PROVE  \A d \in Conns : ConnInv(d)'
<1> USE TunnelAssumption, ConnsAreNumbers
    DEF TypeOK, MainInv, ConnInv, InUse, obsVars, mainVars, acceptVars, forwardVars,
        dataVars
<1>0. MainInv /\ (\A d \in Conns : ConnInv(d))
  BY DEF TunnelInv
<1>1. CASE Enter BY <1>0, <1>1 DEF Enter
<1>2. CASE Attempt BY <1>0, <1>2 DEF Attempt
<1>3. CASE Leave BY <1>0, <1>3 DEF Leave
<1>4. ASSUME NEW c \in Conns, Accept(c) PROVE \A d \in Conns : ConnInv(d)'
  BY <1>0, <1>4 DEF Accept
<1>5. CASE OpenChannel BY <1>0, <1>5 DEF OpenChannel
<1>6. CASE AcceptEnds BY <1>0, <1>6 DEF AcceptEnds
<1>7. ASSUME NEW c \in Conns, UpEnds(c) PROVE \A d \in Conns : ConnInv(d)'
  BY <1>0, <1>7 DEF UpEnds
<1>8. ASSUME NEW c \in Conns, DownEnds(c) PROVE \A d \in Conns : ConnInv(d)'
  BY <1>0, <1>8 DEF DownEnds
<1>9. ASSUME NEW c \in Conns, CloseBoth(c) PROVE \A d \in Conns : ConnInv(d)'
  BY <1>0, <1>9 DEF CloseBoth
<1>10. CASE UNCHANGED <<tries, sock, acceptor, accepted, upPipe, downPipe>> BY <1>0, <1>10
<1> QED
  BY <1>1, <1>2, <1>3, <1>4, <1>5, <1>6, <1>7, <1>8, <1>9, <1>10
     DEF Next, Main, Forward, Environment, Connected, AttemptFails, Poll, Status,
         Unanswered, Wake, Disconnect, CopyUp, CopyDown, ObsAnswers, ObsUp, OutputUp,
         ObsDies, TransportDrops, Join

\* Whoever lets go of a connection has closed it or passed it on.
LEMMA NothingGetsOrphaned ==
  ASSUME TypeOK, TunnelInv, Next
  PROVE  NothingIsOrphaned'
<1> USE TunnelAssumption, ConnsAreNumbers
    DEF TypeOK, MainInv, ConnInv, Attended, NothingIsOrphaned, InUse, obsVars,
        mainVars, acceptVars, forwardVars, dataVars
<1>0. MainInv /\ NothingIsOrphaned /\ (\A d \in Conns : ConnInv(d))
  BY DEF TunnelInv
<1>1. CASE Enter BY <1>0, <1>1 DEF Enter
<1>2. CASE Attempt BY <1>0, <1>2 DEF Attempt
<1>3. CASE Connected BY <1>0, <1>3 DEF Connected
<1>4. CASE AttemptFails BY <1>0, <1>4 DEF AttemptFails
<1>5. CASE Poll BY <1>0, <1>5 DEF Poll
<1>6. CASE Status BY <1>0, <1>6 DEF Status
<1>7. CASE Unanswered BY <1>0, <1>7 DEF Unanswered
<1>8. CASE Wake BY <1>0, <1>8 DEF Wake
<1>9. CASE Disconnect BY <1>0, <1>9 DEF Disconnect
<1>10. CASE Leave BY <1>0, <1>10 DEF Leave
<1>11. CASE Join
  <2>1. \A c \in Conns : chan'[c] # "open" BY <1>11, ChannelsClose DEF Join
  <2> QED BY <1>0, <1>11, <2>1 DEF Join
<1>12. ASSUME NEW c \in Conns, Accept(c) PROVE NothingIsOrphaned' BY <1>0, <1>12 DEF Accept
<1>13. CASE OpenChannel BY <1>0, <1>13 DEF OpenChannel
<1>14. CASE AcceptEnds BY <1>0, <1>14 DEF AcceptEnds
<1>15. ASSUME NEW c \in Conns, UpEnds(c) PROVE NothingIsOrphaned' BY <1>0, <1>15 DEF UpEnds
<1>16. ASSUME NEW c \in Conns, DownEnds(c) PROVE NothingIsOrphaned'
  BY <1>0, <1>16 DEF DownEnds
<1>17. ASSUME NEW c \in Conns, CloseBoth(c) PROVE NothingIsOrphaned'
  BY <1>0, <1>17 DEF CloseBoth
<1>18. CASE ObsDies
  <2>1. \A c \in Conns : chan'[c] # "open" BY <1>18, ChannelsClose DEF ObsDies
  <2> QED BY <1>0, <1>18, <2>1 DEF ObsDies
<1>19. CASE TransportDrops
  <2>1. \A c \in Conns : chan'[c] # "open" BY <1>19, ChannelsClose DEF TransportDrops
  <2> QED BY <1>0, <1>19, <2>1 DEF TransportDrops
<1>20. CASE UNCHANGED <<main, held, sock, chan, listening, transport, acceptor, accepted, upPipe>>
  BY <1>0, <1>20
<1> QED
  BY <1>1, <1>2, <1>3, <1>4, <1>5, <1>6, <1>7, <1>8, <1>9, <1>10, <1>11, <1>12, <1>13,
     <1>14, <1>15, <1>16, <1>17, <1>18, <1>19, <1>20
     DEF Next, Main, Forward, Environment, CopyUp, CopyDown, ObsAnswers, ObsUp, OutputUp

\* No answer outlives its poll.
LEMMA AnswersKept ==
  ASSUME TypeOK, TunnelInv, Next
  PROVE  AnswerInv' /\ VerifiedWasActive'
<1> USE TunnelAssumption, ConnsAreNumbers
    DEF TypeOK, MainInv, AnswerInv, VerifiedWasActive, InUse, obsVars, mainVars,
        acceptVars, forwardVars, dataVars
<1>0. MainInv /\ AnswerInv /\ VerifiedWasActive
  BY DEF TunnelInv
<1>1. CASE Enter BY <1>0, <1>1 DEF Enter
<1>2. CASE Attempt BY <1>0, <1>2 DEF Attempt
<1>3. CASE Connected BY <1>0, <1>3 DEF Connected
<1>4. CASE AttemptFails BY <1>0, <1>4 DEF AttemptFails
<1>5. CASE Poll BY <1>0, <1>5 DEF Poll
<1>6. CASE Status BY <1>0, <1>6 DEF Status
<1>7. CASE Unanswered BY <1>0, <1>7 DEF Unanswered
<1>8. CASE Wake BY <1>0, <1>8 DEF Wake
<1>9. CASE Disconnect BY <1>0, <1>9 DEF Disconnect
<1>10. CASE Leave BY <1>0, <1>10 DEF Leave
<1>11. CASE Join BY <1>0, <1>11 DEF Join
<1>12. ASSUME NEW c \in Conns, CopyUp(c) PROVE AnswerInv' /\ VerifiedWasActive'
  BY <1>0, <1>12 DEF CopyUp
<1>13. ASSUME NEW c \in Conns, CopyDown(c) PROVE AnswerInv' /\ VerifiedWasActive'
  BY <1>0, <1>13 DEF CopyDown
<1>14. ASSUME NEW c \in Conns, ObsAnswers(c) PROVE AnswerInv' /\ VerifiedWasActive'
  BY <1>0, <1>14 DEF ObsAnswers
<1>15. CASE OutputUp BY <1>0, <1>15 DEF OutputUp
<1>16. CASE ObsDies BY <1>0, <1>16 DEF ObsDies
<1>17. CASE UNCHANGED <<main, tries, active, seenActive, outcome, data, reply>>
  BY <1>0, <1>17
<1> QED
  BY <1>1, <1>2, <1>3, <1>4, <1>5, <1>6, <1>7, <1>8, <1>9, <1>10, <1>11, <1>12, <1>13,
     <1>14, <1>15, <1>16, <1>17
     DEF Next, Main, Forward, Environment, Accept, OpenChannel, AcceptEnds, UpEnds,
         DownEnds, CloseBoth, ObsUp, TransportDrops

-----------------------------------------------------------------------------
(* The theorems *)

\* How connections are passed from thread to thread (obs_tunnel, _forward) and answers
\* reach their polls (verify_action_active), in every reachable state.
THEOREM TunnelInvariance == Spec => [](TypeOK /\ TunnelInv)
<1>1. Init => TypeOK /\ TunnelInv
  <2> SUFFICES ASSUME Init PROVE TypeOK /\ TunnelInv OBVIOUS
  <2> USE TunnelAssumption, ConnsAreNumbers DEF Init
  <2>1. TypeOK
    <3>1. /\ obs \in BOOLEAN /\ active \in BOOLEAN /\ seenActive \in BOOLEAN
          /\ transport \in BOOLEAN /\ listening \in BOOLEAN
          /\ upAtTry \in BOOLEAN /\ activeAtPoll \in BOOLEAN
      OBVIOUS
    <3>2. reply \in [Conns -> BOOLEAN] OBVIOUS
    <3> QED BY <3>1, <3>2 DEF TypeOK
  <2>2. MainInv BY DEF MainInv, InUse
  <2>3. \A c \in Conns : ConnInv(c) BY DEF ConnInv
  <2>4. AnswerInv /\ VerifiedWasActive BY DEF AnswerInv, VerifiedWasActive
  <2>5. NothingIsOrphaned BY DEF NothingIsOrphaned, Attended
  <2> QED BY <2>1, <2>2, <2>3, <2>4, <2>5 DEF TunnelInv
<1>2. TypeOK /\ TunnelInv /\ [Next]_vars => (TypeOK /\ TunnelInv)'
  <2> SUFFICES ASSUME TypeOK, TunnelInv, [Next]_vars PROVE TypeOK' /\ TunnelInv' OBVIOUS
  <2>1. CASE Next
    BY <2>1, TypesKept, MainKept, ConnsKept, NothingGetsOrphaned, AnswersKept DEF TunnelInv
  <2>2. CASE UNCHANGED vars
   
      BY <2>2 DEF vars, obsVars, mainVars, acceptVars, forwardVars, dataVars, TypeOK, TunnelInv,
                MainInv, ConnInv, AnswerInv, NothingIsOrphaned, Attended, VerifiedWasActive
  <2> QED BY <2>1, <2>2
<1> QED BY <1>1, <1>2, PTL DEF Spec

\* Every variable keeps its type; in particular _connect makes no attempt beyond
\* WS_MAX_RETRIES and verify_action_active no poll beyond ACTIVE_STATUS_MAX_CHECKS.
THEOREM TunnelTypeCorrect == Spec => []TypeOK
BY TunnelInvariance, PTL

\* At any moment each connection and each channel of obs_tunnel has a thread or a socket
\* that will close it, whichever of them fails or is cut off.
THEOREM ConnectionsAreAttended == Spec => []NothingIsOrphaned
<1>1. TunnelInv => NothingIsOrphaned BY DEF TunnelInv
<1> QED BY <1>1, TunnelInvariance, PTL

\* verify_action_active returns only if the output was active at or after its last poll.
THEOREM VerificationIsFresh == Spec => []VerifiedWasActive
<1>1. TunnelInv => VerifiedWasActive BY DEF TunnelInv
<1> QED BY <1>1, TunnelInvariance, PTL
=============================================================================
