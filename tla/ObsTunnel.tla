----------------------------- MODULE ObsTunnel ------------------------------
(***************************************************************************)
(* obs_tunnel (remote_controller.py) with its threads, and what            *)
(* obs_websocket.py does through it: the handler's thread connects with    *)
(* retries (_connect) and polls the output (verify_action_active), the     *)
(* accept thread opens an SSH channel for each local connection, and two   *)
(* pipe threads per connection copy bytes (_forward).                      *)
(*                                                                         *)
(* Time is in the guards: half a second without data ends the pipe from    *)
(* the channel (channel.settimeout), a pause between two polls is longer   *)
(* than that, and the time-out of the WebSocket is longer than both.       *)
(***************************************************************************)
EXTENDS Naturals, FiniteSets

CONSTANTS
  MaxRetries,   \* WS_MAX_RETRIES
  MaxChecks,    \* ACTIVE_STATUS_MAX_CHECKS
  Faults        \* the faults the environment may produce (see FaultKinds)

\* "transport": the SSH transport cannot be set up.  "drop": it is lost later.
\* "dies": OBS goes down.  "slow": OBS takes more than half a second to answer,
\* or answers after the WebSocket's time-out, or never.
FaultKinds == {"transport", "drop", "dies", "slow"}

ASSUME TunnelAssumption ==
  /\ MaxRetries \in Nat \ {0} /\ MaxChecks \in Nat \ {0}
  /\ Faults \subseteq FaultKinds

\* The local connections, one for each attempt of _connect.
Conns == 1 .. MaxRetries

VARIABLES
  obs,         \* does OBS listen on its WebSocket port?
  active,      \* is the output active?
  seenActive,  \* history: has it been, at or since the last poll?
  main,        \* the next step of the handler's thread
  tries,       \* attempts of _connect; the latest one's connection
  polls,       \* status polls made
  outcome,     \* how the handler's calls ended
  transport,   \* is the SSH transport open?
  listening,   \* is server_sock open?
  acceptor,    \* the accept thread
  accepted,    \* the connection it opens a channel for
  sock,        \* sock[c]: the tunnel's end of local connection c
  held,        \* the connections whose end the handler's thread holds open
  chan,        \* chan[c]: the SSH channel of c
  upPipe,      \* upPipe[c]: the thread that copies from c to its channel
  downPipe,    \* downPipe[c]: the thread that copies from the channel to c
  data,        \* data[c]: how far the request made on c, or its answer, has come
  reply,       \* reply[c]: what the answer says
  upAtTry,     \* history: did OBS listen when the last attempt was made?
  activeAtPoll \* history: was the output active when the last poll was made?

obsVars     == <<obs, active, seenActive>>
mainVars    == <<main, tries, polls, outcome, held, upAtTry, activeAtPoll>>
acceptVars  == <<transport, listening, acceptor, accepted>>
forwardVars == <<sock, chan, upPipe, downPipe>>
dataVars    == <<data, reply>>
vars == <<obsVars, mainVars, acceptVars, forwardVars, dataVars>>

TypeOK ==
  /\ obs \in BOOLEAN /\ active \in BOOLEAN /\ seenActive \in BOOLEAN
  /\ main \in {"enter", "connect", "handshake", "poll", "await", "sleep",
               "disconnect", "leave", "join", "end"}
  /\ tries \in 0 .. MaxRetries /\ polls \in 0 .. MaxChecks
  /\ outcome \in {"none", "no_tunnel", "unreachable", "active", "inactive", "unanswered"}
  /\ transport \in BOOLEAN /\ listening \in BOOLEAN
  /\ acceptor \in {"off", "accept", "opening", "dead", "done"}
  /\ accepted \in Conns \cup {0}
  /\ sock \in [Conns -> {"none", "backlog", "accepted", "closed"}]
  /\ held \subseteq Conns
  /\ chan \in [Conns -> {"none", "open", "closed"}]
  /\ upPipe \in [Conns -> {"off", "run", "done"}]
  /\ downPipe \in [Conns -> {"off", "run", "done"}]
  /\ data \in [Conns -> {"none", "asked", "received", "answered", "arrived"}]
  /\ reply \in [Conns -> BOOLEAN]
  /\ upAtTry \in BOOLEAN /\ activeAtPoll \in BOOLEAN

Init ==
  /\ obs \in BOOLEAN /\ active = FALSE /\ seenActive = FALSE
  /\ main = "enter" /\ tries = 0 /\ polls = 0 /\ outcome = "none"
  /\ transport = FALSE /\ listening = FALSE
  /\ acceptor = "off" /\ accepted = 0
  /\ sock = [c \in Conns |-> "none"] /\ held = {}
  /\ chan = [c \in Conns |-> "none"]
  /\ upPipe = [c \in Conns |-> "off"] /\ downPipe = [c \in Conns |-> "off"]
  /\ data = [c \in Conns |-> "none"] /\ reply = [c \in Conns |-> FALSE]
  /\ upAtTry = FALSE /\ activeAtPoll = FALSE

-----------------------------------------------------------------------------
(* The handler's thread: obs_tunnel up to its yield, _connect *)

\* obs_tunnel: the transport is connected, the socket listens, the accept thread
\* is started; or the transport fails and the exception leaves obs_tunnel.
Enter ==
  /\ main = "enter"
  /\ \/ /\ main' = "connect"
        /\ transport' = TRUE /\ listening' = TRUE /\ acceptor' = "accept"
        /\ UNCHANGED outcome
     \/ /\ "transport" \in Faults
        /\ main' = "end" /\ outcome' = "no_tunnel"
        /\ UNCHANGED <<transport, listening, acceptor>>
  /\ UNCHANGED <<obsVars, tries, polls, held, upAtTry, activeAtPoll, accepted,
                 forwardVars, dataVars>>

\* One attempt of _connect: the kernel accepts the connection into the backlog,
\* and the handshake is under way.
Attempt ==
  /\ main = "connect"
  /\ main' = "handshake"
  /\ tries' = tries + 1
  /\ held' = held \cup {tries'}
  /\ sock' = [sock EXCEPT ![tries'] = "backlog"]
  /\ data' = [data EXCEPT ![tries'] = "asked"]
  /\ upAtTry' = obs
  /\ UNCHANGED <<obsVars, polls, outcome, activeAtPoll, acceptVars, chan, upPipe,
                 downPipe, reply>>

\* The answer expected on c cannot come any more: c was closed, or nobody is
\* left to accept it or to copy the answer.
Hopeless(c) ==
  /\ data[c] # "arrived"
  /\ \/ sock[c] = "closed"
     \/ sock[c] = "backlog" /\ acceptor \in {"dead", "done"}
     \/ downPipe[c] = "done"

\* The time-out of the WebSocket, or a connection closed by the tunnel.
TimedOut == Hopeless(tries) \/ "slow" \in Faults

Connected ==
  /\ main = "handshake"
  /\ data[tries] = "arrived"
  /\ data' = [data EXCEPT ![tries] = "none"]
  /\ main' = "poll"
  /\ UNCHANGED <<obsVars, tries, polls, outcome, held, upAtTry, activeAtPoll,
                 acceptVars, forwardVars, reply>>

\* The attempt failed; the next one follows after WS_RETRY_INTERVAL, if any.
AttemptFails_OnceMore ==
  /\ main = "handshake" /\ TimedOut
  /\ held' = held \ {tries}
  /\ IF tries <= MaxRetries THEN main' = "connect" /\ UNCHANGED outcome
                            ELSE main' = "leave" /\ outcome' = "unreachable"
  /\ UNCHANGED <<obsVars, tries, polls, upAtTry, activeAtPoll, acceptVars,
                 forwardVars, dataVars>>

AttemptFails ==
  /\ main = "handshake" /\ TimedOut
  /\ held' = held \ {tries}
  /\ IF tries < MaxRetries THEN main' = "connect" /\ UNCHANGED outcome
                           ELSE main' = "leave" /\ outcome' = "unreachable"
  /\ UNCHANGED <<obsVars, tries, polls, upAtTry, activeAtPoll, acceptVars,
                 forwardVars, dataVars>>

-----------------------------------------------------------------------------
(* The handler's thread: verify_action_active *)

Poll ==
  /\ main = "poll"
  /\ main' = "await"
  /\ polls' = polls + 1
  /\ data' = [data EXCEPT ![tries] = "asked"]
  /\ activeAtPoll' = active /\ seenActive' = active
  /\ UNCHANGED <<obs, active, tries, outcome, held, upAtTry, acceptVars, forwardVars, reply>>

\* The status arrives: done, or once more after ACTIVE_STATUS_INTERVAL, or given up.
Status_AnyAnswer ==
  /\ main = "await"
  /\ data[tries] = "arrived"
  /\ data' = [data EXCEPT ![tries] = "none"]
  /\ main' = "disconnect" /\ outcome' = "active"
  /\ UNCHANGED <<obsVars, tries, polls, held, upAtTry, activeAtPoll, acceptVars,
                 forwardVars, reply>>

Status ==
  /\ main = "await"
  /\ data[tries] = "arrived"
  /\ data' = [data EXCEPT ![tries] = "none"]
  /\ LET again == ~reply[tries] /\ polls < MaxChecks
     IN  /\ main' = IF again THEN "sleep" ELSE "disconnect"
         /\ outcome' = IF again THEN outcome
                       ELSE IF reply[tries] THEN "active" ELSE "inactive"
  /\ UNCHANGED <<obsVars, tries, polls, held, upAtTry, activeAtPoll, acceptVars,
                 forwardVars, reply>>

\* The request raised.
Unanswered ==
  /\ main = "await" /\ TimedOut
  /\ main' = "disconnect" /\ outcome' = "unanswered"
  /\ UNCHANGED <<obsVars, tries, polls, held, upAtTry, activeAtPoll, acceptVars,
                 forwardVars, dataVars>>

\* The pause between two polls is over: it is longer than the channel's time-out.
Wake ==
  /\ main = "sleep" /\ downPipe[tries] # "run"
  /\ main' = "poll"
  /\ UNCHANGED <<obsVars, tries, polls, outcome, held, upAtTry, activeAtPoll,
                 acceptVars, forwardVars, dataVars>>

\* finally: client.disconnect()
Disconnect_Forgotten ==
  /\ main = "disconnect"
  /\ main' = "leave"
  /\ UNCHANGED <<obsVars, tries, polls, outcome, held, upAtTry, activeAtPoll,
                 acceptVars, forwardVars, dataVars>>

Disconnect ==
  /\ main = "disconnect"
  /\ main' = "leave"
  /\ held' = held \ {tries}
  /\ UNCHANGED <<obsVars, tries, polls, outcome, upAtTry, activeAtPoll,
                 acceptVars, forwardVars, dataVars>>

-----------------------------------------------------------------------------
(* The handler's thread: the end of obs_tunnel *)

\* stop_event is set and server_sock closed, with what waits in its backlog.
Leave ==
  /\ main = "leave"
  /\ main' = "join"
  /\ listening' = FALSE
  /\ sock' = [c \in Conns |-> IF sock[c] = "backlog" THEN "closed" ELSE sock[c]]
  /\ UNCHANGED <<obsVars, tries, polls, outcome, held, upAtTry, activeAtPoll,
                 transport, acceptor, accepted, chan, upPipe, downPipe, dataVars>>

CloseChannels == chan' = [c \in Conns |-> IF chan[c] = "open" THEN "closed" ELSE chan[c]]

\* accept_thread.join(timeout=2) - given up while a channel is being opened - and
\* transport.close().
Join ==
  /\ main = "join" /\ acceptor # "accept"
  /\ main' = "end"
  /\ transport' = FALSE
  /\ CloseChannels
  /\ UNCHANGED <<obsVars, tries, polls, outcome, held, upAtTry, activeAtPoll,
                 listening, acceptor, accepted, sock, upPipe, downPipe, dataVars>>

Main == \/ Enter \/ Attempt \/ Connected \/ AttemptFails \/ Poll \/ Status
        \/ Unanswered \/ Wake \/ Disconnect \/ Leave \/ Join

-----------------------------------------------------------------------------
(* The accept thread *)

\* server_sock.accept() returns the connection that has waited longest.
Accept(c) ==
  /\ acceptor = "accept" /\ listening
  /\ sock[c] = "backlog"
  /\ \A d \in Conns : sock[d] = "backlog" => c <= d
  /\ sock' = [sock EXCEPT ![c] = "accepted"]
  /\ accepted' = c
  /\ acceptor' = "opening"
  /\ UNCHANGED <<obsVars, mainVars, transport, listening, chan, upPipe, downPipe, dataVars>>

\* open_channel and the start of the pipes.  Without OBS, or without the
\* transport, open_channel raises an exception the loop does not catch: the thread
\* ends, and with it goes the connection it had accepted.
OpenChannel_GoesOn ==
  /\ acceptor = "opening"
  /\ \/ /\ transport /\ obs
        /\ chan' = [chan EXCEPT ![accepted] = "open"]
        /\ upPipe' = [upPipe EXCEPT ![accepted] = "run"]
        /\ downPipe' = [downPipe EXCEPT ![accepted] = "run"]
     \/ ~(transport /\ obs) /\ UNCHANGED <<chan, upPipe, downPipe>>
  /\ acceptor' = "accept" /\ accepted' = 0
  /\ UNCHANGED <<obsVars, mainVars, transport, listening, sock, dataVars>>

OpenChannel ==
  /\ acceptor = "opening"
  /\ \/ /\ transport /\ obs
        /\ chan' = [chan EXCEPT ![accepted] = "open"]
        /\ upPipe' = [upPipe EXCEPT ![accepted] = "run"]
        /\ downPipe' = [downPipe EXCEPT ![accepted] = "run"]
        /\ acceptor' = "accept"
        /\ UNCHANGED sock
     \/ /\ ~(transport /\ obs)
        /\ sock' = [sock EXCEPT ![accepted] = "closed"]
        /\ acceptor' = "dead"
        /\ UNCHANGED <<chan, upPipe, downPipe>>
  /\ accepted' = 0
  /\ UNCHANGED <<obsVars, mainVars, transport, listening, dataVars>>

\* The loop ends: stop_event is set, or accept() on the closed socket fails.
AcceptEnds ==
  /\ acceptor = "accept" /\ ~listening
  /\ acceptor' = "done"
  /\ UNCHANGED <<obsVars, mainVars, transport, listening, accepted, forwardVars, dataVars>>

-----------------------------------------------------------------------------
(* _forward: the two pipes of a connection *)

\* Up: a request is copied to the channel, as long as that is open.
CopyUp(c) ==
  /\ upPipe[c] = "run" /\ chan[c] = "open"
  /\ data[c] = "asked"
  /\ data' = [data EXCEPT ![c] = "received"]
  /\ UNCHANGED <<obsVars, mainVars, acceptVars, forwardVars, reply>>

\* Up: the handler's end of c is closed, or the channel refuses the data.
UpEnds(c) ==
  /\ upPipe[c] = "run"
  /\ c \notin held \/ (chan[c] = "closed" /\ data[c] = "asked")
  /\ upPipe' = [upPipe EXCEPT ![c] = "done"]
  /\ UNCHANGED <<obsVars, mainVars, acceptVars, sock, chan, downPipe, dataVars>>

\* Down: an answer is copied to the connection.
CopyDown(c) ==
  /\ downPipe[c] = "run"
  /\ data[c] = "answered"
  /\ data' = [data EXCEPT ![c] = "arrived"]
  /\ UNCHANGED <<obsVars, mainVars, acceptVars, forwardVars, reply>>

\* Nothing comes from OBS for half a second.
Silent(c) ==
  \/ c \notin held
  \/ c = tries /\ main = "sleep"
  \/ "slow" \in Faults

\* Down: the channel is closed, or its recv times out - which is an OSError and
\* ends the pipe for good.
DownEnds(c) ==
  /\ downPipe[c] = "run" /\ data[c] # "answered"
  /\ chan[c] = "closed" \/ Silent(c)
  /\ downPipe' = [downPipe EXCEPT ![c] = "done"]
  /\ UNCHANGED <<obsVars, mainVars, acceptVars, sock, chan, upPipe, dataVars>>

\* Both pipes have ended: the connection and the channel are closed.
CloseBoth(c) ==
  /\ upPipe[c] = "done" /\ downPipe[c] = "done"
  /\ sock[c] # "closed" \/ chan[c] # "closed"
  /\ sock' = [sock EXCEPT ![c] = "closed"]
  /\ chan' = [chan EXCEPT ![c] = "closed"]
  /\ UNCHANGED <<obsVars, mainVars, acceptVars, upPipe, downPipe, dataVars>>

Forward(c) == CopyUp(c) \/ UpEnds(c) \/ CopyDown(c) \/ DownEnds(c) \/ CloseBoth(c)

-----------------------------------------------------------------------------
(* OBS and the network *)

ObsUp ==
  /\ ~obs /\ obs' = TRUE
  /\ UNCHANGED <<active, seenActive, mainVars, acceptVars, forwardVars, dataVars>>

\* The output a launch flag asked for comes up.
OutputUp ==
  /\ obs /\ ~active /\ active' = TRUE /\ seenActive' = TRUE
  /\ UNCHANGED <<obs, mainVars, acceptVars, forwardVars, dataVars>>

\* OBS answers what it has received.
ObsAnswers(c) ==
  /\ obs /\ chan[c] = "open" /\ data[c] = "received"
  /\ data' = [data EXCEPT ![c] = "answered"]
  /\ reply' = [reply EXCEPT ![c] = active]
  /\ UNCHANGED <<obsVars, mainVars, acceptVars, forwardVars>>

ObsDies ==
  /\ "dies" \in Faults /\ obs
  /\ obs' = FALSE /\ active' = FALSE
  /\ CloseChannels
  /\ UNCHANGED <<seenActive, mainVars, acceptVars, sock, upPipe, downPipe, dataVars>>

TransportDrops ==
  /\ "drop" \in Faults /\ transport
  /\ transport' = FALSE
  /\ CloseChannels
  /\ UNCHANGED <<obsVars, mainVars, listening, acceptor, accepted, sock, upPipe,
                 downPipe, dataVars>>

Environment == ObsUp \/ OutputUp \/ ObsDies \/ TransportDrops

Next == \/ Main
        \/ \E c \in Conns : Accept(c)
        \/ OpenChannel
        \/ AcceptEnds
        \/ \E c \in Conns : Forward(c) \/ ObsAnswers(c)
        \/ Environment

Spec == Init /\ [][Next]_vars

\* The threads run; nothing is assumed of OBS or the network.
Fairness == /\ WF_vars(Main)
            /\ WF_vars((\E c \in Conns : Accept(c)) \/ OpenChannel \/ AcceptEnds)
            /\ \A c \in Conns : WF_vars(Forward(c))

FairSpec == Spec /\ Fairness

-----------------------------------------------------------------------------
(* What the tunnel promises *)

AllEnded == /\ main = "end"
            /\ acceptor \in {"off", "dead", "done"}
            /\ \A c \in Conns : /\ upPipe[c] # "run" /\ downPipe[c] # "run"
                                /\ sock[c] \in {"none", "closed"}
                                /\ chan[c] # "open"

\* However OBS and the network behave, the call ends and leaves nothing behind:
\* no thread, no socket, no channel (the Functions host is not restarted between
\* jobs, so what is left adds up).
TunnelEnds == <>[]AllEnded

\* Every connection and channel has somebody who will close it, at any moment: the
\* listening socket its backlog, the accept thread what it has just accepted,
\* _forward the rest; and after the call nothing is left for them to wait for.
Attended(c) ==
  /\ sock[c] = "backlog" => listening
  /\ sock[c] = "accepted" => (acceptor = "opening" /\ accepted = c) \/ upPipe[c] # "off"
  /\ chan[c] = "open" => transport /\ upPipe[c] # "off"

NothingIsOrphaned ==
  /\ \A c \in Conns : Attended(c)
  /\ main = "end" => ~transport /\ ~listening /\ acceptor # "accept" /\ held = {}

\* verify_action_active never takes an output for active that was not: neither an answer
\* that says it is not nor the end of the polls passes for one ("fails loudly instead
\* of reporting a stream that never went live").
VerifiedWasActive == outcome = "active" => seenActive

-----------------------------------------------------------------------------
(* Why nothing is orphaned and no answer is stale: an inductive invariant *)

InUse == {"handshake", "poll", "await", "sleep", "disconnect"}

\* How far the handler's thread has come: one connection at a time, within its retries.
MainInv ==
  /\ main = "enter" => acceptor = "off" /\ tries = 0
  /\ main = "connect" => tries < MaxRetries
  /\ main \in InUse => tries \in Conns
  /\ held = IF main \in InUse THEN {tries} ELSE {}
  /\ main \in {"enter", "connect", "handshake", "poll", "sleep"} => polls < MaxChecks
  /\ listening <=> main \notin {"enter", "join", "end"}
  /\ transport => main \notin {"enter", "end"}
  /\ main = "end" => acceptor # "accept"
  /\ acceptor = "opening" => accepted \in Conns

\* A connection goes from the backlog through the accept thread to its two pipes.
ConnInv(c) ==
  /\ c > tries => sock[c] = "none"
  /\ sock[c] \in {"none", "backlog"} \/ (acceptor = "opening" /\ accepted = c) =>
       upPipe[c] = "off"
  /\ acceptor = "opening" /\ accepted = c => sock[c] = "accepted"
  /\ upPipe[c] = "off" <=> downPipe[c] = "off"

\* An answer that waits for its poll was given after the poll was made.
AnswerInv ==
  /\ main = "await" /\ active => seenActive
  /\ main = "await" /\ data[tries] \in {"answered", "arrived"} /\ reply[tries] => seenActive
  /\ outcome = "active" => main \in {"disconnect", "leave", "join", "end"}

TunnelInv == /\ MainInv /\ (\A c \in Conns : ConnInv(c)) /\ AnswerInv
             /\ NothingIsOrphaned /\ VerifiedWasActive

-----------------------------------------------------------------------------
(* What the comments say and the code does not do *)

\* obs_websocket.py, _connect: "Retries up to WS_MAX_RETRIES times to allow OBS
\* time to fully start": OBS is found unreachable only if it was not yet up at
\* the last attempt.
RetriesReachObs == outcome = "unreachable" => ~upAtTry

\* obs_websocket.py, ACTIVE_STATUS_MAX_CHECKS: "OBS may take a moment to bring the
\* output up [...] so we poll rather than check once": a poll made while the output
\* is active is answered.
PollsReachObs == outcome = "unanswered" => ~activeAtPoll
=============================================================================
