---------------------------- MODULE ModelServer ----------------------------
(***************************************************************************)
(* The model-server daemon and the clients that call it over TCP.          *)
(*                                                                         *)
(* The server is one thread: it loads a model, listens, and serves one     *)
(* accepted connection at a time until that peer closes; every other       *)
(* client waits in the listen queue (robot_server/model-server.cpp,        *)
(* session.cpp, socket.cpp, model_adapter.cpp).  A client opens a new      *)
(* connection for every call, sends one message of a header and, for       *)
(* predict, a payload, reads one reply and closes                          *)
(* (robot_client/python/model_client.py, robot_client/cpp).  Because a     *)
(* connection carries one call, the connection is named by its call, a     *)
(* client and the request id its counter gave.                             *)
(***************************************************************************)
EXTENDS Naturals, Sequences

CONSTANTS
    Clients,        \* client processes
    MaxCalls,       \* bound: calls one client makes
    Backlog,        \* length of the listen queue (16 in model-server.cpp)
    Asks,           \* what each client asks for in this instance
    Impatient,      \* clients that time out or die and close early
    SigPipe         \* TRUE where a send to a reset peer raises SIGPIPE

RequestKinds ==
    {"health", "reset", "predict", "shutdown",
     "unknown",     \* an op the server does not have
     "badPredict",  \* a predict payload that does not decode
     "malformed"}   \* a header with another magic, version or size

ASSUME AsksAssumption == Asks \in [Clients -> SUBSET RequestKinds]
ASSUME CallsAssumption == MaxCalls \in Nat /\ Backlog \in Nat \ {0}
ASSUME SigPipeAssumption == SigPipe \in BOOLEAN /\ Impatient \subseteq Clients

VARIABLES
    phase,      \* how far a client has got with each call
    request,    \* what each call asks for
    outcome,    \* how each call returned to its caller
    inbox,      \* parts of the request sent and not yet read by the server
    outbox,     \* parts of the reply sent to a client that has not closed
    status,     \* the protocol status of the reply
    serverEnd,  \* the server's end of each connection
    reset,      \* TCP resets: on their way to, or recorded at, the server
    pc,         \* where the server's only thread is
    shutdown_requested,
    backlog,    \* the listen queue
    executed    \* history: the calls the policy was run for, in order

clientVars == <<phase, request, outcome>>
vars == <<phase, request, outcome, inbox, outbox, status, serverEnd, reset,
          pc, shutdown_requested, backlog, executed>>

Call == Clients \X (1 .. MaxCalls)

Parts == {"header", "payload"}
HasPayload(r) == r \in {"predict", "badPredict"}

Phases == {"idle", "connect", "header", "payload", "reply", "done"}
Outcomes == {"none", "ok", "rejected", "refused", "lost", "gaveup"}
Ends == {"none", "queued", "open", "closed"}
Resets == {"none", "pendingReset", "pendingPipe", "reset", "pipe"}
Serving == {"read", "readPayload", "dispatch", "sendHeader", "sendPayload",
            "close"}
Stopped == {"failed", "exited", "killed"}
ServerStates == {"loading", "accept", "shutdown"} \cup Serving \cup Stopped

TypeOK ==
    /\ phase \in [Call -> Phases]
    /\ request \in [Call -> RequestKinds \cup {"none"}]
    /\ outcome \in [Call -> Outcomes]
    /\ inbox \in [Call -> SUBSET Parts]
    /\ outbox \in [Call -> SUBSET Parts]
    /\ status \in [Call -> {"none", "ok", "error"}]
    /\ serverEnd \in [Call -> Ends]
    /\ reset \in [Call -> Resets]
    /\ pc \in ServerStates
    /\ shutdown_requested \in BOOLEAN
    /\ backlog \in Seq(Call)
    /\ Len(backlog) <= Backlog
    /\ executed \in Seq(Call)

Init ==
    /\ phase = [k \in Call |-> "idle"]
    /\ request = [k \in Call |-> "none"]
    /\ outcome = [k \in Call |-> "none"]
    /\ inbox = [k \in Call |-> {}]
    /\ outbox = [k \in Call |-> {}]
    /\ status = [k \in Call |-> "none"]
    /\ serverEnd = [k \in Call |-> "none"]
    /\ reset = [k \in Call |-> "none"]
    /\ pc = "loading"
    /\ shutdown_requested = FALSE
    /\ backlog = <<>>
    /\ executed = <<>>

Listening == pc \notin {"loading"} \cup Stopped

---------------------------------------------------------------------------
(* The clients *)

(* A client makes one call at a time, with the next id of its counter.     *)
BeginCall(k, r) ==
    /\ phase[k] = "idle"
    /\ \A n \in 1 .. (k[2] - 1) : phase[<<k[1], n>>] = "done"
    /\ phase' = [phase EXCEPT ![k] = "connect"]
    /\ request' = [request EXCEPT ![k] = r]
    /\ UNCHANGED <<outcome, inbox, outbox, status, serverEnd, reset, pc,
                   shutdown_requested, backlog, executed>>

(* Mutant: the listen queue is unbounded.                                  *)
ConnectAlways(k) ==
    /\ phase[k] = "connect"
    /\ Listening
    /\ phase' = [phase EXCEPT ![k] = "header"]
    /\ serverEnd' = [serverEnd EXCEPT ![k] = "queued"]
    /\ backlog' = Append(backlog, k)
    /\ UNCHANGED <<request, outcome, inbox, outbox, status, reset, pc,
                   shutdown_requested, executed>>

(* The kernel completes the handshake while the listen queue has room; a   *)
(* connection request that finds it full is retried by the client's TCP.   *)
Connect(k) ==
    /\ phase[k] = "connect"
    /\ Listening
    /\ Len(backlog) < Backlog
    /\ phase' = [phase EXCEPT ![k] = "header"]
    /\ serverEnd' = [serverEnd EXCEPT ![k] = "queued"]
    /\ backlog' = Append(backlog, k)
    /\ UNCHANGED <<request, outcome, inbox, outbox, status, reset, pc,
                   shutdown_requested, executed>>

Return(k, o) ==
    /\ phase' = [phase EXCEPT ![k] = "done"]
    /\ outcome' = [outcome EXCEPT ![k] = o]
    /\ UNCHANGED <<request, inbox, outbox, status, serverEnd, pc,
                   shutdown_requested, backlog, executed>>

ConnectRefused(k) ==
    /\ phase[k] = "connect"
    /\ ~Listening
    /\ Return(k, "refused")
    /\ UNCHANGED reset

SendHeader(k) ==
    /\ phase[k] = "header"
    /\ serverEnd[k] # "closed"
    /\ inbox' = [inbox EXCEPT ![k] = @ \cup {"header"}]
    /\ phase' = [phase EXCEPT ![k] =
                    IF HasPayload(request[k]) THEN "payload" ELSE "reply"]
    /\ UNCHANGED <<request, outcome, outbox, status, serverEnd, reset, pc,
                   shutdown_requested, backlog, executed>>

SendPayload(k) ==
    /\ phase[k] = "payload"
    /\ serverEnd[k] # "closed"
    /\ inbox' = [inbox EXCEPT ![k] = @ \cup {"payload"}]
    /\ phase' = [phase EXCEPT ![k] = "reply"]
    /\ UNCHANGED <<request, outcome, outbox, status, serverEnd, reset, pc,
                   shutdown_requested, backlog, executed>>

(* _recv_message read a whole reply; leaving the with block closes the     *)
(* socket, and a status other than STATUS_OK is raised to the caller.      *)
ReceiveReply(k) ==
    /\ phase[k] = "reply"
    /\ outbox[k] = Parts
    /\ Return(k, IF status[k] = "ok" THEN "ok" ELSE "rejected")
    /\ UNCHANGED reset

ConnectionLost(k) ==
    /\ phase[k] \in {"header", "payload", "reply"}
    /\ serverEnd[k] = "closed"
    /\ outbox[k] # Parts
    /\ Return(k, "lost")
    /\ UNCHANGED reset

(* A timeout, an exception or the death of the client.  Closing a socket   *)
(* that holds unread data resets the connection.                           *)
GiveUp(k) ==
    /\ k[1] \in Impatient
    /\ phase[k] \in {"connect", "header", "payload", "reply"}
    /\ Return(k, "gaveup")
    /\ \/ UNCHANGED reset
       \/ /\ outbox[k] # {}
          /\ reset' = [reset EXCEPT ![k] = "pendingReset"]

Client(k) ==
    \/ Connect(k)
    \/ ConnectRefused(k)
    \/ SendHeader(k)
    \/ SendPayload(k)
    \/ ReceiveReply(k)
    \/ ConnectionLost(k)

---------------------------------------------------------------------------
(* The network delivers a reset.  One that follows the peer's FIN makes    *)
(* the next send fail with EPIPE, any other with ECONNRESET.               *)

DeliverReset(k) ==
    /\ serverEnd[k] \in {"queued", "open"}
    /\ \/ /\ reset[k] = "pendingReset"
          /\ reset' = [reset EXCEPT ![k] = "reset"]
       \/ /\ reset[k] = "pendingPipe"
          /\ reset' = [reset EXCEPT ![k] = "pipe"]
    /\ UNCHANGED <<phase, request, outcome, inbox, outbox, status, serverEnd,
                   pc, shutdown_requested, backlog, executed>>

---------------------------------------------------------------------------
(* The server: main *)

LoadAndListen ==
    /\ pc = "loading"
    /\ pc' = "accept"
    /\ UNCHANGED <<clientVars, inbox, outbox, status, serverEnd, reset,
                   shutdown_requested, backlog, executed>>

LoadFails ==
    /\ pc = "loading"
    /\ pc' = "failed"
    /\ UNCHANGED <<clientVars, inbox, outbox, status, serverEnd, reset,
                   shutdown_requested, backlog, executed>>

(* accept() takes the oldest queued connection, then handle_client tests   *)
(* shutdown_requested, which main has just found to be false.              *)
Accept ==
    /\ pc = "accept"
    /\ backlog # <<>>
    /\ serverEnd' = [serverEnd EXCEPT ![Head(backlog)] = "open"]
    /\ backlog' = Tail(backlog)
    /\ pc' = "read"
    /\ UNCHANGED <<clientVars, inbox, outbox, status, reset,
                   shutdown_requested, executed>>

(* Mutant: main serves one session and leaves its accept loop.             *)
CloseAndLeave(k) ==
    /\ pc = "close"
    /\ serverEnd[k] = "open"
    /\ serverEnd' = [serverEnd EXCEPT ![k] = "closed"]
    /\ pc' = "shutdown"
    /\ UNCHANGED <<clientVars, inbox, outbox, status, reset,
                   shutdown_requested, backlog, executed>>

Close(k) ==
    /\ pc = "close"
    /\ serverEnd[k] = "open"
    /\ serverEnd' = [serverEnd EXCEPT ![k] = "closed"]
    /\ pc' = IF shutdown_requested THEN "shutdown" ELSE "accept"
    /\ UNCHANGED <<clientVars, inbox, outbox, status, reset,
                   shutdown_requested, backlog, executed>>

(* The end of the process closes the listening socket and with it every    *)
(* connection still in its queue.                                          *)
CloseAll ==
    /\ serverEnd' = [k \in Call |-> IF serverEnd[k] = "none" THEN "none"
                                                             ELSE "closed"]
    /\ backlog' = <<>>

Exit ==
    /\ pc = "shutdown"
    /\ pc' = "exited"
    /\ CloseAll
    /\ UNCHANGED <<clientVars, inbox, outbox, status, reset,
                   shutdown_requested, executed>>

---------------------------------------------------------------------------
(* The server: read_message *)

Take(k, part) ==
    /\ part \in inbox[k]
    /\ inbox' = [inbox EXCEPT ![k] = @ \ {part}]
    /\ UNCHANGED <<clientVars, outbox, status, serverEnd, reset,
                   shutdown_requested, backlog, executed>>

(* A header that does not validate ends the session without a reply.       *)
ReadHeader(k) ==
    /\ pc = "read"
    /\ serverEnd[k] = "open"
    /\ Take(k, "header")
    /\ pc' = CASE request[k] = "malformed" -> "close"
               [] HasPayload(request[k])   -> "readPayload"
               [] OTHER                    -> "dispatch"

ReadPayload(k) ==
    /\ pc = "readPayload"
    /\ serverEnd[k] = "open"
    /\ Take(k, "payload")
    /\ pc' = "dispatch"

(* Mutant: a recv() of 0 bytes is not taken for the end of the connection. *)
ReadFailsOnResetOnly(k) ==
    /\ serverEnd[k] = "open"
    /\ pc \in {"read", "readPayload"} /\ reset[k] \in {"reset", "pipe"}
    /\ pc' = "close"
    /\ UNCHANGED <<clientVars, inbox, outbox, status, serverEnd, reset,
                   shutdown_requested, backlog, executed>>

(* recv() returns 0 once the peer closed and all it sent has been read, or *)
(* an error after a reset.                                                 *)
ReadFails(k) ==
    /\ serverEnd[k] = "open"
    /\ \/ pc = "read" /\ "header" \notin inbox[k] /\ phase[k] = "done"
       \/ pc = "readPayload" /\ "payload" \notin inbox[k] /\ phase[k] = "done"
       \/ pc \in {"read", "readPayload"} /\ reset[k] \in {"reset", "pipe"}
    /\ pc' = "close"
    /\ UNCHANGED <<clientVars, inbox, outbox, status, serverEnd, reset,
                   shutdown_requested, backlog, executed>>

---------------------------------------------------------------------------
(* The server: handle_client's handlers *)

Answer(k, s) ==
    /\ pc = "dispatch"
    /\ serverEnd[k] = "open"
    /\ status' = [status EXCEPT ![k] = s]
    /\ pc' = "sendHeader"
    /\ UNCHANGED <<clientVars, inbox, outbox, serverEnd, reset,
                   shutdown_requested, backlog>>

HandleHealth(k) ==
    /\ request[k] = "health"
    /\ Answer(k, "ok")
    /\ UNCHANGED executed

HandleReset(k) ==
    /\ request[k] = "reset"
    /\ Answer(k, "ok")
    /\ executed' = Append(executed, k)

HandleShutdown(k) ==
    /\ request[k] = "shutdown"
    /\ Answer(k, "ok")
    /\ UNCHANGED executed

(* Mutant: a failed predict ends the session instead of being answered.    *)
HandlePredictDropsFailure(k) ==
    /\ request[k] = "predict"
    /\ \/ Answer(k, "ok")
       \/ /\ pc = "dispatch"
          /\ serverEnd[k] = "open"
          /\ pc' = "close"
          /\ UNCHANGED <<clientVars, inbox, outbox, status, serverEnd, reset,
                         shutdown_requested, backlog>>
    /\ executed' = Append(executed, k)

(* Mutant: a failed predict is tried once more.                            *)
HandlePredictRetries(k) ==
    /\ request[k] = "predict"
    /\ \/ Answer(k, "ok") /\ executed' = Append(executed, k)
       \/ \E s \in {"ok", "error"} : Answer(k, s)
          /\ executed' = executed \o <<k, k>>

(* The policy or the encoder of its answer may fail: internal_error.       *)
HandlePredict(k) ==
    /\ request[k] = "predict"
    /\ \E s \in {"ok", "error"} : Answer(k, s)
    /\ executed' = Append(executed, k)

HandleBadRequest(k) ==
    /\ request[k] \in {"badPredict", "unknown"}
    /\ Answer(k, "error")
    /\ UNCHANGED executed

---------------------------------------------------------------------------
(* The server: send_message and what handle_client does with its result *)

(* send() succeeds until a reset has arrived.  Data for a socket that the  *)
(* client has closed makes the client's kernel send one.                   *)
SendSucceeds(k, part) ==
    /\ reset[k] \notin {"reset", "pipe"}
    /\ IF phase[k] = "done"
       THEN /\ reset' = [reset EXCEPT ![k] =
                            IF @ = "none" THEN "pendingPipe" ELSE @]
            /\ UNCHANGED outbox
       ELSE /\ outbox' = [outbox EXCEPT ![k] = @ \cup {part}]
            /\ UNCHANGED reset

(* Mutant: the shutdown flag is never set.                                 *)
AfterSendForgetsFlag(k, sent) ==
    /\ UNCHANGED shutdown_requested
    /\ pc' = IF \/ request[k] = "shutdown"
                \/ request[k] = "predict" /\ status[k] = "ok" /\ ~sent
             THEN "close" ELSE "read"

(* Mutant: any send that fails ends the session before the flag is set.    *)
AfterSendChecked(k, sent) ==
    /\ shutdown_requested' =
            (shutdown_requested \/ (request[k] = "shutdown" /\ sent))
    /\ pc' = IF request[k] = "shutdown" \/ ~sent THEN "close" ELSE "read"

(* Only the result of sending an action chunk is looked at; after a        *)
(* shutdown reply, sent or not, the flag is set and the session ends.      *)
AfterSend(k, sent) ==
    /\ shutdown_requested' = (shutdown_requested \/ request[k] = "shutdown")
    /\ pc' = IF \/ request[k] = "shutdown"
                \/ request[k] = "predict" /\ status[k] = "ok" /\ ~sent
             THEN "close" ELSE "read"

SendReplyHeader(k) ==
    /\ pc = "sendHeader"
    /\ serverEnd[k] = "open"
    /\ SendSucceeds(k, "header")
    /\ pc' = "sendPayload"
    /\ UNCHANGED <<clientVars, inbox, status, serverEnd,
                   shutdown_requested, backlog, executed>>

SendReplyPayload(k) ==
    /\ pc = "sendPayload"
    /\ serverEnd[k] = "open"
    /\ SendSucceeds(k, "payload")
    /\ AfterSend(k, TRUE)
    /\ UNCHANGED <<clientVars, inbox, status, serverEnd, backlog, executed>>

SendFails(k) ==
    /\ pc \in {"sendHeader", "sendPayload"}
    /\ serverEnd[k] = "open"
    /\ \/ reset[k] = "reset"
       \/ reset[k] = "pipe" /\ ~SigPipe
    /\ AfterSend(k, FALSE)
    /\ UNCHANGED <<clientVars, inbox, outbox, status, serverEnd, reset,
                   backlog, executed>>

(* send() is called without MSG_NOSIGNAL and nothing ignores SIGPIPE.      *)
KilledBySigPipe(k) ==
    /\ SigPipe
    /\ pc \in {"sendHeader", "sendPayload"}
    /\ serverEnd[k] = "open"
    /\ reset[k] = "pipe"
    /\ pc' = "killed"
    /\ CloseAll
    /\ UNCHANGED <<clientVars, inbox, outbox, status, reset,
                   shutdown_requested, executed>>

Session(k) ==
    \/ ReadHeader(k)
    \/ ReadPayload(k)
    \/ ReadFails(k)
    \/ HandleHealth(k)
    \/ HandleReset(k)
    \/ HandleShutdown(k)
    \/ HandlePredict(k)
    \/ HandleBadRequest(k)
    \/ SendReplyHeader(k)
    \/ SendReplyPayload(k)
    \/ SendFails(k)
    \/ KilledBySigPipe(k)
    \/ Close(k)

Server ==
    \/ LoadAndListen
    \/ LoadFails
    \/ Accept
    \/ Exit
    \/ \E k \in Call : Session(k)

---------------------------------------------------------------------------

(* Every call has returned and the server waits in accept(), or is gone.   *)
Quiescent ==
    /\ \A k \in Call : phase[k] = "done"
    /\ pc \in {"accept"} \cup Stopped
    /\ UNCHANGED vars

Next ==
    \/ \E k \in Call : \E r \in Asks[k[1]] : BeginCall(k, r)
    \/ \E k \in Call : Client(k)
    \/ \E k \in Call : GiveUp(k)
    \/ \E k \in Call : DeliverReset(k)
    \/ Server
    \/ Quiescent

Spec == Init /\ [][Next]_vars

(* The server's thread runs, TCP moves what a live client writes, and a    *)
(* client that made a call carries it through.  Nothing forces a client to *)
(* make a call, to give up, or a reset to arrive early.                    *)
Fairness ==
    /\ WF_vars(Server)
    /\ \A k \in Call : WF_vars(Client(k))

FairSpec == Spec /\ Fairness

---------------------------------------------------------------------------
(* Properties *)

WasExecuted(k) == \E i \in DOMAIN executed : executed[i] = k

(* A client that waits for it gets the answer to whatever the policy did   *)
(* for it: handle_client answers on every path after predict and reset, so *)
(* an action chunk or a failure never ends in a dropped connection, not    *)
(* even when another client's shutdown or a SIGPIPE takes the server down. *)
ExecutedIsAnswered ==
    \A k \in Call : WasExecuted(k) => outcome[k] \notin {"lost", "refused"}

(* While the server runs, no client loses its connection through what      *)
(* other clients do, short of asking for shutdown: timeouts, resets and    *)
(* malformed messages end the session they happen in and no other.         *)
NoSpuriousLoss ==
    \A k \in Call : outcome[k] = "lost" =>
        shutdown_requested \/ request[k] = "malformed" \/ pc = "killed"

(* README.md: a persistent daemon.  Once it listens, it stops only because *)
(* a client asked it to.                                                   *)
StopsOnlyOnShutdown ==
    pc \in {"exited", "killed"} => shutdown_requested

(* Once a client has read "ok" for its shutdown, the policy is not run     *)
(* again, neither for queued calls nor for new ones, although the reply is *)
(* sent before the flag is set.                                            *)
ShutdownAcknowledged ==
    \E k \in Call : request[k] = "shutdown" /\ outcome[k] = "ok"

NothingRunsAfterShutdownAck ==
    [][ShutdownAcknowledged => executed' = executed]_vars

(* Every call returns: one connection is served at a time, and no order of *)
(* connects, timeouts, resets and shutdown leaves a client waiting.        *)
EveryCallReturns ==
    \A k \in Call : phase[k] = "connect" ~> phase[k] = "done"

(* A shutdown request that the server has read stops it, even when its     *)
(* client is gone before the reply.                                        *)
ShutdownStops ==
    (\E k \in Call : /\ serverEnd[k] = "open"
                     /\ pc = "dispatch"
                     /\ request[k] = "shutdown")
        ~> pc \in {"exited", "killed"}

(* The server implements the abstract service: the policy is run at most   *)
(* once per call and in each client's order, and OK means it was run.      *)
Service == INSTANCE PolicyService WITH
    Requests <- RequestKinds,
    PolicyRequests <- {"predict", "reset"},
    AnswerableRequests <- {"health", "reset", "predict", "shutdown"},
    ended <- [k \in Call |-> CASE outcome[k] = "none" -> "no"
                               [] outcome[k] = "ok"   -> "ok"
                               [] OTHER               -> "failed"]

ImplementsService == Service!Spec
=============================================================================
