-------------------------- MODULE ModelServerProofs --------------------------
(***************************************************************************)
(* Theorems about ModelServer for any number of clients and calls.  The    *)
(* safety of one client's connection against the others' timeouts, resets  *)
(* and malformed messages rests on an inductive invariant, SessionInv: who *)
(* owns the only open session, which calls may have a reset on their way,  *)
(* and what excuses a closed server end.  That the server implements       *)
(* PolicyService rests on another one, RefInv, about the order in which    *)
(* calls are queued, read and executed.                                    *)
(***************************************************************************)
EXTENDS ModelServer, TLAPS

---------------------------------------------------------------------------
(* Type correctness *)

LEMMA CallIsProduct ==
    ASSUME NEW k \in Call
    PROVE  k[1] \in Clients
BY DEF Call

(* Every variable has its type in the initial states.                      *)
LEMMA TypeInit == Init => TypeOK
<1>1. <<>> \in Seq(Call) /\ Len(<<>>) = 0 /\ 0 <= Backlog
    BY CallsAssumption
<1>2. ASSUME Init
      PROVE  backlog \in Seq(Call) /\ Len(backlog) <= Backlog
    BY <1>1, <1>2 DEF Init
<1>3. ASSUME Init
      PROVE  executed \in Seq(Call)
    BY <1>1, <1>3 DEF Init
<1>4. ASSUME Init
      PROVE  /\ inbox \in [Call -> SUBSET Parts]
             /\ outbox \in [Call -> SUBSET Parts]
    BY <1>4 DEF Init
<1>5. ASSUME Init
      PROVE  /\ phase \in [Call -> Phases]
             /\ outcome \in [Call -> Outcomes]
             /\ serverEnd \in [Call -> Ends]
             /\ reset \in [Call -> Resets]
             /\ pc \in ServerStates
    BY <1>5 DEF Init, Phases, Outcomes, Ends, Resets, ServerStates
<1>6. ASSUME Init
      PROVE  /\ request \in [Call -> RequestKinds \cup {"none"}]
             /\ status \in [Call -> {"none", "ok", "error"}]
             /\ shutdown_requested \in BOOLEAN
    BY <1>6 DEF Init
<1>7. QED
    BY <1>2, <1>3, <1>4, <1>5, <1>6 DEF TypeOK

(* Every step of a client, of the network and of the server keeps every    *)
(* variable, the listen queue and its length bound included, in its type.  *)
LEMMA TypeStep == TypeOK /\ [Next]_vars => TypeOK'
<1> SUFFICES ASSUME TypeOK, [Next]_vars
             PROVE  TypeOK'
    OBVIOUS
<1> USE DEF TypeOK
<1>1. CASE UNCHANGED vars
    BY <1>1 DEF vars
<1>2. ASSUME NEW k \in Call, NEW r \in Asks[k[1]], BeginCall(k, r)
      PROVE  TypeOK'
    <2>1. r \in RequestKinds
        BY CallIsProduct, AsksAssumption
    <2>2. QED
        BY <1>2, <2>1 DEF BeginCall, Phases
<1>3. ASSUME NEW k \in Call, Connect(k)
      PROVE  TypeOK'
    <2>1. backlog' \in Seq(Call) /\ Len(backlog') <= Backlog
        BY <1>3, CallsAssumption DEF Connect
    <2>2. QED
        BY <1>3, <2>1 DEF Connect, Phases, Ends
<1>4. ASSUME NEW k \in Call, ConnectRefused(k)
      PROVE  TypeOK'
    BY <1>4 DEF ConnectRefused, Return, Phases, Outcomes
<1>5. ASSUME NEW k \in Call, SendHeader(k)
      PROVE  TypeOK'
    BY <1>5 DEF SendHeader, Phases, Parts
<1>6. ASSUME NEW k \in Call, SendPayload(k)
      PROVE  TypeOK'
    BY <1>6 DEF SendPayload, Phases, Parts
<1>7. ASSUME NEW k \in Call, ReceiveReply(k)
      PROVE  TypeOK'
    BY <1>7 DEF ReceiveReply, Return, Phases, Outcomes
<1>8. ASSUME NEW k \in Call, ConnectionLost(k)
      PROVE  TypeOK'
    BY <1>8 DEF ConnectionLost, Return, Phases, Outcomes
<1>9. ASSUME NEW k \in Call, GiveUp(k)
      PROVE  TypeOK'
    BY <1>9 DEF GiveUp, Return, Phases, Outcomes, Resets
<1>10. ASSUME NEW k \in Call, DeliverReset(k)
       PROVE  TypeOK'
    BY <1>10 DEF DeliverReset, Resets
<1>11. CASE LoadAndListen
    BY <1>11 DEF LoadAndListen, clientVars, ServerStates
<1>12. CASE LoadFails
    BY <1>12 DEF LoadFails, clientVars, ServerStates, Stopped
<1>13. CASE Accept
    <2>1. /\ Tail(backlog) \in Seq(Call)
          /\ Len(Tail(backlog)) = Len(backlog) - 1
          /\ Len(backlog) \in Nat
        BY <1>13 DEF Accept
    <2>2. Len(Tail(backlog)) <= Backlog
        BY <2>1, CallsAssumption
    <2>3. QED
        BY <1>13, <2>1, <2>2
        DEF Accept, clientVars, Ends, ServerStates, Serving
<1>14. CASE Exit
    <2>1. backlog' \in Seq(Call) /\ Len(backlog') <= Backlog
        BY <1>14, CallsAssumption DEF Exit, CloseAll
    <2>2. QED
        BY <1>14, <2>1
        DEF Exit, CloseAll, clientVars, Ends, ServerStates, Stopped
<1>15. ASSUME NEW k \in Call, ReadHeader(k)
       PROVE  TypeOK'
    BY <1>15 DEF ReadHeader, Take, clientVars, ServerStates, Serving
<1>16. ASSUME NEW k \in Call, ReadPayload(k)
       PROVE  TypeOK'
    BY <1>16 DEF ReadPayload, Take, clientVars, ServerStates, Serving
<1>17. ASSUME NEW k \in Call, ReadFails(k)
       PROVE  TypeOK'
    BY <1>17 DEF ReadFails, clientVars, ServerStates, Serving
<1>18. ASSUME NEW k \in Call, NEW s \in {"ok", "error"}, Answer(k, s),
              executed' \in Seq(Call)
       PROVE  TypeOK'
    BY <1>18 DEF Answer, clientVars, ServerStates, Serving
<1>19. ASSUME NEW k \in Call,
              \/ HandleHealth(k)
              \/ HandleShutdown(k)
              \/ HandleBadRequest(k)
       PROVE  TypeOK'
    BY <1>18, <1>19 DEF HandleHealth, HandleShutdown, HandleBadRequest
<1>20. ASSUME NEW k \in Call, HandleReset(k) \/ HandlePredict(k)
       PROVE  TypeOK'
    <2>1. /\ executed' = Append(executed, k)
          /\ \E s \in {"ok", "error"} : Answer(k, s)
        BY <1>20 DEF HandleReset, HandlePredict
    <2>2. executed' \in Seq(Call)
        BY <2>1
    <2>3. PICK s \in {"ok", "error"} : Answer(k, s)
        BY <2>1
    <2>4. QED
        BY <2>2, <2>3 DEF Answer, clientVars, ServerStates, Serving
<1>21. ASSUME NEW k \in Call, SendReplyHeader(k)
       PROVE  TypeOK'
    <2>1. \/ reset' = reset
          \/ reset' = [reset EXCEPT ![k] = IF @ = "none" THEN "pendingPipe"
                                          ELSE @]
        BY <1>21 DEF SendReplyHeader, SendSucceeds
    <2>2. reset' \in [Call -> Resets]
        BY <2>1 DEF Resets
    <2>3. outbox' = outbox \/ outbox' = [outbox EXCEPT ![k] = @ \cup {"header"}]
        BY <1>21 DEF SendReplyHeader, SendSucceeds
    <2>4. outbox' \in [Call -> SUBSET Parts]
        BY <2>3 DEF Parts
    <2>5. QED
        BY <1>21, <2>2, <2>4
        DEF SendReplyHeader, clientVars, ServerStates, Serving
<1>22. ASSUME NEW k \in Call, SendReplyPayload(k)
       PROVE  TypeOK'
    BY <1>22 DEF SendReplyPayload, SendSucceeds, AfterSend, clientVars,
                 Parts, Resets, ServerStates, Serving
<1>23. ASSUME NEW k \in Call, SendFails(k)
       PROVE  TypeOK'
    BY <1>23 DEF SendFails, AfterSend, clientVars, ServerStates, Serving
<1>24. ASSUME NEW k \in Call, KilledBySigPipe(k)
       PROVE  TypeOK'
    <2>1. backlog' \in Seq(Call) /\ Len(backlog') <= Backlog
        BY <1>24, CallsAssumption DEF KilledBySigPipe, CloseAll
    <2>2. QED
        BY <1>24, <2>1
        DEF KilledBySigPipe, CloseAll, clientVars, Ends, ServerStates,
            Stopped
<1>25. ASSUME NEW k \in Call, Close(k)
       PROVE  TypeOK'
    BY <1>25 DEF Close, clientVars, Ends, ServerStates
<1>26. QED
    BY <1>1, <1>2, <1>3, <1>4, <1>5, <1>6, <1>7, <1>8, <1>9, <1>10,
       <1>11, <1>12, <1>13, <1>14, <1>15, <1>16, <1>17, <1>19, <1>20,
       <1>21, <1>22, <1>23, <1>24, <1>25
    DEF Next, Client, Server, Session, Quiescent

(* The server's and the clients' state always has its type; the listen     *)
(* queue never holds more than Backlog connections.                        *)
THEOREM TypeCorrect == Spec => []TypeOK
BY TypeInit, TypeStep, PTL DEF Spec

---------------------------------------------------------------------------
(* The inductive invariant of a session *)

(* What a client may blame for the end of its connection.                  *)
Excused(k) ==
    shutdown_requested \/ request[k] = "malformed" \/ phase[k] = "done"

(* The listen queue holds each connection once, before it is accepted.     *)
QueueInv ==
    /\ \A i \in DOMAIN backlog : serverEnd[backlog[i]] = "queued"
    /\ \A i, j \in DOMAIN backlog : backlog[i] = backlog[j] => i = j

ClientInv ==
    \A k \in Call :
        /\ phase[k] \in {"idle", "connect"} => serverEnd[k] = "none"
        /\ serverEnd[k] = "none" => outbox[k] = {}
        /\ outcome[k] # "none" => phase[k] = "done"
        /\ outcome[k] = "lost" => serverEnd[k] = "closed"
        /\ outcome[k] = "refused" => serverEnd[k] = "none"
        /\ outcome[k] = "ok" => outbox[k] = Parts
        /\ reset[k] # "none" => phase[k] = "done"

(* At most one session is open, and only while the server is in one.       *)
SessionInv ==
    \A k \in Call : serverEnd[k] = "open" =>
        /\ pc \in Serving
        /\ \A j \in Call : serverEnd[j] = "open" => j = k

ShutdownInv ==
    /\ shutdown_requested => pc \in {"close", "shutdown", "exited"}
    /\ pc \in {"shutdown", "exited"} => shutdown_requested
    /\ pc = "killed" => SigPipe
    /\ \A k \in Call : request[k] = "shutdown" /\ "payload" \in outbox[k] =>
            shutdown_requested

CloseInv ==
    \A k \in Call :
        /\ serverEnd[k] = "open" /\ pc = "close" => Excused(k)
        /\ serverEnd[k] = "closed" => Excused(k) \/ pc = "killed"

(* What the policy did for a call is on its way to the client, unless the  *)
(* client is gone.                                                         *)
AnswerInv ==
    \A k \in Call : WasExecuted(k) =>
        /\ serverEnd[k] \in {"open", "closed"}
        /\ \/ outbox[k] = Parts
           \/ phase[k] = "done"
           \/ serverEnd[k] = "open" /\ pc = "sendHeader"
           \/ /\ serverEnd[k] = "open"
              /\ pc = "sendPayload"
              /\ "header" \in outbox[k]

SafeInv ==
    /\ QueueInv
    /\ ClientInv
    /\ SessionInv
    /\ ShutdownInv
    /\ CloseInv
    /\ NoSpuriousLoss
    /\ AnswerInv
    /\ ExecutedIsAnswered

IInv == TypeOK /\ SafeInv

LEMMA SafeInit == Init => SafeInv
BY DEF Init, SafeInv, QueueInv, ClientInv, SessionInv, ShutdownInv, CloseInv,
       NoSpuriousLoss, AnswerInv, ExecutedIsAnswered, WasExecuted

(* Each step keeps each part: the parts lean on one another, so they are   *)
(* carried through together.                                               *)
LEMMA SafeStep == IInv /\ [Next]_vars => SafeInv'
<1> SUFFICES ASSUME IInv, [Next]_vars
             PROVE  SafeInv'
    OBVIOUS
<1> USE DEF IInv, TypeOK, SafeInv, QueueInv, ClientInv, SessionInv, ShutdownInv,
           CloseInv, NoSpuriousLoss, AnswerInv, ExecutedIsAnswered, WasExecuted,
           Excused, Serving, Stopped
<1>1. CASE UNCHANGED vars
    BY <1>1 DEF vars
<1>2. ASSUME NEW k \in Call, NEW r \in Asks[k[1]], BeginCall(k, r)
       PROVE  SafeInv'
    BY <1>2 DEF BeginCall, clientVars
<1>3. ASSUME NEW k \in Call, Connect(k)
       PROVE  SafeInv'
    BY <1>3 DEF Connect, clientVars
<1>4. ASSUME NEW k \in Call, ConnectRefused(k)
       PROVE  SafeInv'
    BY <1>4 DEF ConnectRefused, Return, clientVars
<1>5. ASSUME NEW k \in Call, SendHeader(k)
       PROVE  SafeInv'
    BY <1>5 DEF SendHeader, HasPayload, clientVars
<1>6. ASSUME NEW k \in Call, SendPayload(k)
       PROVE  SafeInv'
    BY <1>6 DEF SendPayload, clientVars
<1>7. ASSUME NEW k \in Call, ReceiveReply(k)
       PROVE  SafeInv'
    BY <1>7 DEF ReceiveReply, Return, clientVars
<1>8. ASSUME NEW k \in Call, ConnectionLost(k)
       PROVE  SafeInv'
    BY <1>8 DEF ConnectionLost, Return, clientVars
<1>9. ASSUME NEW k \in Call, GiveUp(k)
       PROVE  SafeInv'
    BY <1>9 DEF GiveUp, Return, clientVars
<1>10. ASSUME NEW k \in Call, DeliverReset(k)
        PROVE  SafeInv'
    BY <1>10 DEF DeliverReset, clientVars
<1>11. ASSUME NEW k \in Call, ReadHeader(k)
        PROVE  SafeInv'
    BY <1>11 DEF ReadHeader, Take, HasPayload, clientVars
<1>12. ASSUME NEW k \in Call, ReadPayload(k)
        PROVE  SafeInv'
    BY <1>12 DEF ReadPayload, Take, clientVars
<1>13. ASSUME NEW k \in Call, ReadFails(k)
        PROVE  SafeInv'
    BY <1>13 DEF ReadFails, clientVars
<1>14. ASSUME NEW k \in Call, HandleHealth(k)
        PROVE  SafeInv'
    BY <1>14 DEF HandleHealth, Answer, clientVars
<1>15. ASSUME NEW k \in Call, HandleReset(k)
        PROVE  SafeInv'
    BY <1>15 DEF HandleReset, Answer, clientVars
<1>16. ASSUME NEW k \in Call, HandleShutdown(k)
        PROVE  SafeInv'
    BY <1>16 DEF HandleShutdown, Answer, clientVars
<1>17. ASSUME NEW k \in Call, HandlePredict(k)
        PROVE  SafeInv'
    BY <1>17 DEF HandlePredict, Answer, clientVars
<1>18. ASSUME NEW k \in Call, HandleBadRequest(k)
        PROVE  SafeInv'
    BY <1>18 DEF HandleBadRequest, Answer, clientVars
<1>19. ASSUME NEW k \in Call, SendReplyHeader(k)
        PROVE  SafeInv'
    <2>1. QueueInv' /\ SessionInv'
        BY <1>19 DEF SendReplyHeader, SendSucceeds, Parts, clientVars
    <2>2. ClientInv'
        <3>1. CASE phase[k] = "done"
            BY <1>19, <3>1 DEF SendReplyHeader, SendSucceeds, Parts, clientVars
        <3>2. CASE phase[k] # "done"
            <4>1. /\ outbox' = [outbox EXCEPT ![k] = outbox[k] \cup {"header"}]
                  /\ serverEnd[k] = "open" /\ outcome[k] = "none"
                  /\ UNCHANGED <<phase, outcome, serverEnd, reset>>
                BY <1>19, <3>2 DEF SendReplyHeader, SendSucceeds, Parts, clientVars
            <4>2. QED
                BY <3>2, <4>1 DEF Ends, Outcomes
        <3>3. QED
            BY <3>1, <3>2
    <2>3. ShutdownInv' /\ CloseInv' /\ NoSpuriousLoss'
        BY <1>19 DEF SendReplyHeader, SendSucceeds, Parts, clientVars
    <2>4. AnswerInv'
        <3>1. CASE phase[k] = "done"
            BY <1>19, <3>1
            DEF SendReplyHeader, SendSucceeds, Parts, clientVars
        <3>2. CASE phase[k] # "done"
            BY <1>19, <3>2
            DEF SendReplyHeader, SendSucceeds, Parts, clientVars
        <3>3. QED
            BY <3>1, <3>2
    <2>5. ExecutedIsAnswered'
        BY <1>19 DEF SendReplyHeader, clientVars
    <2>6. QED
        BY <2>1, <2>2, <2>3, <2>4, <2>5
<1>20. ASSUME NEW k \in Call, SendReplyPayload(k)
        PROVE  SafeInv'
    <2>1. QueueInv' /\ SessionInv'
        BY <1>20 DEF SendReplyPayload, SendSucceeds, AfterSend, Parts,
           clientVars
    <2>2. ClientInv'
        <3>1. CASE phase[k] = "done"
            BY <1>20, <3>1 DEF SendReplyPayload, SendSucceeds, AfterSend, Parts,
           clientVars
        <3>2. CASE phase[k] # "done"
            <4>1. /\ outbox' = [outbox EXCEPT ![k] = outbox[k] \cup {"payload"}]
                  /\ serverEnd[k] = "open" /\ outcome[k] = "none"
                  /\ UNCHANGED <<phase, outcome, serverEnd, reset>>
                <5>1. SendSucceeds(k, "payload") /\ serverEnd[k] = "open"
                      /\ UNCHANGED <<clientVars, serverEnd>>
                    BY <1>20 DEF SendReplyPayload
                <5>2. QED
                    BY <3>2, <5>1 DEF SendSucceeds, clientVars
            <4>2. QED
                BY <3>2, <4>1 DEF Ends, Outcomes
        <3>3. QED
            BY <3>1, <3>2
    <2>3. ShutdownInv' /\ CloseInv' /\ NoSpuriousLoss'
        <3>1. ShutdownInv'
            <4>1. /\ pc = "sendPayload" /\ request' = request
                  /\ shutdown_requested'
                        = (shutdown_requested \/ request[k] = "shutdown")
                  /\ pc' \in {"close", "read"}
                BY <1>20 DEF SendReplyPayload, AfterSend, clientVars
            <4>2. shutdown_requested' => pc' = "close"
                BY <1>20, <4>1 DEF SendReplyPayload, AfterSend
            <4>3. \A j \in Call : j # k => outbox'[j] = outbox[j]
                BY <1>20 DEF SendReplyPayload, SendSucceeds
            <4>4. QED
                BY <4>1, <4>2, <4>3
        <3>2. CloseInv'
            BY <1>20 DEF SendReplyPayload, SendSucceeds, AfterSend, Parts,
                         clientVars
        <3>3. NoSpuriousLoss'
            BY <1>20 DEF SendReplyPayload, AfterSend, clientVars
        <3>4. QED
            BY <3>1, <3>2, <3>3
    <2>4. AnswerInv'
        <3>1. CASE phase[k] = "done"
            BY <1>20, <3>1
            DEF SendReplyPayload, SendSucceeds, AfterSend, Parts,
                 clientVars
        <3>2. CASE phase[k] # "done"
            BY <1>20, <3>2
            DEF SendReplyPayload, SendSucceeds, AfterSend, Parts,
                 clientVars
        <3>3. QED
            BY <3>1, <3>2
    <2>5. ExecutedIsAnswered'
        BY <1>20 DEF SendReplyPayload, clientVars
    <2>6. QED
        BY <2>1, <2>2, <2>3, <2>4, <2>5
<1>21. ASSUME NEW k \in Call, SendFails(k)
        PROVE  SafeInv'
    BY <1>21 DEF SendFails, AfterSend, clientVars
<1>22. ASSUME NEW k \in Call, KilledBySigPipe(k)
        PROVE  SafeInv'
    BY <1>22 DEF KilledBySigPipe, CloseAll, clientVars
<1>23. ASSUME NEW k \in Call, Close(k)
        PROVE  SafeInv'
    BY <1>23 DEF Close, clientVars
<1>24. CASE LoadAndListen
    BY <1>24 DEF LoadAndListen, clientVars
<1>25. CASE LoadFails
    BY <1>25 DEF LoadFails, clientVars
<1>26. CASE Accept
    BY <1>26 DEF Accept, clientVars
<1>27. CASE Exit
    BY <1>27 DEF Exit, CloseAll, clientVars
<1>28. QED
    BY <1>1, <1>2, <1>3, <1>4, <1>5, <1>6, <1>7, <1>8, <1>9, <1>10,
       <1>11, <1>12, <1>13, <1>14, <1>15, <1>16, <1>17, <1>18, <1>19,
       <1>20, <1>21, <1>22, <1>23, <1>24, <1>25, <1>26, <1>27
    DEF Next, Client, Server, Session, Quiescent

(* The whole invariant: sessions, queue, resets, excuses and answers.      *)
THEOREM Invariance == Spec => []IInv
<1>1. Init => IInv
    BY TypeInit, SafeInit DEF IInv
<1>2. IInv /\ [Next]_vars => IInv'
    BY TypeStep, SafeStep DEF IInv
<1>3. QED
    BY <1>1, <1>2, PTL DEF Spec

---------------------------------------------------------------------------
(* The properties *)

(* No client loses its connection to what the others do: while the server  *)
(* has neither been asked to stop nor been killed, a dropped connection is *)
(* one that carried a malformed header (session.cpp, read_message).        *)
THEOREM NoClientLosesAnothersSession == Spec => []NoSpuriousLoss
<1>1. IInv => NoSpuriousLoss
    BY DEF IInv, SafeInv
<1>2. QED
    BY <1>1, Invariance, PTL

(* Every path of handle_client after predict and reset answers: a client   *)
(* that waits learns what became of a request the policy ran.              *)
THEOREM ExecutedCallsAreAnswered == Spec => []ExecutedIsAnswered
<1>1. IInv => ExecutedIsAnswered
    BY DEF IInv, SafeInv
<1>2. QED
    BY <1>1, Invariance, PTL

(* Where a send to a reset peer returns an error instead of raising        *)
(* SIGPIPE, the daemon stops only when a client asks it to.                *)
THEOREM PersistentWithoutSigPipe ==
    ASSUME ~SigPipe
    PROVE  Spec => []StopsOnlyOnShutdown
<1>1. IInv => StopsOnlyOnShutdown
    BY DEF IInv, SafeInv, ShutdownInv, StopsOnlyOnShutdown
<1>2. QED
    BY <1>1, Invariance, PTL

(* The reply to shutdown is sent before the flag is set, and still no      *)
(* policy run follows once a client has read it.                           *)
THEOREM ShutdownAckIsFinal == Spec => NothingRunsAfterShutdownAck
<1>1. IInv /\ ShutdownAcknowledged => pc # "dispatch"
    BY DEF IInv, SafeInv, ClientInv, ShutdownInv, ShutdownAcknowledged, Parts
<1>2. IInv /\ [Next]_vars => [ShutdownAcknowledged => executed' = executed]_vars
    <2> SUFFICES ASSUME IInv, [Next]_vars, ShutdownAcknowledged
                 PROVE  executed' = executed
        OBVIOUS
    <2>1. pc # "dispatch"
        BY <1>1
    <2>2. QED
        BY <2>1
        DEF Next, Client, Server, Session, Quiescent, vars, clientVars,
            BeginCall, Connect, ConnectRefused, SendHeader, SendPayload,
            ReceiveReply, ConnectionLost, GiveUp, Return, DeliverReset,
            LoadAndListen, LoadFails, Accept, Close, Exit, ReadHeader,
            ReadPayload, ReadFails, Take, HandleHealth, HandleReset,
            HandleShutdown, HandlePredict, HandleBadRequest, Answer,
            SendReplyHeader, SendReplyPayload, SendFails, KilledBySigPipe
<1>3. QED
    BY <1>2, Invariance, PTL DEF Spec, NothingRunsAfterShutdownAck

---------------------------------------------------------------------------
(* The refinement of PolicyService *)

(* A client makes its calls one at a time; an issued call has a request.   *)
IssueInv ==
    /\ \A k \in Call : phase[k] = "idle" <=> request[k] = "none"
    /\ \A j, k \in Call :
          j[1] = k[1] /\ j[2] < k[2] /\ phase[k] # "idle" =>
              phase[j] = "done"

(* The listen queue holds every queued call and keeps each client's order, *)
(* and the accepted call is older than what its client has queued.         *)
OrderInv ==
    /\ \A k \in Call : serverEnd[k] = "queued" =>
          \E i \in DOMAIN backlog : backlog[i] = k
    /\ \A i, j \in DOMAIN backlog :
          i < j /\ backlog[i][1] = backlog[j][1] =>
              backlog[i][2] < backlog[j][2]
    /\ \A j, k \in Call :
          serverEnd[j] = "open" /\ serverEnd[k] = "queued" /\ j[1] = k[1] =>
              j[2] < k[2]

(* The one header of a call, while the server has not read it.             *)
HeaderAhead(k) == "header" \in inbox[k] \/ phase[k] \in {"idle", "connect",
                                                         "header"}

HeaderInv ==
    \A k \in Call :
        /\ "header" \in inbox[k] =>
              phase[k] \in {"payload", "reply", "done"}
        /\ serverEnd[k] = "open" /\ pc \notin {"read", "close"} =>
              ~HeaderAhead(k)

(* The calls the policy may still be run for.                              *)
CanRun(k) ==
    \/ serverEnd[k] = "none" /\ phase[k] # "done"
    \/ serverEnd[k] = "queued"
    \/ serverEnd[k] = "open" /\ pc \in {"readPayload", "dispatch"}
    \/ serverEnd[k] = "open" /\ pc = "read" /\ HeaderAhead(k)

(* They are younger than any call of their client it was run for.          *)
OnceInv ==
    \A k \in Call : \A i \in DOMAIN executed :
        CanRun(k) /\ executed[i][1] = k[1] => executed[i][2] < k[2]

(* An answer of OK is the answer of a handler that ran.                    *)
StatusInv ==
    \A k \in Call : status[k] = "ok" =>
        /\ request[k] \in {"health", "reset", "predict", "shutdown"}
        /\ request[k] \in {"predict", "reset"} => WasExecuted(k)

RefInv == IssueInv /\ OrderInv /\ HeaderInv /\ OnceInv /\ StatusInv

LEMMA RefInit == Init => RefInv
BY DEF Init, RefInv, IssueInv, OrderInv, HeaderInv, HeaderAhead, OnceInv, StatusInv

(* Neither the server nor the network writes a client's variables.         *)
LEMMA ServerLeavesClients ==
    ASSUME \/ Server
           \/ \E k \in Call : DeliverReset(k)
           \/ Quiescent
           \/ UNCHANGED vars
    PROVE  UNCHANGED clientVars
BY DEF Server, Session, LoadAndListen, LoadFails, Accept, Exit, Close,
       ReadHeader, ReadPayload, ReadFails, Take, HandleHealth, HandleReset,
       HandleShutdown, HandlePredict, HandleBadRequest, Answer,
       SendReplyHeader, SendReplyPayload, SendFails, KilledBySigPipe,
       DeliverReset, Quiescent, vars, clientVars

(* What a step may do to one call's progress at its client.                *)
ClientAdvances(k) ==
    /\ phase[k] \notin {"idle", "done"}
    /\ \E p \in Phases \ {"idle"} : phase' = [phase EXCEPT ![k] = p]
    /\ UNCHANGED <<request, executed, status>>

(* Only the client moves its call on; it never goes back to being idle.    *)
LEMMA StepOfClients ==
    ASSUME TypeOK, [Next]_vars
    PROVE  \/ \E k \in Call : \E r \in Asks[k[1]] : BeginCall(k, r)
           \/ \E k \in Call : ClientAdvances(k)
           \/ UNCHANGED clientVars
<1>1. ASSUME NEW k \in Call, Client(k) \/ GiveUp(k)
      PROVE  ClientAdvances(k)
    BY <1>1 DEF Client, Connect, ConnectRefused, SendHeader, SendPayload,
                ReceiveReply, ConnectionLost, GiveUp, Return, ClientAdvances,
                Phases
<1> QED
    BY <1>1, ServerLeavesClients DEF Next

LEMMA IssueStep == TypeOK /\ IssueInv /\ [Next]_vars => IssueInv'
<1> SUFFICES ASSUME TypeOK, IssueInv, [Next]_vars PROVE IssueInv'
    OBVIOUS
<1>1. ASSUME NEW k \in Call, NEW r \in Asks[k[1]], BeginCall(k, r)
      PROVE  IssueInv'
    <2>1. r # "none"
        BY AsksAssumption, CallIsProduct DEF RequestKinds
    <2>2. ASSUME NEW j \in Call, j[1] = k[1], j[2] < k[2]
          PROVE  phase'[j] = "done"
        <3>1. /\ j[2] \in 1 .. (k[2] - 1)
              /\ j = <<k[1], j[2]>>
            BY <2>2, CallsAssumption DEF Call
        <3>2. phase[j] = "done" /\ j # k
            BY <1>1, <3>1 DEF BeginCall
        <3> QED
            BY <1>1, <3>2 DEF BeginCall, TypeOK
    <2>3. \A j \in Call : phase[j] = "done" => phase'[j] = "done"
        BY <1>1 DEF BeginCall, TypeOK
    <2>4. \A j \in Call : j # k => phase'[j] = phase[j] /\ request'[j] = request[j]
        BY <1>1 DEF BeginCall, TypeOK
    <2>5. phase'[k] = "connect" /\ request'[k] = r
        BY <1>1 DEF BeginCall, TypeOK
    <2> QED
        BY <2>1, <2>2, <2>3, <2>4, <2>5 DEF IssueInv
<1>2. ASSUME NEW k \in Call, ClientAdvances(k)
      PROVE  IssueInv'
    BY <1>2 DEF ClientAdvances, IssueInv, TypeOK
<1>3. CASE UNCHANGED clientVars
    BY <1>3 DEF clientVars, IssueInv
<1> QED
    BY <1>1, <1>2, <1>3, StepOfClients

(* The listen queue and the ends of the connections change together.       *)
LEMMA StepOfQueue ==
    ASSUME TypeOK, [Next]_vars
    PROVE  \/ \E k \in Call : Connect(k)
           \/ Accept
           \/ \E k \in Call : Close(k)
           \/ CloseAll
           \/ UNCHANGED <<serverEnd, backlog>>
<1>1. ASSUME NEW k \in Call, Session(k)
      PROVE  Close(k) \/ CloseAll \/ UNCHANGED <<serverEnd, backlog>>
    BY <1>1 DEF Session, ReadHeader, ReadPayload, ReadFails, Take, HandleHealth,
                HandleReset, HandleShutdown, HandlePredict, HandleBadRequest,
                Answer, SendReplyHeader, SendReplyPayload, SendFails,
                KilledBySigPipe
<1>2. ASSUME NEW k \in Call, Client(k) \/ GiveUp(k) \/ DeliverReset(k)
      PROVE  Connect(k) \/ UNCHANGED <<serverEnd, backlog>>
    BY <1>2 DEF Client, ConnectRefused, SendHeader, SendPayload, ReceiveReply,
                ConnectionLost, GiveUp, Return, DeliverReset
<1> QED
    BY <1>1, <1>2 DEF Next, Server, BeginCall, LoadAndListen, LoadFails, Exit,
                      Quiescent, vars

LEMMA OrderStep == IInv /\ RefInv /\ [Next]_vars => OrderInv'
<1> SUFFICES ASSUME IInv, RefInv, [Next]_vars PROVE OrderInv'
    OBVIOUS
<1>a. TypeOK /\ QueueInv /\ ClientInv /\ SessionInv /\ IssueInv /\ OrderInv
    BY DEF IInv, SafeInv, RefInv
<1>1. ASSUME NEW k \in Call, Connect(k) PROVE OrderInv'
    <2>1. /\ serverEnd' = [serverEnd EXCEPT ![k] = "queued"]
          /\ backlog' = Append(backlog, k)
          /\ serverEnd[k] = "none"
        BY <1>a, <1>1 DEF Connect, ClientInv
    <2>2. /\ Len(backlog') = Len(backlog) + 1
          /\ backlog'[Len(backlog) + 1] = k
          /\ \A i \in DOMAIN backlog : i \in DOMAIN backlog' /\ backlog'[i] = backlog[i]
          /\ DOMAIN backlog' = 1 .. Len(backlog) + 1
          /\ DOMAIN backlog = 1 .. Len(backlog)
          /\ Len(backlog) \in Nat
        BY <1>a, <2>1 DEF TypeOK
    (* The client's calls that are queued or open are older.               *)
    <2>3. ASSUME NEW j \in Call, j[1] = k[1], serverEnd[j] \in {"queued", "open"}
          PROVE  j[2] < k[2]
        <3>1. j # k /\ phase[j] # "idle"
            BY <1>a, <2>1, <2>3 DEF ClientInv
        <3>2. ~(k[2] < j[2])
            BY <1>a, <1>1, <2>3, <3>1 DEF IssueInv, Connect
        <3>3. j[2] # k[2] /\ j[2] \in Nat /\ k[2] \in Nat
            BY <2>3, <3>1 DEF Call
        <3> QED
            BY <3>2, <3>3
    <2>4. \A i \in DOMAIN backlog :
              backlog[i] \in Call /\ serverEnd[backlog[i]] = "queued"
        BY <1>a DEF TypeOK, QueueInv
    <2>5. \A j \in Call : serverEnd'[j] = "queued" =>
              \E i \in DOMAIN backlog' : backlog'[i] = j
        <3> TAKE j \in Call
        <3> HAVE serverEnd'[j] = "queued"
        <3>1. CASE j = k
            BY <2>2, <3>1
        <3>2. CASE j # k
            <4>1. serverEnd[j] = "queued"
                BY <1>a, <2>1, <3>2 DEF TypeOK
            <4> QED
                BY <1>a, <2>2, <4>1 DEF OrderInv
        <3> QED
            BY <3>1, <3>2
    <2>6. \A i, j \in DOMAIN backlog' :
              i < j /\ backlog'[i][1] = backlog'[j][1] =>
                  backlog'[i][2] < backlog'[j][2]
        <3> TAKE i, j \in DOMAIN backlog'
        <3> HAVE i < j /\ backlog'[i][1] = backlog'[j][1]
        <3>1. i \in DOMAIN backlog
            BY <2>2
        <3>2. CASE j \in DOMAIN backlog
            BY <1>a, <2>2, <3>1, <3>2 DEF OrderInv
        <3>3. CASE j = Len(backlog) + 1
            BY <2>2, <2>3, <2>4, <3>1, <3>3
        <3> QED
            BY <2>2, <3>2, <3>3
    <2>7. \A i, j \in Call :
              serverEnd'[i] = "open" /\ serverEnd'[j] = "queued" /\ i[1] = j[1] =>
                  i[2] < j[2]
        BY <1>a, <2>1, <2>3 DEF OrderInv, TypeOK
    <2> QED
        BY <2>5, <2>6, <2>7 DEF OrderInv
<1>2. CASE Accept
    <2>1. /\ serverEnd' = [serverEnd EXCEPT ![Head(backlog)] = "open"]
          /\ backlog' = Tail(backlog)
          /\ backlog # <<>> /\ pc = "accept"
        BY <1>2 DEF Accept
    <2>2. /\ DOMAIN backlog = 1 .. Len(backlog) /\ Len(backlog) \in Nat \ {0}
          /\ DOMAIN backlog' = 1 .. Len(backlog) - 1
          /\ \A i \in DOMAIN backlog' : backlog'[i] = backlog[i + 1]
          /\ Head(backlog) = backlog[1] /\ backlog[1] \in Call
        BY <1>a, <2>1 DEF TypeOK
    <2>3. \A j \in Call : serverEnd'[j] = "queued" =>
              \E i \in DOMAIN backlog' : backlog'[i] = j
        <3> TAKE j \in Call
        <3> HAVE serverEnd'[j] = "queued"
        <3>1. j # backlog[1] /\ serverEnd[j] = "queued"
            BY <1>a, <2>1, <2>2 DEF TypeOK
        <3>2. PICK i \in DOMAIN backlog : backlog[i] = j
            BY <1>a, <3>1 DEF OrderInv
        <3>3. i - 1 \in DOMAIN backlog' /\ backlog'[i - 1] = j
            BY <2>2, <3>1, <3>2
        <3> QED
            BY <3>3
    <2>4. \A i, j \in DOMAIN backlog' :
              i < j /\ backlog'[i][1] = backlog'[j][1] =>
                  backlog'[i][2] < backlog'[j][2]
        <3> TAKE i, j \in DOMAIN backlog'
        <3>1. /\ i + 1 \in DOMAIN backlog /\ j + 1 \in DOMAIN backlog
              /\ backlog'[i] = backlog[i + 1] /\ backlog'[j] = backlog[j + 1]
              /\ i < j => i + 1 < j + 1
            BY <2>2
        <3> QED
            BY <1>a, <3>1 DEF OrderInv
    <2>5. \A i, j \in Call :
              serverEnd'[i] = "open" /\ serverEnd'[j] = "queued" /\ i[1] = j[1] =>
                  i[2] < j[2]
        <3> TAKE i, j \in Call
        <3> HAVE serverEnd'[i] = "open" /\ serverEnd'[j] = "queued" /\ i[1] = j[1]
        <3>1. serverEnd[i] # "open"
            BY <1>a, <2>1 DEF SessionInv, Serving
        <3>2. i = backlog[1] /\ j # backlog[1] /\ serverEnd[j] = "queued"
            BY <1>a, <2>1, <2>2, <3>1 DEF TypeOK
        <3>3. PICK n \in DOMAIN backlog : backlog[n] = j
            BY <1>a, <3>2 DEF OrderInv
        <3>4. 1 \in DOMAIN backlog /\ 1 < n
            BY <2>2, <3>2, <3>3
        <3> QED
            BY <1>a, <3>2, <3>3, <3>4 DEF OrderInv
    <2> QED
        BY <2>3, <2>4, <2>5 DEF OrderInv
<1>3. ASSUME NEW k \in Call, Close(k) PROVE OrderInv'
    BY <1>a, <1>3 DEF Close, OrderInv, TypeOK
<1>4. CASE CloseAll
    BY <1>4 DEF CloseAll, OrderInv
<1>5. CASE UNCHANGED <<serverEnd, backlog>>
    BY <1>a, <1>5 DEF OrderInv
<1> QED
    BY <1>a, <1>1, <1>2, <1>3, <1>4, <1>5, StepOfQueue

(* Answer is the only step that adds to what was executed or answered.     *)
Answers(k) ==
    /\ pc = "dispatch" /\ serverEnd[k] = "open" /\ pc' = "sendHeader"
    /\ UNCHANGED <<phase, request, inbox, serverEnd>>
    /\ \E s \in {"ok", "error"} :
          /\ status' = [status EXCEPT ![k] = s]
          /\ s = "ok" => request[k] \in {"health", "reset", "predict", "shutdown"}
    /\ IF request[k] \in {"predict", "reset"}
       THEN executed' = Append(executed, k)
       ELSE UNCHANGED executed

LEMMA StepOfPolicy ==
    ASSUME TypeOK, [Next]_vars
    PROVE  \/ \E k \in Call : Answers(k)
           \/ UNCHANGED <<status, executed>>
<1>1. ASSUME NEW k \in Call, Session(k)
      PROVE  Answers(k) \/ UNCHANGED <<status, executed>>
    <2>1. CASE HandleHealth(k) \/ HandleReset(k) \/ HandleShutdown(k)
               \/ HandlePredict(k) \/ HandleBadRequest(k)
        BY <2>1 DEF HandleHealth, HandleReset, HandleShutdown, HandlePredict,
                    HandleBadRequest, Answer, Answers, clientVars
    <2>2. CASE ReadHeader(k) \/ ReadPayload(k) \/ ReadFails(k) \/ Close(k)
               \/ SendReplyHeader(k) \/ SendReplyPayload(k) \/ SendFails(k)
               \/ KilledBySigPipe(k)
        BY <2>2 DEF ReadHeader, ReadPayload, ReadFails, Take, Close,
                    SendReplyHeader, SendReplyPayload, SendFails, KilledBySigPipe
    <2> QED
        BY <1>1, <2>1, <2>2 DEF Session
<1>2. ASSUME NEW k \in Call, Client(k) \/ GiveUp(k) \/ DeliverReset(k)
      PROVE  UNCHANGED <<status, executed>>
    BY <1>2 DEF Client, Connect, ConnectRefused, SendHeader, SendPayload,
                ReceiveReply, ConnectionLost, GiveUp, Return, DeliverReset
<1> QED
    BY <1>1, <1>2 DEF Next, Server, BeginCall, LoadAndListen, LoadFails, Accept,
                      Exit, Quiescent, vars

(* Each call's header is read once, and a call the policy can no longer be *)
(* run for stays so.                                                       *)
LEMMA HeaderStep ==
    IInv /\ RefInv /\ [Next]_vars =>
        HeaderInv' /\ \A k \in Call : CanRun(k)' => CanRun(k)
<1> DEFINE Goal == HeaderInv' /\ \A k \in Call : CanRun(k)' => CanRun(k)
<1> SUFFICES ASSUME IInv, RefInv, [Next]_vars PROVE Goal
    OBVIOUS
<1>a. TypeOK /\ ClientInv /\ SessionInv /\ HeaderInv
    BY DEF IInv, SafeInv, RefInv
<1> USE <1>a DEF TypeOK, HeaderInv, HeaderAhead, CanRun
<1>1. ASSUME NEW k \in Call, NEW r \in Asks[k[1]], BeginCall(k, r) PROVE Goal
    BY <1>1 DEF BeginCall, ClientInv
<1>2. ASSUME NEW k \in Call, Connect(k) PROVE Goal
    BY <1>2 DEF Connect, ClientInv
<1>3. ASSUME NEW k \in Call, NEW o, Return(k, o) PROVE Goal
    BY <1>3 DEF Return
<1>4. ASSUME NEW k \in Call, SendHeader(k) PROVE Goal
    BY <1>4 DEF SendHeader
<1>5. ASSUME NEW k \in Call, SendPayload(k) PROVE Goal
    BY <1>5 DEF SendPayload
<1>6. ASSUME NEW k \in Call, DeliverReset(k) PROVE Goal
    BY <1>6 DEF DeliverReset
<1>7. CASE LoadAndListen \/ LoadFails
    BY <1>7 DEF LoadAndListen, LoadFails, clientVars, SessionInv, Serving
<1>8. CASE Accept
    <2>1. Head(backlog) \in Call /\ serverEnd[Head(backlog)] = "queued"
        BY <1>8 DEF Accept, IInv, SafeInv, QueueInv
    <2> QED
        BY <1>8, <2>1 DEF Accept, clientVars
<1>9. CASE CloseAll /\ UNCHANGED <<clientVars, inbox>>
    BY <1>9 DEF CloseAll, clientVars
<1>10. ASSUME NEW k \in Call, ReadHeader(k) PROVE Goal
    BY <1>10 DEF ReadHeader, Take, clientVars, SessionInv
<1>11. ASSUME NEW k \in Call, ReadPayload(k) PROVE Goal
    BY <1>11 DEF ReadPayload, Take, clientVars, SessionInv
<1>12. ASSUME NEW k \in Call, ReadFails(k) PROVE Goal
    BY <1>12 DEF ReadFails, clientVars
<1>13. ASSUME NEW k \in Call, Answers(k) PROVE Goal
    BY <1>13 DEF Answers
<1>14. ASSUME NEW k \in Call, Close(k) PROVE Goal
    BY <1>14 DEF Close, clientVars, SessionInv
<1>15. ASSUME pc \in {"sendHeader", "sendPayload"},
              pc' \in {"read", "sendPayload", "close"},
              UNCHANGED <<clientVars, inbox, serverEnd>>
       PROVE  Goal
    BY <1>15 DEF clientVars
<1>16. ASSUME NEW k \in Call, Client(k) \/ GiveUp(k) PROVE Goal
    BY <1>2, <1>3, <1>4, <1>5, <1>16
    DEF Client, ConnectRefused, ReceiveReply, ConnectionLost, GiveUp
<1>17. ASSUME NEW k \in Call, Session(k) PROVE Goal
    <2>1. CASE HandleHealth(k) \/ HandleReset(k) \/ HandleShutdown(k)
               \/ HandlePredict(k) \/ HandleBadRequest(k)
        BY <1>13, <2>1 DEF HandleHealth, HandleReset, HandleShutdown,
                           HandlePredict, HandleBadRequest, Answer, Answers,
                           clientVars
    <2>2. CASE SendReplyHeader(k) \/ SendReplyPayload(k) \/ SendFails(k)
        BY <1>15, <2>2 DEF SendReplyHeader, SendReplyPayload, SendFails, AfterSend
    <2>3. CASE KilledBySigPipe(k)
        BY <1>9, <2>3 DEF KilledBySigPipe
    <2> QED
        BY <1>10, <1>11, <1>12, <1>14, <1>17, <2>1, <2>2, <2>3 DEF Session
<1>18. CASE UNCHANGED vars
    BY <1>18 DEF vars
<1> QED
    BY <1>1, <1>6, <1>7, <1>8, <1>9, <1>16, <1>17, <1>18
    DEF Next, Server, Exit, Quiescent

LEMMA OnceStep == IInv /\ RefInv /\ [Next]_vars => OnceInv'
<1> SUFFICES ASSUME IInv, RefInv, [Next]_vars PROVE OnceInv'
    OBVIOUS
<1>a. TypeOK /\ SessionInv /\ OrderInv /\ IssueInv /\ OnceInv
    BY DEF IInv, SafeInv, RefInv
<1>b. \A k \in Call : CanRun(k)' => CanRun(k)
    BY HeaderStep
<1>1. CASE UNCHANGED executed
    BY <1>a, <1>b, <1>1 DEF OnceInv
<1>2. ASSUME NEW k \in Call, Answers(k), executed' = Append(executed, k)
      PROVE  OnceInv'
    <2>1. \A i \in DOMAIN executed' :
              \/ i \in DOMAIN executed /\ executed'[i] = executed[i]
              \/ executed'[i] = k
        BY <1>a, <1>2 DEF TypeOK
    (* What can still run for k's client was issued after k.               *)
    <2>2. ASSUME NEW j \in Call, CanRun(j)', j[1] = k[1]
          PROVE  k[2] < j[2]
        <3>1. CASE serverEnd[j] = "queued"
            BY <1>a, <1>2, <2>2, <3>1 DEF OrderInv, Answers
        <3>2. CASE serverEnd[j] = "none" /\ phase[j] # "done"
            <4>1. phase[k] # "idle" /\ j # k
                BY <1>2, <3>2 DEF Answers, IInv, SafeInv, ClientInv
            <4>2. ~(j[2] < k[2])
                BY <1>a, <2>2, <3>2, <4>1 DEF IssueInv
            <4>3. j[2] # k[2] /\ j[2] \in Nat /\ k[2] \in Nat
                BY <2>2, <4>1 DEF Call
            <4> QED
                BY <4>2, <4>3
        <3> QED
            BY <1>2, <2>2, <3>1, <3>2 DEF CanRun, Answers
    <2>3. ASSUME NEW j \in Call, NEW i \in DOMAIN executed',
                 CanRun(j)', executed'[i][1] = j[1]
          PROVE  executed'[i][2] < j[2]
        <3>1. CASE executed'[i] = k
            BY <2>2, <2>3, <3>1
        <3>2. CASE i \in DOMAIN executed /\ executed'[i] = executed[i]
            BY <1>a, <1>b, <2>3, <3>2 DEF OnceInv
        <3> QED
            BY <2>1, <3>1, <3>2
    <2> QED
        BY <2>3 DEF OnceInv
<1> QED
    BY <1>a, <1>1, <1>2, StepOfPolicy DEF Answers

LEMMA StatusStep == IInv /\ RefInv /\ [Next]_vars => StatusInv'
<1> SUFFICES ASSUME IInv, RefInv, [Next]_vars PROVE StatusInv'
    OBVIOUS
<1>a. TypeOK /\ IssueInv /\ StatusInv
    BY DEF IInv, RefInv
<1>1. ASSUME UNCHANGED <<status, executed>>,
             \A k \in Call : request[k] # "none" => request'[k] = request[k]
      PROVE  StatusInv'
    BY <1>a, <1>1 DEF StatusInv, WasExecuted
<1>2. ASSUME NEW k \in Call, Answers(k) PROVE StatusInv'
    <2>1. \A i \in DOMAIN executed :
              i \in DOMAIN executed' /\ executed'[i] = executed[i]
        <3>1. executed \in Seq(Call)
            BY <1>a DEF TypeOK
        <3>2. executed' = executed \/ executed' = Append(executed, k)
            BY <1>2 DEF Answers
        <3> QED
            BY <3>1, <3>2
    <2>2. request[k] \in {"predict", "reset"} => WasExecuted(k)'
        <3>1. ASSUME executed' = Append(executed, k) PROVE WasExecuted(k)'
            <4>1. /\ Len(executed) + 1 \in DOMAIN executed'
                  /\ executed'[Len(executed) + 1] = k
                BY <1>a, <3>1 DEF TypeOK
            <4> QED
                BY <4>1 DEF WasExecuted
        <3> QED
            BY <1>2, <3>1 DEF Answers
    <2>3. \A j \in Call : WasExecuted(j) => WasExecuted(j)'
        BY <2>1 DEF WasExecuted
    <2>4. /\ \A j \in Call : j # k => status'[j] = status[j]
          /\ status'[k] = "ok" => request[k] \in {"health", "reset", "predict",
                                                 "shutdown"}
          /\ request' = request
        BY <1>a, <1>2 DEF Answers, TypeOK
    <2>5. ASSUME NEW j \in Call, status'[j] = "ok"
          PROVE  /\ request'[j] \in {"health", "reset", "predict", "shutdown"}
                 /\ request'[j] \in {"predict", "reset"} => WasExecuted(j)'
        BY <1>a, <2>2, <2>3, <2>4, <2>5 DEF StatusInv
    <2> QED
        BY <2>5 DEF StatusInv
<1>3. \A k \in Call : request[k] # "none" => request'[k] = request[k]
    <2>1. ASSUME NEW k \in Call, NEW r \in Asks[k[1]], BeginCall(k, r),
                 NEW j \in Call, request[j] # "none"
          PROVE  request'[j] = request[j]
        BY <1>a, <2>1 DEF BeginCall, IssueInv, TypeOK
    <2> QED
        BY <1>a, <2>1, StepOfClients DEF ClientAdvances, clientVars
<1> QED
    BY <1>a, <1>1, <1>2, <1>3, StepOfPolicy

LEMMA RefStep == IInv /\ RefInv /\ [Next]_vars => RefInv'
<1>1. IInv /\ RefInv => TypeOK /\ IssueInv
    BY DEF IInv, RefInv
<1> QED
    BY <1>1, IssueStep, OrderStep, HeaderStep, OnceStep, StatusStep DEF RefInv

---------------------------------------------------------------------------

(* How PolicyService sees the end of a call.                               *)
Ended == [k \in Call |-> CASE outcome[k] = "none" -> "no"
                           [] outcome[k] = "ok"   -> "ok"
                           [] OTHER               -> "failed"]

LEMMA ServiceInit == Init => Service!Init
<1> SUFFICES ASSUME Init PROVE Service!Init
    OBVIOUS
<1>1. Ended = [k \in Call |-> "no"]
    BY DEF Init, Ended
<1> QED
    BY <1>1 DEF Init, Ended, Call, Service!Init, Service!Call

(* A call ends once: its outcome is none until then.                       *)
LEMMA ReturnEnds ==
    ASSUME TypeOK, NEW k \in Call, NEW o \in Outcomes \ {"none"}, Return(k, o),
           outcome[k] = "none"
    PROVE  /\ Ended[k] = "no"
           /\ Ended' = [Ended EXCEPT ![k] = IF o = "ok" THEN "ok" ELSE "failed"]
<1>1. outcome' = [outcome EXCEPT ![k] = o]
    BY DEF Return
<1>2. \A j \in Call : Ended'[j] =
          [Ended EXCEPT ![k] = IF o = "ok" THEN "ok" ELSE "failed"][j]
    BY <1>1 DEF Ended, TypeOK
<1> QED
    BY <1>2 DEF Ended

(* Each step is one of the service's, or one it does not see.              *)
LEMMA ServiceStep ==
    IInv /\ RefInv /\ [Next]_vars => [Service!Next]_(Service!vars)
<1> SUFFICES ASSUME IInv, RefInv, [Next]_vars
             PROVE  [Service!Next]_(Service!vars)
    OBVIOUS
<1>a. TypeOK /\ ClientInv /\ IssueInv /\ OnceInv /\ StatusInv
    BY DEF IInv, SafeInv, RefInv
<1>b. Service!Call = Call
    BY DEF Service!Call, Call
<1>1. ASSUME NEW k \in Call, NEW r \in Asks[k[1]], BeginCall(k, r)
      PROVE  Service!Next
    <2>1. r \in RequestKinds /\ request[k] = "none"
        BY <1>a, <1>1, AsksAssumption, CallIsProduct DEF BeginCall, IssueInv
    <2>2. Service!Issue(k, r)
        BY <1>1, <2>1 DEF BeginCall, Service!Issue
    <2> QED
        BY <1>b, <2>1, <2>2 DEF Service!Next
<1>2. ASSUME NEW k \in Call, Answers(k), executed' = Append(executed, k),
             request[k] \in {"predict", "reset"}, UNCHANGED outcome
      PROVE  Service!Next
    <2>1. CanRun(k)
        BY <1>2 DEF Answers, CanRun
    <2>2. Service!Execute(k)
        BY <1>a, <1>2, <2>1 DEF Answers, OnceInv, Service!Execute
    <2> QED
        BY <1>b, <2>2 DEF Service!Next
<1>3. ASSUME NEW k \in Call, ReceiveReply(k), status[k] = "ok"
      PROVE  Service!Next
    <2>1. /\ Return(k, "ok") /\ outcome[k] = "none"
          /\ UNCHANGED <<request, executed>>
        BY <1>a, <1>3 DEF ReceiveReply, Return, ClientInv
    <2>2. /\ Ended[k] = "no"
          /\ Ended' = [Ended EXCEPT ![k] = "ok"]
        BY <1>a, <2>1, ReturnEnds DEF Outcomes
    <2>3. Service!EndOk(k)
        BY <1>a, <1>3, <2>1, <2>2
        DEF Ended, StatusInv, WasExecuted, Service!EndOk, Service!WasExecuted
    <2> QED
        BY <1>b, <2>3 DEF Service!Next
<1>4. ASSUME NEW k \in Call, NEW o \in Outcomes \ {"none", "ok"}, Return(k, o),
             phase[k] \notin {"idle", "done"}
      PROVE  Service!Next
    <2>1. /\ outcome[k] = "none" /\ request[k] # "none"
          /\ UNCHANGED <<request, executed>>
        BY <1>a, <1>4 DEF Return, ClientInv, IssueInv
    <2>2. /\ Ended[k] = "no"
          /\ Ended' = [Ended EXCEPT ![k] = "failed"]
        BY <1>a, <1>4, <2>1, ReturnEnds
    <2>3. Service!EndFailed(k)
        BY <2>1, <2>2 DEF Ended, Service!EndFailed
    <2> QED
        BY <1>b, <2>3 DEF Service!Next
<1>5. ASSUME UNCHANGED <<request, executed, outcome>>
      PROVE  UNCHANGED Service!vars
    BY <1>5 DEF Service!vars
<1>6. ASSUME NEW k \in Call, Client(k) \/ GiveUp(k)
      PROVE  Service!Next \/ UNCHANGED Service!vars
    <2>1. CASE ReceiveReply(k) /\ status[k] # "ok"
        BY <1>4, <2>1 DEF ReceiveReply, Outcomes
    <2>2. CASE ConnectRefused(k) \/ ConnectionLost(k) \/ GiveUp(k)
        BY <1>4, <2>2 DEF ConnectRefused, ConnectionLost, GiveUp, Outcomes
    <2>3. CASE Connect(k) \/ SendHeader(k) \/ SendPayload(k)
        BY <1>5, <2>3 DEF Connect, SendHeader, SendPayload
    <2> QED
        BY <1>3, <1>6, <2>1, <2>2, <2>3 DEF Client
<1>7. ASSUME UNCHANGED clientVars
      PROVE  Service!Next \/ UNCHANGED Service!vars
    <2>1. UNCHANGED <<request, outcome>>
        BY <1>7 DEF clientVars
    <2> QED
        BY <1>a, <1>2, <1>5, <2>1, StepOfPolicy DEF Answers
<1> QED
    BY <1>1, <1>6, <1>7, ServerLeavesClients DEF Next

(* The daemon, its sockets, sessions and listen queue implement a service  *)
(* that runs the policy at most once per call and in each client's order,  *)
(* and whose OK means that the policy was run (handle_client).             *)
THEOREM ServerImplementsService == Spec => ImplementsService
<1>1. []IInv /\ Spec => []RefInv
    BY RefInit, RefStep, PTL DEF Spec
<1> QED
    BY <1>1, Invariance, ServiceInit, ServiceStep, PTL
    DEF Spec, ImplementsService, Service!Spec
=============================================================================
