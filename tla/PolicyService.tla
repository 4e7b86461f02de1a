--------------------------- MODULE PolicyService ---------------------------
(***************************************************************************)
(* What the model server promises its clients, without sockets, sessions   *)
(* or a listen queue: a call is issued, the policy is run for it at most   *)
(* once and, among the calls of one client, in the order the client made   *)
(* them, and a call that ends with an OK answer has really been carried    *)
(* out.  A call may also end without one, and then the client cannot know  *)
(* whether the policy ran.                                                 *)
(***************************************************************************)
EXTENDS Naturals, Sequences

CONSTANTS
    Clients,            \* client processes
    MaxCalls,           \* bound: calls one client makes
    Requests,           \* what a call may ask for
    PolicyRequests,     \* the requests that run the policy
    AnswerableRequests  \* the requests that may be answered with OK

VARIABLES
    request,        \* what each call asks for, "none" before it is issued
    executed,       \* the calls the policy was run for, in that order
    ended           \* how each call ended, as its client sees it

vars == <<request, executed, ended>>

Call == Clients \X (1 .. MaxCalls)

WasExecuted(k) == \E i \in DOMAIN executed : executed[i] = k

Init ==
    /\ request = [k \in Call |-> "none"]
    /\ executed = <<>>
    /\ ended = [k \in Call |-> "no"]

Issue(k, r) ==
    /\ request[k] = "none"
    /\ request' = [request EXCEPT ![k] = r]
    /\ UNCHANGED <<executed, ended>>

(* The policy runs at most once per call.  A call its client gave up on    *)
(* may still run, but never after a later call of that client has run.     *)
Execute(k) ==
    /\ request[k] \in PolicyRequests
    /\ \A i \in DOMAIN executed :
          executed[i][1] = k[1] => executed[i][2] < k[2]
    /\ executed' = Append(executed, k)
    /\ UNCHANGED <<request, ended>>

EndOk(k) ==
    /\ ended[k] = "no"
    /\ request[k] \in AnswerableRequests
    /\ request[k] \in PolicyRequests => WasExecuted(k)
    /\ ended' = [ended EXCEPT ![k] = "ok"]
    /\ UNCHANGED <<request, executed>>

EndFailed(k) ==
    /\ ended[k] = "no"
    /\ request[k] # "none"
    /\ ended' = [ended EXCEPT ![k] = "failed"]
    /\ UNCHANGED <<request, executed>>

Next == \E k \in Call :
    \/ \E r \in Requests : Issue(k, r)
    \/ Execute(k)
    \/ EndOk(k)
    \/ EndFailed(k)

Spec == Init /\ [][Next]_vars
=============================================================================
