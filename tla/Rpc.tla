-------------------------------- MODULE Rpc ---------------------------------
(* What the library promises the application on a connection that stays up: *)
(* a call blocks until its response is there and returns what it says; the  *)
(* results of a request that was accepted reach its user function one by    *)
(* one, in order, until the last of them or until the function declines.    *)
(* Threads, list, locks and sequence numbers do not appear.                 *)
EXTENDS Naturals, Sequences

CONSTANTS Calls, Replies

VARIABLES asked,   \* the calls that were made
          reply,   \* the agent's response to each, "none" before it
          status,  \* how each call returned, "none" before it
          got,     \* the results given to the user function of each
          closed   \* the calls whose user function gets nothing more

rpcVars == <<asked, reply, status, got, closed>>

Accepted(c) == reply[c] \in {"okay", "bare"}

RpcInit ==
    /\ asked = {} /\ closed = {}
    /\ reply = [c \in Calls |-> "none"]
    /\ status = [c \in Calls |-> "none"]
    /\ got = [c \in Calls |-> <<>>]

(* A call is made; the library may refuse it without asking the agent.      *)
Ask(c) ==
    /\ c \notin asked
    /\ asked' = asked \cup {c}
    /\ \/ UNCHANGED status
       \/ status' = [status EXCEPT ![c] = "refused"]
    /\ UNCHANGED <<reply, got, closed>>

Reply(c) ==
    /\ c \in asked /\ status[c] = "none" /\ reply[c] = "none"
    /\ \E r \in Replies : reply' = [reply EXCEPT ![c] = r]
    /\ UNCHANGED <<asked, status, got, closed>>

(* An okay that lacks what the call asked for may count as a failure.       *)
Return(c) ==
    /\ status[c] = "none" /\ reply[c] # "none"
    /\ \/ Accepted(c) /\ status' = [status EXCEPT ![c] = "ok"]
       \/ reply[c] # "okay" /\ status' = [status EXCEPT ![c] = "failed"]
    /\ UNCHANGED <<asked, reply, got, closed>>

Deliver(c) ==
    /\ Accepted(c) /\ c \notin closed
    /\ got' = [got EXCEPT ![c] = Append(@, <<c, Len(@) + 1>>)]
    /\ closed' \in {closed, closed \cup {c}}
    /\ UNCHANGED <<asked, reply, status>>

RpcNext == \E c \in Calls : Ask(c) \/ Reply(c) \/ Return(c) \/ Deliver(c)

RpcSafety == RpcInit /\ [][RpcNext]_rpcVars

RpcSpec ==
    /\ RpcSafety
    /\ \A c \in Calls : WF_rpcVars(Reply(c)) /\ WF_rpcVars(Return(c))
=============================================================================
