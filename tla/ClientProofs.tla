---------------------------- MODULE ClientProofs ----------------------------
(* Theorems about Client, for any set of calls and any environment. *)
EXTENDS Client, SequenceTheorems, TLAPS

-----------------------------------------------------------------------------
(* The effect of  *currptr = next  on the list: the request at index i is   *)
(* gone and the others keep their order.                                    *)
LEMMA RemoveAtProperties ==
    ASSUME NEW S, NEW s \in Seq(S), NEW i \in 1..Len(s)
    PROVE  /\ RemoveAt(s, i) \in Seq(S)
           /\ Len(RemoveAt(s, i)) = Len(s) - 1
           /\ \A j \in 1..(Len(s) - 1) :
                 RemoveAt(s, i)[j] = IF j < i THEN s[j] ELSE s[j + 1]
<1> DEFINE l == SubSeq(s, 1, i - 1)
           r == SubSeq(s, i + 1, Len(s))
<1>1. /\ l \in Seq(S)
      /\ Len(l) = i - 1
      /\ \A j \in 1..(i - 1) : l[j] = s[j]
  BY SubSeqProperties
<1>2. /\ r \in Seq(S)
      /\ Len(r) = Len(s) - i
      /\ \A j \in 1..(Len(s) - i) : r[j] = s[i + j]
  BY SubSeqProperties
<1> QED
  <2> HIDE DEF l, r
  <2>1. /\ l \o r \in Seq(S)
        /\ Len(l \o r) = Len(l) + Len(r)
        /\ \A j \in 1..(Len(l) + Len(r)) :
              (l \o r)[j] = IF j <= Len(l) THEN l[j] ELSE r[j - Len(l)]
    BY <1>1, <1>2, ConcatProperties
  <2>2. RemoveAt(s, i) = l \o r
    BY DEF RemoveAt, l, r
  <2> DEFINE m == l \o r
  <2>3. m \in Seq(S) /\ Len(m) = Len(s) - 1
    BY <1>1, <1>2, <2>1
  <2>4. ASSUME NEW j \in 1..(Len(s) - 1)
        PROVE  m[j] = IF j < i THEN s[j] ELSE s[j + 1]
    <3>1. m[j] = IF j <= Len(l) THEN l[j] ELSE r[j - Len(l)]
      BY <1>1, <1>2, <2>1
    <3> HIDE DEF m
    <3>2. CASE j < i
      BY <3>1, <3>2, <1>1
    <3>3. CASE ~(j < i)
      <4>1. j - (i - 1) \in 1..(Len(s) - i)
        BY <3>3
      <4> QED BY <3>1, <3>3, <4>1, <1>1, <1>2
    <3> QED BY <3>2, <3>3
  <2> QED
    BY <2>2, <2>3, <2>4

(* The effect of bw2_transact's push at the head of client->reqs. *)
LEMMA ConsProperties ==
    ASSUME NEW S, NEW s \in Seq(S), NEW e \in S
    PROVE  /\ Cons(e, s) \in Seq(S)
           /\ Len(Cons(e, s)) = Len(s) + 1
           /\ Cons(e, s)[1] = e
           /\ \A j \in 2..(Len(s) + 1) : Cons(e, s)[j] = s[j - 1]
  BY DEF Cons
-----------------------------------------------------------------------------
(* The next-state relation as a disjunction of the single actions. *)
LEMMA NextActions ==
    ASSUME [Next]_vars
    PROVE  \/ ConnectFail \/ ConnectSpawn \/ ConnectDone \/ Disconnect
           \/ AgentClose \/ EnterRead \/ ReadFrame \/ ReadFail \/ LockReqs
           \/ CloseSocket \/ Drain \/ DaemonExit \/ ScanSkip \/ ScanEnd
           \/ Dispatch \/ Unlink
           \/ \E c \in Calls : \/ GetSeqNo(c) \/ Enqueue(c) \/ Write(c)
                               \/ GiveUp(c) \/ Return(c) \/ UserFree(c)
                               \/ AgentRespond(c) \/ AgentResult(c)
           \/ UNCHANGED vars
  BY DEF Next, ConnectStep, DaemonStep, CallStep, Done

(* What the callbacks do to the reqctx keeps its types. *)
LEMMA DispatchTypes ==
    ASSUME TypeOK, Dispatch, ~Undefined
    PROVE  TypeCtx' /\ dstop' \in {"true", "false", "rv"}
<1> DEFINE c == reqs[pos]
<1>1. c \in Calls /\ dframe \in Frames
  BY DEF TypeOK, TypeCalls, TypeDaemon, Dispatch, AtRequest
<1>2. dframe.body \in Calls \X Nat /\ dframe.final \in BOOLEAN
  BY <1>1 DEF Frames
<1>3. frameMustResponse(dframe) \in Codes /\ MISSING_HEADER \in Codes /\ 0 \in Codes
  BY DEF frameMustResponse, Codes
<1>4. \/ OneShotCallback(c, dframe)
      \/ StreamResponse(c, dframe)
      \/ StreamDeliver(c, dframe)
  BY DEF Dispatch
<1> HIDE DEF c
<1>5. CASE OneShotCallback(c, dframe)
  BY <1>1, <1>3, <1>5 DEF TypeOK, TypeCtx, OneShotCallback
<1>6. CASE StreamResponse(c, dframe)
  BY <1>1, <1>3, <1>6 DEF TypeOK, TypeCtx, StreamResponse
<1>7. CASE StreamDeliver(c, dframe)
  <2>1. delivered' \in [Calls -> Seq(Calls \X Nat)]
    <3>1. Append(delivered[c], dframe.body) \in Seq(Calls \X Nat)
      BY <1>1, <1>2 DEF TypeOK, TypeCtx
    <3> QED BY <1>1, <1>7, <3>1 DEF TypeOK, TypeCtx, StreamDeliver
  <2>3. dstop' \in {"true", "false", "rv"}
    BY <1>7 DEF StreamDeliver
  <2>2. told' \in [Calls -> BOOLEAN]
    BY <1>1, <1>2, <1>7 DEF TypeOK, TypeCtx, StreamDeliver
  <2> QED BY <1>1, <1>3, <1>7, <2>1, <2>2, <2>3 DEF TypeOK, TypeCtx, StreamDeliver
<1> QED BY <1>4, <1>5, <1>6, <1>7

(* Type correctness: every step of every thread keeps the client's state   *)
(* within its types and the cursor of bw2_daemon inside client->reqs.      *)
LEMMA TypeStep == TypeOK /\ [Next]_vars => TypeOK'
<1> SUFFICES ASSUME TypeOK, [Next]_vars PROVE TypeOK'
  OBVIOUS
<1>1. CASE ConnectFail
  <2>1. TypeAgent' /\ TypeCalls' /\ TypeCtx' /\ TypeDaemon'
    BY <1>1 DEF TypeOK, TypeAgent, TypeCalls, TypeCtx, TypeDaemon, ConnectFail, agentVars, callVars, ctxVars, daemonVars
  <2>2. TypeConn'
    BY <1>1 DEF TypeOK, TypeConn, ConnectFail, connVars
  <2> QED BY <2>1, <2>2 DEF TypeOK
<1>2. CASE ConnectSpawn
  <2>1. TypeAgent' /\ TypeCalls' /\ TypeCtx'
    BY <1>2 DEF TypeOK, TypeAgent, TypeCalls, TypeCtx, ConnectSpawn, agentVars, callVars, ctxVars
  <2>2. TypeConn'
    BY <1>2 DEF TypeOK, TypeConn, ConnectSpawn, connVars
  <2>3. TypeDaemon'
    BY <1>2 DEF TypeOK, TypeDaemon, ConnectSpawn, daemonVars
  <2> QED BY <2>1, <2>2, <2>3 DEF TypeOK
<1>3. CASE ConnectDone
  <2>1. TypeAgent' /\ TypeCalls' /\ TypeCtx' /\ TypeDaemon'
    BY <1>3 DEF TypeOK, TypeAgent, TypeCalls, TypeCtx, TypeDaemon, ConnectDone, agentVars, callVars, ctxVars, daemonVars
  <2>2. TypeConn'
    BY <1>3 DEF TypeOK, TypeConn, ConnectDone, connVars
  <2> QED BY <2>1, <2>2 DEF TypeOK
<1>4. CASE Disconnect
  <2>1. TypeAgent' /\ TypeCalls' /\ TypeCtx' /\ TypeDaemon'
    BY <1>4 DEF TypeOK, TypeAgent, TypeCalls, TypeCtx, TypeDaemon, Disconnect, agentVars, callVars, ctxVars, daemonVars
  <2>2. TypeConn'
    <3>1. closes' \in Nat
      BY <1>4 DEF TypeOK, TypeConn, Disconnect
    <3>2. connected' \in BOOLEAN /\ conn' \in {"start", "spawned", "up", "failed"}
      BY <1>4, Zenon DEF TypeOK, TypeConn, Disconnect
    <3> QED BY <3>1, <3>2 DEF TypeConn
  <2> QED BY <2>1, <2>2 DEF TypeOK
<1>5. CASE AgentClose
  <2>1. TypeConn' /\ TypeCalls' /\ TypeCtx' /\ TypeDaemon'
    BY <1>5 DEF TypeOK, TypeConn, TypeCalls, TypeCtx, TypeDaemon, AgentClose, connVars, callVars, ctxVars, daemonVars
  <2>2. TypeAgent'
    BY <1>5 DEF TypeOK, TypeAgent, AgentClose, agentVars
  <2> QED BY <2>1, <2>2 DEF TypeOK
<1>6. CASE EnterRead
  <2>1. TypeConn' /\ TypeAgent' /\ TypeCalls' /\ TypeCtx'
    BY <1>6 DEF TypeOK, TypeConn, TypeAgent, TypeCalls, TypeCtx, EnterRead, ReadFailed, connVars, agentVars, callVars, ctxVars
  <2>2. TypeDaemon'
    BY <1>6 DEF TypeOK, TypeDaemon, EnterRead, ReadFailed, daemonVars
  <2> QED BY <2>1, <2>2 DEF TypeOK
<1>7. CASE ReadFrame
  <2>1. TypeConn' /\ TypeCalls' /\ TypeCtx'
    BY <1>7 DEF TypeOK, TypeConn, TypeCalls, TypeCtx, ReadFrame, connVars, callVars, ctxVars
  <2>2. TypeAgent'
    BY <1>7 DEF TypeOK, TypeAgent, ReadFrame, agentVars
  <2>3. TypeDaemon'
    BY <1>7 DEF TypeOK, TypeDaemon, TypeAgent, ReadFrame, daemonVars
  <2> QED BY <2>1, <2>2, <2>3 DEF TypeOK
<1>8. CASE ReadFail
  <2>1. TypeConn' /\ TypeAgent' /\ TypeCalls' /\ TypeCtx'
    BY <1>8 DEF TypeOK, TypeConn, TypeAgent, TypeCalls, TypeCtx, ReadFail, ReadFailed, connVars, agentVars, callVars, ctxVars
  <2>2. TypeDaemon'
    BY <1>8 DEF TypeOK, TypeDaemon, ReadFail, ReadFailed, daemonVars
  <2> QED BY <2>1, <2>2 DEF TypeOK
<1>9. CASE LockReqs
  <2>1. TypeConn' /\ TypeAgent' /\ TypeCalls' /\ TypeCtx'
    BY <1>9 DEF TypeOK, TypeConn, TypeAgent, TypeCalls, TypeCtx, LockReqs, connVars, agentVars, callVars, ctxVars
  <2>2. TypeDaemon'
    BY <1>9 DEF TypeOK, TypeDaemon, LockReqs, daemonVars
  <2> QED BY <2>1, <2>2 DEF TypeOK
<1>10. CASE CloseSocket
  <2>1. TypeAgent' /\ TypeCalls' /\ TypeCtx'
    BY <1>10 DEF TypeOK, TypeAgent, TypeCalls, TypeCtx, CloseSocket, agentVars, callVars, ctxVars
  <2>2. TypeConn'
    <3>1. closes' \in Nat
      BY <1>10 DEF TypeOK, TypeConn, CloseSocket
    <3>2. connected' \in BOOLEAN /\ conn' \in {"start", "spawned", "up", "failed"}
      BY <1>10, Zenon DEF TypeOK, TypeConn, CloseSocket
    <3> QED BY <3>1, <3>2 DEF TypeConn
  <2>3. TypeDaemon'
    BY <1>10 DEF TypeOK, TypeDaemon, CloseSocket, daemonVars
  <2> QED BY <2>1, <2>2, <2>3 DEF TypeOK
<1>11. CASE Drain
  <2>1. TypeConn' /\ TypeAgent' /\ TypeCalls'
    BY <1>11 DEF TypeOK, TypeConn, TypeAgent, TypeCalls, Drain, Undefined, connVars, agentVars, callVars
  <2>2. TypeCtx'
    BY <1>11 DEF TypeOK, TypeCalls, TypeCtx, Codes, Drain, Undefined, ctxVars
  <2>3. TypeDaemon'
    BY <1>11 DEF TypeOK, TypeDaemon, TypeCalls, Drain, Undefined, daemonVars
  <2> QED BY <2>1, <2>2, <2>3 DEF TypeOK
<1>12. CASE DaemonExit
  <2>1. TypeConn' /\ TypeAgent' /\ TypeCalls' /\ TypeCtx'
    BY <1>12 DEF TypeOK, TypeConn, TypeAgent, TypeCalls, TypeCtx, DaemonExit, connVars, agentVars, callVars, ctxVars
  <2>2. TypeDaemon'
    BY <1>12 DEF TypeOK, TypeDaemon, DaemonExit, daemonVars
  <2> QED BY <2>1, <2>2 DEF TypeOK
<1>13. CASE ScanSkip
  <2>1. TypeConn' /\ TypeAgent' /\ TypeCalls' /\ TypeCtx'
    BY <1>13 DEF TypeOK, TypeConn, TypeAgent, TypeCalls, TypeCtx, ScanSkip, Undefined, AtRequest, connVars, agentVars, callVars, ctxVars
  <2>2. TypeDaemon'
    BY <1>13 DEF TypeOK, TypeDaemon, ScanSkip, Undefined, AtRequest, daemonVars
  <2> QED BY <2>1, <2>2 DEF TypeOK
<1>14. CASE ScanEnd
  <2>1. TypeConn' /\ TypeAgent' /\ TypeCalls' /\ TypeCtx'
    BY <1>14 DEF TypeOK, TypeConn, TypeAgent, TypeCalls, TypeCtx, ScanEnd, connVars, agentVars, callVars, ctxVars
  <2>2. TypeDaemon'
    BY <1>14 DEF TypeOK, TypeDaemon, ScanEnd, daemonVars
  <2> QED BY <2>1, <2>2 DEF TypeOK
<1>15. CASE Dispatch
  <2>1. TypeConn' /\ TypeAgent' /\ TypeCalls'
    BY <1>15 DEF TypeOK, TypeConn, TypeAgent, TypeCalls, Dispatch, Undefined, connVars, agentVars, callVars
  <2>2. TypeCtx'
    <3>1. CASE Undefined
      BY <3>1 DEF TypeOK, TypeCtx, Undefined, ctxVars
    <3>2. CASE ~Undefined
      BY <1>15, <3>2, DispatchTypes DEF Dispatch
    <3> QED BY <3>1, <3>2
  <2>3. TypeDaemon'
    <3>1. CASE Undefined
      BY <3>1 DEF TypeOK, TypeDaemon, Undefined
    <3>2. CASE ~Undefined
      BY <1>15, <3>2, DispatchTypes DEF TypeOK, TypeDaemon, Dispatch, AtRequest
    <3> QED BY <3>1, <3>2
  <2> QED BY <2>1, <2>2, <2>3 DEF TypeOK
<1>16. CASE Unlink
  <2>1. TypeConn' /\ TypeAgent' /\ TypeCtx'
    BY <1>16 DEF TypeOK, TypeConn, TypeAgent, TypeCtx, Unlink, Undefined, connVars, agentVars, ctxVars
  <2>2. TypeCalls'
    <3>1. pos \in 1..Len(reqs) /\ reqs \in Seq(Calls)
      BY <1>16 DEF TypeOK, TypeCalls, TypeDaemon, Unlink
    <3>2. RemoveAt(reqs, pos) \in Seq(Calls)
      BY <3>1, RemoveAtProperties
    <3> QED BY <1>16, <3>2 DEF TypeOK, TypeCalls, Unlink, Undefined, callVars
  <2>3. TypeDaemon'
    BY <1>16 DEF TypeOK, TypeDaemon, Unlink, Undefined, daemonVars
  <2> QED BY <2>1, <2>2, <2>3 DEF TypeOK
<1>17. ASSUME NEW c \in Calls, GetSeqNo(c) PROVE TypeOK'
  <2>1. TypeConn' /\ TypeAgent' /\ TypeCtx' /\ TypeDaemon'
    BY <1>17 DEF TypeOK, TypeConn, TypeAgent, TypeCtx, TypeDaemon, GetSeqNo, connVars, agentVars, ctxVars, daemonVars
  <2>2. TypeCalls'
    <3>1. NextSeqNo(curseqno) \in 0..(SeqSpace - 1)
      BY ClientAssumption DEF TypeOK, TypeCalls, NextSeqNo
    <3> QED BY <1>17, <3>1 DEF TypeOK, TypeCalls, Codes, GetSeqNo
  <2> QED BY <2>1, <2>2 DEF TypeOK
<1>18. ASSUME NEW c \in Calls, Enqueue(c) PROVE TypeOK'
  <2>1. TypeConn' /\ TypeAgent' /\ TypeCtx'
    BY <1>18 DEF TypeOK, TypeConn, TypeAgent, TypeCtx, Enqueue, ReqsLocked, connVars, agentVars, ctxVars
  <2>2. TypeCalls'
    <3>1. Cons(c, reqs) \in Seq(Calls)
      BY ConsProperties DEF TypeOK, TypeCalls
    <3>2. reqs' \in Seq(Calls)
      BY <1>18, <3>1 DEF TypeOK, TypeCalls, Enqueue
    <3> QED BY <1>18, <3>2 DEF TypeOK, TypeCalls, Enqueue
  <2>3. TypeDaemon'
    BY <1>18 DEF TypeOK, TypeDaemon, Enqueue, ReqsLocked, daemonVars
  <2> QED BY <2>1, <2>2, <2>3 DEF TypeOK
<1>19. ASSUME NEW c \in Calls, Write(c) PROVE TypeOK'
  <2>1. TypeCtx' /\ TypeDaemon'
    BY <1>19 DEF TypeOK, TypeCtx, TypeDaemon, Write, WriteOk, WriteLost, WriteSwallowed, ctxVars, daemonVars
  <2>2. TypeConn'
    <3>1. closes' \in Nat
      BY <1>19 DEF TypeOK, TypeConn, Write, WriteOk, WriteLost, WriteSwallowed
    <3>2. connected' \in BOOLEAN /\ conn' \in {"start", "spawned", "up", "failed"}
      BY <1>19, Zenon DEF TypeOK, TypeConn, Write, WriteOk, WriteLost, WriteSwallowed
    <3> QED BY <3>1, <3>2 DEF TypeConn
  <2>3. TypeAgent'
    BY <1>19 DEF TypeOK, TypeAgent, Write, WriteOk, WriteLost, WriteSwallowed, agentVars
  <2>4. TypeCalls'
    BY <1>19 DEF TypeOK, TypeCalls, Write, WriteOk, WriteLost, WriteSwallowed, callVars
  <2> QED BY <2>1, <2>2, <2>3, <2>4 DEF TypeOK
<1>20. ASSUME NEW c \in Calls, GiveUp(c) PROVE TypeOK'
  <2>1. TypeConn' /\ TypeAgent' /\ TypeCtx' /\ TypeDaemon'
    BY <1>20 DEF TypeOK, TypeConn, TypeAgent, TypeCtx, TypeDaemon, GiveUp, ReturnWith, connVars, agentVars, ctxVars, daemonVars
  <2>2. TypeCalls'
    <3>1. ReadRv(c) \subseteq Codes /\ CONNECTION_LOST \in Codes
      BY DEF TypeOK, TypeCtx, ReadRv, Codes
    <3> QED BY <1>20, <3>1 DEF TypeOK, TypeCalls, GiveUp, ReturnWith
  <2> QED BY <2>1, <2>2 DEF TypeOK
<1>21. ASSUME NEW c \in Calls, Return(c) PROVE TypeOK'
  <2>1. TypeConn' /\ TypeAgent' /\ TypeCtx'
    BY <1>21 DEF TypeOK, TypeConn, TypeAgent, TypeCtx, Return, ReturnWith, Undefined, connVars, agentVars, ctxVars
  <2>2. TypeCalls'
    <3>1. ReadRv(c) \subseteq Codes
      BY DEF TypeOK, TypeCtx, ReadRv, Codes
    <3> QED BY <1>21, <3>1 DEF TypeOK, TypeCalls, Return, ReturnWith, Undefined, callVars
  <2>3. TypeDaemon'
    BY <1>21 DEF TypeOK, TypeDaemon, Return, ReturnWith, Undefined, daemonVars
  <2> QED BY <2>1, <2>2, <2>3 DEF TypeOK
<1>22. ASSUME NEW c \in Calls, UserFree(c) PROVE TypeOK'
  <2>1. TypeConn' /\ TypeAgent' /\ TypeCtx' /\ TypeDaemon'
    BY <1>22 DEF TypeOK, TypeConn, TypeAgent, TypeCtx, TypeDaemon, UserFree, connVars, agentVars, ctxVars, daemonVars
  <2>2. TypeCalls'
    BY <1>22 DEF TypeOK, TypeCalls, UserFree, callVars
  <2> QED BY <2>1, <2>2 DEF TypeOK
<1>23. ASSUME NEW c \in Calls, AgentRespond(c) PROVE TypeOK'
  <2>1. TypeConn' /\ TypeCalls' /\ TypeCtx' /\ TypeDaemon'
    BY <1>23 DEF TypeOK, TypeConn, TypeCalls, TypeCtx, TypeDaemon, AgentRespond, connVars, callVars, ctxVars, daemonVars
  <2>2. TypeAgent'
    <3>1. PICK r \in Replies :
            Send(c, r, FALSE, 0) /\ answer' = [answer EXCEPT ![c] = r]
      BY <1>23 DEF AgentRespond
    <3>2. wire' \in Seq(Frames)
      BY <3>1 DEF TypeOK, TypeAgent, TypeCalls, Send, Frames
    <3> QED BY <1>23, <3>1, <3>2 DEF TypeOK, TypeAgent, AgentRespond
  <2> QED BY <2>1, <2>2 DEF TypeOK
<1>24. ASSUME NEW c \in Calls, AgentResult(c) PROVE TypeOK'
  <2>1. TypeConn' /\ TypeCalls' /\ TypeCtx' /\ TypeDaemon'
    BY <1>24 DEF TypeOK, TypeConn, TypeCalls, TypeCtx, TypeDaemon, AgentResult, connVars, callVars, ctxVars, daemonVars
  <2>2. TypeAgent'
    <3>1. PICK final \in BOOLEAN :
            /\ Send(c, "result", final, sent[c] + 1)
            /\ sent' = [sent EXCEPT ![c] = IF final THEN MaxResults ELSE @ + 1]
      BY <1>24 DEF AgentResult
    <3>2. wire' \in Seq(Frames)
      BY <3>1 DEF TypeOK, TypeAgent, TypeCalls, Send, Frames
    <3>3. sent' \in [Calls -> Nat]
      BY <3>1, ClientAssumption DEF TypeOK, TypeAgent
    <3> QED BY <1>24, <3>2, <3>3 DEF TypeOK, TypeAgent, AgentResult
  <2> QED BY <2>1, <2>2 DEF TypeOK
<1>25. CASE UNCHANGED vars
  BY <1>25 DEF TypeOK, TypeConn, TypeAgent, TypeCalls, TypeCtx, TypeDaemon, vars
<1> QED
  BY NextActions, <1>1, <1>2, <1>3, <1>4, <1>5, <1>6, <1>7, <1>8, <1>9, <1>10, <1>11, <1>12, <1>13, <1>14, <1>15, <1>16, <1>17, <1>18, <1>19, <1>20, <1>21, <1>22, <1>23, <1>24, <1>25

(* bw2_clientInit establishes the types. *)
LEMMA TypeInit == Init => TypeOK
<1> SUFFICES ASSUME Init PROVE TypeOK
  OBVIOUS
<1>1. TypeConn
  BY DEF Init, TypeConn
<1>2. TypeAgent
  BY DEF Init, TypeAgent
<1>3. TypeCalls /\ TypeDaemon
  BY ClientAssumption DEF Init, TypeCalls, TypeDaemon, Codes
<1>4. TypeCtx
  BY DEF Init, TypeCtx, Codes
<1> QED BY <1>1, <1>2, <1>3, <1>4 DEF TypeOK

(* TypeOK is an invariant of the client, whatever the environment does.    *)
THEOREM TypeCorrect == Spec => []TypeOK
  BY TypeInit, TypeStep, PTL DEF Spec

-----------------------------------------------------------------------------
(* The connection.  No call is under way before bw2_connect has finished;   *)
(* from then on client->connected only falls.                               *)
BeforeUp ==
    conn \in {"start", "spawned"} =>
        /\ ~connected /\ closes = 0 /\ reqs = <<>>
        /\ \A c \in Calls : pc[c] = "idle" /\ rv[c] # CONNECTION_LOST

(* Whoever holds the news that the connection is lost, a call that saw      *)
(* bw2_transact fail or a reqctx that was drained, holds it after connected *)
(* was cleared.                                                             *)
LostNews ==
    /\ \A c \in Calls : pc[c] = "failed" => ~connected
    /\ \A c \in Calls : rv[c] = CONNECTION_LOST => ~connected
    /\ dpc = "drain" /\ connected => reqs = <<>>

ConnInv == TypeOK /\ ConnectedFdOpen /\ LostMeansDisconnected /\ BeforeUp /\ LostNews

(* No response code of the agent is mistaken for a lost connection. *)
LEMMA ResponseNotLost ==
    ASSUME NEW f PROVE frameMustResponse(f) # CONNECTION_LOST
  BY DEF frameMustResponse, UNEXPECTED_FRAME, MISSING_HEADER, RESPONSE_STATUS,
         CONNECTION_LOST

(* A callback that got a frame does not record a lost connection. *)
LEMMA DispatchRv ==
    ASSUME TypeOK, Dispatch, NEW c \in Calls, rv'[c] = CONNECTION_LOST
    PROVE  rv[c] = CONNECTION_LOST
<1>1. CASE Undefined
  BY <1>1 DEF Undefined, ctxVars
<1>2. CASE ~Undefined
  <2> DEFINE d == reqs[pos]
  <2>1. d \in Calls
    BY DEF TypeOK, TypeCalls, TypeDaemon, Dispatch, AtRequest
  <2>2. \/ OneShotCallback(d, dframe)
        \/ StreamResponse(d, dframe)
        \/ StreamDeliver(d, dframe)
    BY <1>2 DEF Dispatch
  <2>3. \E r \in {0, MISSING_HEADER, frameMustResponse(dframe)} :
            rv' = [rv EXCEPT ![d] = r]
    BY <2>2 DEF OneShotCallback, StreamResponse, StreamDeliver
  <2> HIDE DEF d
  <2>4. 0 # CONNECTION_LOST /\ MISSING_HEADER # CONNECTION_LOST
    BY DEF CONNECTION_LOST, MISSING_HEADER
  <2> QED BY <2>1, <2>3, <2>4, ResponseNotLost DEF TypeOK, TypeCtx
<1> QED BY <1>1, <1>2

LEMMA ConnStep == ConnInv /\ [Next]_vars => ConnInv'
<1> SUFFICES ASSUME ConnInv, [Next]_vars PROVE ConnInv'
  OBVIOUS
<1>0. TypeOK /\ TypeOK'
  BY TypeStep DEF ConnInv
<1> DEFINE Rest == ConnectedFdOpen /\ LostMeansDisconnected /\ BeforeUp /\ LostNews
<1>a. Rest
  BY DEF ConnInv
<1> SUFFICES Rest'
  BY <1>0 DEF ConnInv
<1>1. CASE ConnectFail
  BY <1>0, <1>a, <1>1 DEF TypeOK, TypeConn, TypeCalls, TypeCtx, ConnectedFdOpen, LostMeansDisconnected, BeforeUp, LostNews,
     ConnectFail, connVars, callVars, ctxVars, daemonVars
<1>2. CASE ConnectSpawn
  BY <1>0, <1>a, <1>2 DEF TypeOK, TypeConn, TypeCalls, TypeCtx, ConnectedFdOpen, LostMeansDisconnected, BeforeUp, LostNews,
     ConnectSpawn, connVars, callVars, ctxVars, daemonVars
<1>3. CASE ConnectDone
  BY <1>0, <1>a, <1>3 DEF TypeOK, TypeConn, TypeCalls, TypeCtx, ConnectedFdOpen, LostMeansDisconnected, BeforeUp, LostNews,
     ConnectDone, connVars, callVars, ctxVars, daemonVars
<1>4. CASE Disconnect
  BY <1>0, <1>a, <1>4 DEF TypeOK, TypeConn, TypeCalls, TypeCtx, ConnectedFdOpen, LostMeansDisconnected, BeforeUp, LostNews,
     Disconnect, connVars, callVars, ctxVars, daemonVars
<1>5. CASE AgentClose
  BY <1>0, <1>a, <1>5 DEF TypeOK, TypeConn, TypeCalls, TypeCtx, ConnectedFdOpen, LostMeansDisconnected, BeforeUp, LostNews,
     AgentClose, connVars, callVars, ctxVars, daemonVars
<1>6. CASE EnterRead
  BY <1>0, <1>a, <1>6 DEF TypeOK, TypeConn, TypeCalls, TypeCtx, ConnectedFdOpen, LostMeansDisconnected, BeforeUp, LostNews,
     EnterRead, ReadFailed, connVars, callVars, ctxVars, daemonVars
<1>7. CASE ReadFrame
  BY <1>0, <1>a, <1>7 DEF TypeOK, TypeConn, TypeCalls, TypeCtx, ConnectedFdOpen, LostMeansDisconnected, BeforeUp, LostNews,
     ReadFrame, connVars, callVars, ctxVars, daemonVars
<1>8. CASE ReadFail
  BY <1>0, <1>a, <1>8 DEF TypeOK, TypeConn, TypeCalls, TypeCtx, ConnectedFdOpen, LostMeansDisconnected, BeforeUp, LostNews,
     ReadFail, ReadFailed, connVars, callVars, ctxVars, daemonVars
<1>9. CASE LockReqs
  BY <1>0, <1>a, <1>9 DEF TypeOK, TypeConn, TypeCalls, TypeCtx, ConnectedFdOpen, LostMeansDisconnected, BeforeUp, LostNews,
     LockReqs, connVars, callVars, ctxVars, daemonVars
<1>10. CASE CloseSocket
  BY <1>0, <1>a, <1>10 DEF TypeOK, TypeConn, TypeCalls, TypeCtx, ConnectedFdOpen, LostMeansDisconnected, BeforeUp, LostNews,
     CloseSocket, connVars, callVars, ctxVars, daemonVars
<1>11. CASE Drain
  BY <1>0, <1>a, <1>11 DEF TypeOK, TypeConn, TypeCalls, TypeCtx, ConnectedFdOpen, LostMeansDisconnected, BeforeUp, LostNews,
     Drain, Undefined, connVars, callVars, ctxVars, daemonVars
<1>12. CASE DaemonExit
  BY <1>0, <1>a, <1>12 DEF TypeOK, TypeConn, TypeCalls, TypeCtx, ConnectedFdOpen, LostMeansDisconnected, BeforeUp, LostNews,
     DaemonExit, connVars, callVars, ctxVars, daemonVars
<1>13. CASE ScanSkip
  BY <1>0, <1>a, <1>13 DEF TypeOK, TypeConn, TypeCalls, TypeCtx, ConnectedFdOpen, LostMeansDisconnected, BeforeUp, LostNews,
     ScanSkip, Undefined, connVars, callVars, ctxVars, daemonVars
<1>14. CASE ScanEnd
  BY <1>0, <1>a, <1>14 DEF TypeOK, TypeConn, TypeCalls, TypeCtx, ConnectedFdOpen, LostMeansDisconnected, BeforeUp, LostNews,
     ScanEnd, connVars, callVars, ctxVars, daemonVars
<1>15. CASE Dispatch
  <2>1. UNCHANGED <<conn, connected, closes, reqs, pc, result>> /\ dpc' # "drain"
    BY <1>15 DEF Dispatch, Undefined, connVars, callVars
  <2> QED BY <1>0, <1>a, <1>15, <2>1, DispatchRv
       DEF ConnectedFdOpen, LostMeansDisconnected, BeforeUp, LostNews
<1>16. CASE Unlink
  <2>1. UNCHANGED <<conn, connected, closes, pc, result, rv>> /\ dpc' # "drain"
    BY <1>16 DEF Unlink, Undefined, connVars, callVars, ctxVars
  <2>2. reqs # <<>>
    BY <1>0, <1>16 DEF TypeOK, TypeCalls, TypeDaemon, Unlink
  <2> QED BY <1>a, <2>1, <2>2 DEF ConnectedFdOpen, LostMeansDisconnected, BeforeUp, LostNews
<1>17. ASSUME NEW c \in Calls, GetSeqNo(c) PROVE Rest'
  <2>1. UNCHANGED <<conn, connected, closes, reqs, rv, dpc>> /\ conn \in {"up", "failed"}
    BY <1>17 DEF GetSeqNo, connVars, ctxVars, daemonVars
  <2>2. \A d \in Calls : pc'[d] = "failed" => pc[d] = "failed"
    BY <1>0, <1>17 DEF TypeOK, TypeCalls, GetSeqNo
  <2>3. OPERATION_NOT_SUPPORTED # CONNECTION_LOST
    BY DEF OPERATION_NOT_SUPPORTED, CONNECTION_LOST
  <2>4. \A d \in Calls : pc'[d] = "returned" /\ result'[d] = CONNECTION_LOST
                           => pc[d] = "returned" /\ result[d] = CONNECTION_LOST
    BY <1>0, <1>17, <2>3 DEF TypeOK, TypeCalls, GetSeqNo
  <2> QED BY <1>a, <2>1, <2>2, <2>4 DEF ConnectedFdOpen, LostMeansDisconnected, BeforeUp, LostNews
<1>18. ASSUME NEW c \in Calls, Enqueue(c) PROVE Rest'
  BY <1>0, <1>a, <1>18 DEF TypeOK, TypeConn, TypeCalls, TypeCtx, ConnectedFdOpen, LostMeansDisconnected, BeforeUp, LostNews,
     Enqueue, ReqsLocked, connVars, callVars, ctxVars, daemonVars
<1>19. ASSUME NEW c \in Calls, Write(c) PROVE Rest'
  BY <1>0, <1>a, <1>19 DEF TypeOK, TypeConn, TypeCalls, TypeCtx, ConnectedFdOpen, LostMeansDisconnected, BeforeUp, LostNews,
     Write, WriteOk, WriteLost, WriteSwallowed, connVars, callVars, ctxVars, daemonVars
<1>20. ASSUME NEW c \in Calls, GiveUp(c) PROVE Rest'
  BY <1>0, <1>a, <1>20 DEF TypeOK, TypeConn, TypeCalls, TypeCtx, ConnectedFdOpen, LostMeansDisconnected, BeforeUp, LostNews,
     GiveUp, ReturnWith, connVars, callVars, ctxVars, daemonVars
<1>21. ASSUME NEW c \in Calls, Return(c) PROVE Rest'
  <2>1. CASE Undefined
    BY <1>a, <2>1 DEF ConnectedFdOpen, LostMeansDisconnected, BeforeUp, LostNews, Undefined, connVars, callVars, ctxVars, daemonVars
  <2>2. CASE ~Undefined
    <3>1. UNCHANGED <<conn, connected, closes, reqs, rv, dpc>>
      BY <1>21, <2>2 DEF Return, connVars, ctxVars, daemonVars
    <3>2. /\ pc' = [pc EXCEPT ![c] = "returned"]
          /\ \E r \in ReadRv(c) : result' = [result EXCEPT ![c] = r]
      BY <1>21, <2>2 DEF Return, ReturnWith
    <3>3. CONNECTION_LOST \in ReadRv(c) => rv[c] = CONNECTION_LOST
      BY DEF ReadRv, CONNECTION_LOST, Uninit
    <3>4. pc[c] = "wait"
      BY <1>21 DEF Return
    <3> QED BY <1>0, <1>a, <3>1, <3>2, <3>3, <3>4 DEF TypeOK, TypeCalls, ConnectedFdOpen, LostMeansDisconnected, BeforeUp, LostNews
  <2> QED BY <2>1, <2>2
<1>22. ASSUME NEW c \in Calls, UserFree(c) PROVE Rest'
  BY <1>0, <1>a, <1>22 DEF TypeOK, TypeConn, TypeCalls, TypeCtx, ConnectedFdOpen, LostMeansDisconnected, BeforeUp, LostNews,
     UserFree, connVars, callVars, ctxVars, daemonVars
<1>23. ASSUME NEW c \in Calls, AgentRespond(c) PROVE Rest'
  BY <1>0, <1>a, <1>23 DEF TypeOK, TypeConn, TypeCalls, TypeCtx, ConnectedFdOpen, LostMeansDisconnected, BeforeUp, LostNews,
     AgentRespond, connVars, callVars, ctxVars, daemonVars
<1>24. ASSUME NEW c \in Calls, AgentResult(c) PROVE Rest'
  BY <1>0, <1>a, <1>24 DEF TypeOK, TypeConn, TypeCalls, TypeCtx, ConnectedFdOpen, LostMeansDisconnected, BeforeUp, LostNews,
     AgentResult, connVars, callVars, ctxVars, daemonVars
<1>25. CASE UNCHANGED vars
  BY <1>a, <1>25 DEF ConnectedFdOpen, LostMeansDisconnected, BeforeUp, LostNews, vars
<1> QED
  BY NextActions, <1>1, <1>2, <1>3, <1>4, <1>5, <1>6, <1>7, <1>8, <1>9, <1>10, <1>11, <1>12, <1>13, <1>14, <1>15, <1>16, <1>17, <1>18, <1>19, <1>20, <1>21, <1>22, <1>23, <1>24, <1>25

(* ConnInv is inductive, whatever the environment does. *)
LEMMA ConnInvariant == Spec => []ConnInv
<1>1. Init => ConnInv
  <2> SUFFICES ASSUME Init PROVE ConnectedFdOpen /\ LostMeansDisconnected /\ BeforeUp /\ LostNews
    BY TypeInit DEF ConnInv
  <2>1. Uninit # CONNECTION_LOST
    BY DEF Uninit, CONNECTION_LOST
  <2> QED BY <2>1 DEF Init, ConnectedFdOpen, LostMeansDisconnected, BeforeUp, LostNews
<1> QED
  BY <1>1, ConnStep, PTL DEF Spec

(* While the client is marked connected its descriptor has not been closed. *)
THEOREM ConnectedDescriptorIsOpen == Spec => []ConnectedFdOpen
<1>1. ConnInv => ConnectedFdOpen
  BY DEF ConnInv
<1> QED
  BY <1>1, ConnInvariant, PTL

(* CONNECTION_LOST is returned only by a client that is disconnected for    *)
(* good.                                                                    *)
THEOREM LostIsTrue == Spec => []LostMeansDisconnected
<1>1. ConnInv => LostMeansDisconnected
  BY DEF ConnInv
<1> QED
  BY <1>1, ConnInvariant, PTL
=============================================================================
