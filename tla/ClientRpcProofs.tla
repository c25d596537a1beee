-------------------------- MODULE ClientRpcProofs ---------------------------
(* On a connection that stays up the client implements Rpc: every call      *)
(* returns its own answer, and results come in order until the last.        *)
EXTENDS ClientOrderProofs

(* The connection comes up and stays up. *)
AlwaysUp == Reliable /\ "connectFail" \notin Env

(* A call has returned with its own answer, or was refused before it was    *)
(* sent.  What the response carries has been copied to the caller.          *)
ReturnRight ==
    /\ conn # "failed"
    /\ \A c \in Calls :
          /\ pc[c] = "returned" =>
                \/ ready[c] /\ answer[c] # "none" /\ result[c] = OwnAnswer(c)
                \/ result[c] = OPERATION_NOT_SUPPORTED /\ c \notin inbox
          /\ ready[c] /\ answer[c] = "okay" /\ HasOut(c) => out[c]

RpcInv == OrderInv /\ MemInv /\ ReturnRight

(* On a connection that stays up bw2_daemon does not shut down, and no call *)
(* sees bw2_transact fail.                                                  *)
LEMMA AlwaysServing ==
    ASSUME RpcInv, Running
    PROVE  Serving /\ \A c \in Calls : pc[c] # "failed"
  BY DEF RpcInv, OrderInv, ConnInv, MemInv, StaysUp, ReturnRight, Serving, Running, TypeOK, TypeDaemon

(* A call returns what its own callback wrote, and keeps it. *)
LEMMA ReturnStep ==
    ASSUME AlwaysUp, RpcInv, [Next]_vars
    PROVE  ReturnRight'
<1>0. TypeOK /\ Phases /\ RvRight /\ Numbered /\ FrameOrder /\ NoGap /\ StreamsLive
  BY DEF RpcInv, OrderInv, ConnInv
<1>1. conn' # "failed"
  <2>1. ~ConnectFail
    BY DEF AlwaysUp, ConnectFail
  <2> QED BY <2>1, NextActions DEF RpcInv, ReturnRight, ConnectSpawn, ConnectDone, Disconnect,
     AgentClose, EnterRead, ReadFrame, ReadFail, ReadFailed, LockReqs, CloseSocket, DaemonExit,
     Drain, Dispatch, Unlink, ScanSkip, ScanEnd, Undefined, connVars,
     GetSeqNo, Enqueue, Write, GiveUp, Return, UserFree, AgentRespond, AgentResult, vars
<1> SUFFICES ASSUME NEW c \in Calls
             PROVE  /\ pc'[c] = "returned" =>
                          \/ ready'[c] /\ answer'[c] # "none" /\ result'[c] = OwnAnswer(c)'
                          \/ result'[c] = OPERATION_NOT_SUPPORTED /\ c \notin inbox'
                    /\ ready'[c] /\ answer'[c] = "okay" /\ HasOut(c) => out'[c]
  BY <1>1 DEF ReturnRight, HasOut
<1>2. answer[c] # "none" => OwnAnswer(c)' = OwnAnswer(c) /\ answer'[c] = answer[c]
  BY <1>0, AgentCounts DEF OwnAnswer
<1>3. ready[c] => ready'[c]
  BY <1>0, CtxStep
<1>4. ASSUME pc'[c] = "returned"
      PROVE  \/ ready'[c] /\ answer'[c] # "none" /\ result'[c] = OwnAnswer(c)'
             \/ result'[c] = OPERATION_NOT_SUPPORTED /\ c \notin inbox'
  <2>1. CASE pc[c] = "returned"
    <3>1. result'[c] = result[c]
      BY <1>0, <2>1, CallFootprint DEF GetSeqNo, Enqueue, Write, GiveUp, Return, ReturnWith,
         Undefined, callVars, TypeOK, TypeCalls
    <3>2. c \in inbox' => c \in inbox
      BY <2>1, CallFootprint DEF GetSeqNo, Enqueue, Write, WriteOk, WriteLost, WriteSwallowed,
         GiveUp, Return, Undefined, agentVars
    <3> QED BY <1>2, <1>3, <2>1, <3>1, <3>2 DEF RpcInv, ReturnRight
  <2>2. CASE pc[c] # "returned"
    <3>1. ASSUME NEW d \in Calls,
                 GetSeqNo(d) \/ Enqueue(d) \/ Write(d) \/ GiveUp(d) \/ Return(d)
          PROVE  d = c
      BY <1>0, <1>4, <2>2, <3>1 DEF GetSeqNo, Enqueue, Write, WriteOk, WriteLost, WriteSwallowed,
         GiveUp, Return, ReturnWith, Undefined, callVars, TypeOK, TypeCalls
    <3>2. ~Enqueue(c) /\ ~Write(c)
      BY <1>0, <1>4 DEF Enqueue, Write, WriteOk, WriteLost, WriteSwallowed, TypeOK, TypeCalls
    <3>3. ~GiveUp(c)
      BY AlwaysServing DEF GiveUp
    <3>4. CASE GetSeqNo(c)
      <4>1. pc[c] = "idle" /\ inbox' = inbox /\ result'[c] = OPERATION_NOT_SUPPORTED
        BY <1>0, <1>4, <3>4 DEF GetSeqNo, agentVars, TypeOK, TypeCalls
      <4> QED BY <1>0, <4>1 DEF Phases
    <3>5. CASE Return(c)
      <4>1. ~Undefined
        BY <1>4, <2>2 DEF Undefined, callVars
      <4>2. ready[c] /\ result'[c] = rv[c] /\ Serving
        BY <1>0, <3>5, <4>1, ReturnsRv, AlwaysServing DEF Return, TypeOK, TypeCalls
      <4> QED BY <1>0, <1>2, <1>3, <4>2 DEF RvRight
    <3> QED BY <1>4, <2>2, <3>1, <3>2, <3>3, <3>4, <3>5, CallFootprint
  <2> QED BY <2>1, <2>2
<1>5. ASSUME ready'[c], answer'[c] = "okay", HasOut(c) PROVE out'[c]
  <2>1. ~Drain
    BY AlwaysServing DEF Drain, Serving
  <2>2. CASE UNCHANGED ctxVars
    <3>1. ready[c] /\ UNCHANGED out
      BY <1>5, <2>2 DEF ctxVars
    <3>2. ASSUME NEW d \in Calls, AgentRespond(d) PROVE d # c
      BY <1>0, <3>1, <3>2, AlwaysServing DEF AgentRespond, RvRight
    <3>3. answer[c] = "okay"
      BY <1>0, <1>5, <3>2, WireFootprint DEF AgentRespond, AgentResult, AgentClose, ReadFrame,
         agentVars, TypeOK, TypeAgent
    <3> QED BY <1>5, <3>1, <3>3 DEF RpcInv, ReturnRight
  <2>3. CASE Dispatch /\ ~Undefined
    <3>1. CASE c # reqs[pos]
      <4>1. ready'[c] = ready[c] /\ answer' = answer
        BY <1>0, <2>3, <3>1, DispatchEffect DEF TypeOK, TypeCtx
      <4>2. out'[c] = out[c]
        BY <1>0, <2>3, <3>1, CallbackFinds DEF OneShotCallback, StreamResponse, StreamDeliver,
           TypeOK, TypeCtx
      <4> QED BY <1>5, <4>1, <4>2 DEF RpcInv, ReturnRight
    <3>2. CASE c = reqs[pos]
      <4>1. answer' = answer
        BY <1>0, <2>3, DispatchEffect
      <4>2. CASE ready[c]
        <5>1. out' = out
          BY <1>0, <2>3, <3>2, <4>2, CallbackFinds DEF OneShotCallback, StreamResponse, StreamDeliver
        <5> QED BY <1>5, <4>1, <4>2, <5>1 DEF RpcInv, ReturnRight
      <4>3. CASE ~ready[c]
        <5>1. dframe.reply = "okay"
          BY <1>0, <1>5, <2>3, <3>2, <4>1, <4>3, CallbackFinds DEF Base, Genuine
        <5> QED BY <1>0, <1>5, <2>3, <3>2, <4>3, <5>1, CallbackFinds
                DEF OneShotCallback, StreamResponse, StreamDeliver, TypeOK, TypeCtx
      <4> QED BY <4>2, <4>3
    <3> QED BY <3>1, <3>2
  <2> QED BY <2>1, <2>2, <2>3, CtxFootprint DEF Undefined
<1> QED BY <1>4, <1>5

(* RpcInv holds in every reachable state of a connection that stays up. *)
LEMMA RpcInvariant == ASSUME AlwaysUp, NumbersSuffice PROVE Spec => []RpcInv
<1>1. Init => ReturnRight
  BY DEF Init, ReturnRight
<1>2. RpcInv /\ [Next]_vars => ReturnRight'
  BY ReturnStep
<1>3. Reliable
  BY DEF AlwaysUp
<1>4. Spec => []OrderInv /\ [](TypeOK /\ MemInv)
  BY <1>3, OrderInvariant, MemInvariant, PTL
<1>5. OrderInv /\ (TypeOK /\ MemInv) /\ ReturnRight => RpcInv
  BY DEF RpcInv
<1> QED BY <1>1, <1>2, <1>4, <1>5, PTL DEF Spec

(* On a connection that stays up, every call returns the status that the    *)
(* agent gave to that very call, and a handle that was asked for is filled. *)
THEOREM EveryCallGetsItsAnswer ==
    ASSUME AlwaysUp, NumbersSuffice PROVE Spec => []ReturnsOwnAnswer
<1>1. RpcInv => ReturnsOwnAnswer
  <2> SUFFICES ASSUME RpcInv, NEW c \in Calls, pc[c] = "returned",
                      result[c] # OPERATION_NOT_SUPPORTED
               PROVE  /\ result[c] = OwnAnswer(c)
                      /\ result[c] = 0 /\ Kind[c] = "subscribeHandle" => out[c]
    BY DEF ReturnsOwnAnswer
  <2>1. ready[c] /\ answer[c] # "none" /\ result[c] = OwnAnswer(c)
    BY DEF RpcInv, ReturnRight
  <2>2. ASSUME result[c] = 0, Kind[c] = "subscribeHandle" PROVE out[c]
    <3>1. HasOut(c)
      BY <2>2, HandleCalls
    <3>2. answer[c] = "okay"
      BY <2>1, <2>2, OwnAnswerValues DEF RpcInv, OrderInv, ConnInv, OwnAnswer, MISSING_HEADER
    <3> QED BY <2>1, <3>1, <3>2 DEF RpcInv, ReturnRight
  <2> QED BY <2>1, <2>2
<1> QED BY <1>1, RpcInvariant, PTL

-----------------------------------------------------------------------------
(* On a connection that stays up the client does what Rpc says: every step  *)
(* of the calls, bw2_daemon and the agent is a step of Rpc or changes       *)
(* nothing that Rpc knows of.                                               *)
THEOREM RefinesRpc == ASSUME AlwaysUp, NumbersSuffice PROVE Spec => Service!RpcSafety
<1> DEFINE closed == {c \in Calls : told[c]}
           status == [c \in Calls |-> Status(c)]
<1>1. Init => Service!RpcInit
  BY DEF Init, Service!RpcInit, Status
<1>2. RpcInv /\ [Next]_vars => [Service!RpcNext]_(Service!rpcVars)
  <2> SUFFICES ASSUME RpcInv, [Next]_vars
               PROVE  [Service!RpcNext]_(Service!rpcVars)
    OBVIOUS
  <2>0. TypeOK /\ Phases /\ RvRight /\ Numbered /\ FrameOrder /\ NoGap /\ StreamsLive /\ MemInv
    BY DEF RpcInv, OrderInv, ConnInv
  <2> USE DEF Service!RpcNext, Service!rpcVars
  <2>1. CASE UNCHANGED <<pc, result, answer, delivered, told>>
    BY <2>1 DEF Status
  <2>2. ASSUME NEW c \in Calls, GetSeqNo(c) PROVE Service!Ask(c)
    <3>1. pc[c] = "idle" /\ UNCHANGED <<answer, delivered, told>>
      BY <2>2 DEF GetSeqNo, agentVars, ctxVars
    <3>2. \/ pc' = [pc EXCEPT ![c] = "enqueue"] /\ result' = result
          \/ /\ pc' = [pc EXCEPT ![c] = "returned"]
             /\ result' = [result EXCEPT ![c] = OPERATION_NOT_SUPPORTED]
      BY <2>2 DEF GetSeqNo
    <3>3. Begun' = Begun \cup {c}
      BY <2>0, <3>1, <3>2 DEF Begun, TypeOK, TypeCalls
    <3>4. \A d \in Calls : d # c => Status(d)' = Status(d)
      BY <2>0, <3>2 DEF Status, TypeOK, TypeCalls
    <3>5. Status(c) = "none" /\ Status(c)' \in {"none", "refused"}
      BY <2>0, <3>1, <3>2 DEF Status, TypeOK, TypeCalls, OPERATION_NOT_SUPPORTED
    <3>6. status' = status \/ status' = [status EXCEPT ![c] = "refused"]
      BY <3>4, <3>5
    <3> QED BY <3>1, <3>3, <3>6 DEF Service!Ask, Begun
  <2>3. ASSUME NEW c \in Calls, Enqueue(c) \/ Write(c)
        PROVE  UNCHANGED Service!rpcVars
    <3>1. UNCHANGED <<result, answer, delivered, told>>
      BY <2>3 DEF Enqueue, Write, agentVars, ctxVars
    <3>2. \E x \in {"write", "failed", "wait"} : pc' = [pc EXCEPT ![c] = x]
      BY <2>3 DEF Enqueue, Write, WriteOk, WriteLost, WriteSwallowed
    <3>3. pc[c] \in {"enqueue", "write"}
      BY <2>3 DEF Enqueue, Write
    <3>4. Begun' = Begun /\ status' = status
      BY <2>0, <3>1, <3>2, <3>3 DEF Begun, Status, TypeOK, TypeCalls
    <3> QED BY <3>1, <3>4 DEF Begun
  <2>4. ASSUME NEW c \in Calls PROVE ~GiveUp(c)
    BY AlwaysServing DEF GiveUp
  <2>5. ASSUME NEW c \in Calls, Return(c), ~Undefined PROVE Service!Return(c)
    <3>1. /\ ready[c] /\ pc[c] = "wait" /\ result' = [result EXCEPT ![c] = rv[c]]
          /\ pc' = [pc EXCEPT ![c] = "returned"] /\ UNCHANGED <<answer, delivered, told>>
      BY <2>0, <2>5, ReturnsRv
    <3>2. rv[c] = OwnAnswer(c) /\ answer[c] # "none"
      BY <2>0, <2>5, <3>1, AlwaysServing DEF RvRight, Return
    <3>3. Begun' = Begun
      BY <2>0, <3>1 DEF Begun, TypeOK, TypeCalls
    <3>4. \A d \in Calls : d # c => Status(d)' = Status(d)
      BY <2>0, <3>1 DEF Status, TypeOK, TypeCalls
    <3>5. Status(c) = "none" /\ Status(c)' = (IF OwnAnswer(c) = 0 THEN "ok" ELSE "failed")
      BY <2>0, <3>1, <3>2, OwnAnswerValues DEF Status, TypeOK, TypeCalls, OPERATION_NOT_SUPPORTED
    <3>6. status[c] = "none" /\ status' = [status EXCEPT ![c] = IF OwnAnswer(c) = 0 THEN "ok" ELSE "failed"]
      BY <3>4, <3>5
    <3>7. OwnAnswer(c) = 0 => answer[c] \in {"okay", "bare"}
      BY <2>0, OwnAnswerValues
    <3>8. OwnAnswer(c) # 0 => answer[c] # "okay"
      BY <2>0, <3>2, OwnAnswerValues
    <3> HIDE DEF status
    <3> QED BY <3>1, <3>2, <3>3, <3>6, <3>7, <3>8 DEF Service!Return, Service!Accepted, Begun, status
  <2>6. ASSUME NEW c \in Calls, AgentRespond(c) PROVE Service!Reply(c)
    <3>1. /\ c \in inbox /\ answer[c] = "none" /\ UNCHANGED <<pc, result, delivered, told>>
          /\ \E r \in Replies : answer' = [answer EXCEPT ![c] = r]
      BY <2>6 DEF AgentRespond, callVars, ctxVars
    <3>2. pc[c] # "idle" /\ pc[c] # "returned"
      BY <2>0, <3>1 DEF Phases, RpcInv, ReturnRight
    <3>3. status[c] = "none" /\ status' = status
      BY <3>1, <3>2 DEF Status
    <3> QED BY <3>1, <3>2, <3>3 DEF Service!Reply
  <2>7. CASE Dispatch /\ ~Undefined
    <3>0. PICK d \in Calls : d = reqs[pos]
      BY <2>0, <2>7, DispatchEffect
    <3>1. UNCHANGED <<pc, result, answer>>
      BY <2>7 DEF Dispatch, callVars, agentVars
    <3>2. CASE UNCHANGED <<told, delivered>>
      BY <2>1, <3>1, <3>2
    <3>3. CASE ~UNCHANGED <<told, delivered>>
      <4>1. StreamDeliver(d, dframe) /\ d \notin Silent
        BY <2>0, <2>7, <3>0, <3>3, CallbackFinds DEF OneShotCallback, StreamResponse, StreamDeliver
      <4>2. ready[d] /\ rv[d] = 0 /\ dframe.body = <<d, Len(delivered[d]) + 1>>
        BY <2>0, <2>7, <3>0, <4>1, CallbackFinds DEF StreamDeliver, Base
      <4>3. answer[d] \in {"okay", "bare"}
        BY <2>0, <2>7, <4>2, OwnAnswerValues, AlwaysServing DEF RvRight, Dispatch
      <4>4. ~told[d]
        BY <2>0, <2>7, <3>0, DispatchEffect DEF MemInv, LeavingAtCursor
      <4>5. PICK stop \in BOOLEAN :
              /\ delivered' = [delivered EXCEPT ![d] = Append(delivered[d], <<d, Len(delivered[d]) + 1>>)]
              /\ told' = [told EXCEPT ![d] = told[d] \/ dframe.final \/ stop]
        BY <4>1, <4>2 DEF StreamDeliver
      <4>6. closed' \in {closed, closed \cup {d}} /\ d \notin closed
        <5>1. told \in [Calls -> BOOLEAN]
          BY <2>0 DEF TypeOK, TypeCtx
        <5> QED BY <3>1, <4>4, <4>5, <5>1
      <4>7. status' = status
        BY <3>1 DEF Status
      <4>8. Service!Deliver(d)
        BY <3>1, <4>3, <4>5, <4>6, <4>7 DEF Service!Deliver, Service!Accepted
      <4> QED BY <4>8
    <3> QED BY <3>2, <3>3
  <2>8. ~Drain
    BY AlwaysServing DEF Drain, Serving
  <2>9. CASE UNCHANGED <<pc, result>> /\ UNCHANGED answer /\ UNCHANGED ctxVars
    BY <2>1, <2>9 DEF ctxVars
  <2>10. CASE Undefined
    BY <2>9, <2>10 DEF Undefined, callVars, agentVars
  <2>11. ASSUME NEW c \in Calls, AgentResult(c) \/ UserFree(c)
         PROVE  UNCHANGED <<pc, result>> /\ UNCHANGED answer /\ UNCHANGED ctxVars
    BY <2>11 DEF AgentResult, UserFree, callVars, agentVars
  <2>12. CASE \/ ConnectFail \/ ConnectSpawn \/ ConnectDone \/ Disconnect \/ AgentClose \/ EnterRead
              \/ ReadFrame \/ ReadFail \/ LockReqs \/ CloseSocket \/ DaemonExit \/ ScanSkip \/ ScanEnd
              \/ Unlink \/ UNCHANGED vars
    BY <2>9, <2>12 DEF ConnectFail, ConnectSpawn, ConnectDone, Disconnect, AgentClose, EnterRead,
       ReadFrame, ReadFail, ReadFailed, LockReqs, CloseSocket, DaemonExit, ScanSkip, ScanEnd, Unlink,
       Undefined, callVars, agentVars, ctxVars, vars
  <2> QED BY NextActions, <2>2, <2>3, <2>4, <2>5, <2>6, <2>7, <2>8, <2>9, <2>10, <2>11, <2>12
<1> QED BY <1>1, <1>2, RpcInvariant, PTL DEF Spec, Service!RpcSafety
=============================================================================
