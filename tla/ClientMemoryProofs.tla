------------------------- MODULE ClientMemoryProofs -------------------------
(* No use of freed memory by bw2_daemon or by an API call, and no call of a *)
(* user function after its last, while the connection does not fail.        *)
EXTENDS ClientProofs

(* Memory safety on a connection that does not fail.  The library keeps its *)
(* promise as long as the agent stays, sends succeed or fail with an errno  *)
(* bw2_transact ignores, nobody disconnects, and a context is freed only    *)
(* after its last result and after its own call has returned.               *)
Reliable ==
    Env \cap {"eof", "earlyEof", "sendTimeout", "disconnect", "freeEarly",
           "freeFailed"} = {}

(* The connection is up from bw2_connect on, and bw2_daemon never gives up. *)
StaysUp ==
    /\ agent = "up"
    /\ conn = "up" <=> connected
    /\ conn # "failed" => closes = 0
    /\ conn # "up" => /\ wire = <<>> /\ inbox = {} /\ reqs = <<>>
                      /\ \A c \in Calls : answer[c] = "none" /\ pc[c] # "write"
                      /\ dpc \in {"none", "loop", "reading"}
    /\ conn \in {"start", "failed"} => dpc = "none"
    /\ dpc \notin {"close", "drain", "exited"}
    /\ dpc = "lock" => dframe # NoFrame
    /\ \A c \in Calls : pc[c] # "idle" => conn \in {"up", "failed"}
    /\ \A c \in Calls : pc[c] = "failed" => conn = "failed"

(* A call enters client->reqs once, and no reqctx is there twice. *)
LinkedOnce ==
    /\ \A i, j \in DOMAIN reqs : reqs[i] = reqs[j] => i = j
    /\ \A c \in Calls : pc[c] \in {"idle", "enqueue", "failed"} =>
          ~ready[c] /\ ~told[c] /\ \A i \in DOMAIN reqs : reqs[i] # c

(* A linked reqctx that its owner may already have left is the one that     *)
(* bw2_daemon is about to unlink without looking at it again.               *)
LeavingAtCursor ==
    \A i \in DOMAIN reqs :
        /\ OnStack(reqs[i]) /\ ready[reqs[i]] =>
              dpc = "unlink" /\ pos = i /\ dstop = "true"
        /\ told[reqs[i]] =>
              /\ dpc = "unlink" /\ pos = i
              /\ dstop # "rv" /\ (dstop = "true" \/ dframe.final)

(* Memory goes away only after the call returned and was done with. *)
FreedWhenDone ==
    \A c \in freed : /\ pc[c] = "returned"
                     /\ conn = "failed" \/ (OnStack(c) /\ ready[c]) \/ told[c]

MemInv == StaysUp /\ LinkedOnce /\ LeavingAtCursor /\ FreedWhenDone

-----------------------------------------------------------------------------
(* What Reliable excludes, one fact at a time. *)
LEMMA ReliableFacts ==
    ASSUME Reliable
    PROVE  /\ "eof" \notin Env /\ "earlyEof" \notin Env /\ "sendTimeout" \notin Env
           /\ "disconnect" \notin Env /\ "freeEarly" \notin Env /\ "freeFailed" \notin Env
  BY DEF Reliable

(* A frame is never taken for a failed read. *)
LEMMA FrameNotNone == ASSUME NEW f \in Frames PROVE f # NoFrame
  BY ClientAssumption DEF Frames, NoFrame

(* No action of the client takes the connection down. *)
LEMMA StaysUpStep ==
    ASSUME Reliable, TypeOK, TypeOK', MemInv, [Next]_vars
    PROVE  StaysUp'
<1>0. StaysUp
  BY DEF MemInv
<1>a. /\ "eof" \notin Env /\ "earlyEof" \notin Env /\ "sendTimeout" \notin Env
      /\ "disconnect" \notin Env /\ "freeEarly" \notin Env /\ "freeFailed" \notin Env
  BY ReliableFacts
<1>1. CASE ConnectFail
  BY <1>0, <1>a, <1>1 DEF StaysUp, TypeOK, TypeConn, TypeAgent, TypeCalls, TypeDaemon, ConnectFail,
     connVars, agentVars, callVars, ctxVars, daemonVars
<1>2. CASE ConnectSpawn
  BY <1>0, <1>a, <1>2 DEF StaysUp, TypeOK, TypeConn, TypeAgent, TypeCalls, TypeDaemon, ConnectSpawn,
     connVars, agentVars, callVars, ctxVars, daemonVars
<1>3. CASE ConnectDone
  BY <1>0, <1>a, <1>3 DEF StaysUp, TypeOK, TypeConn, TypeAgent, TypeCalls, TypeDaemon, ConnectDone,
     connVars, agentVars, callVars, ctxVars, daemonVars
<1>4. CASE Disconnect
  BY <1>0, <1>a, <1>4 DEF StaysUp, TypeOK, TypeConn, TypeAgent, TypeCalls, TypeDaemon, Disconnect,
     connVars, agentVars, callVars, ctxVars, daemonVars
<1>5. CASE AgentClose
  BY <1>0, <1>a, <1>5 DEF StaysUp, TypeOK, TypeConn, TypeAgent, TypeCalls, TypeDaemon, AgentClose,
     connVars, agentVars, callVars, ctxVars, daemonVars
<1>6. CASE EnterRead
  BY <1>0, <1>a, <1>6 DEF StaysUp, TypeOK, TypeConn, TypeAgent, TypeCalls, TypeDaemon, EnterRead, ReadFailed,
     connVars, agentVars, callVars, ctxVars, daemonVars
<1>7. CASE ReadFrame
  <2>1. Head(wire) # NoFrame
    BY <1>7, FrameNotNone DEF TypeOK, TypeAgent, ReadFrame
  <2> QED BY <1>0, <1>7, <2>1 DEF StaysUp, ReadFrame, connVars, agentVars, callVars, ctxVars, daemonVars
<1>8. CASE ReadFail
  BY <1>0, <1>a, <1>8 DEF StaysUp, TypeOK, TypeConn, TypeAgent, TypeCalls, TypeDaemon, ReadFail, ReadFailed,
     connVars, agentVars, callVars, ctxVars, daemonVars
<1>9. CASE LockReqs
  BY <1>0, <1>a, <1>9 DEF StaysUp, TypeOK, TypeConn, TypeAgent, TypeCalls, TypeDaemon, LockReqs,
     connVars, agentVars, callVars, ctxVars, daemonVars
<1>10. CASE CloseSocket
  BY <1>0, <1>a, <1>10 DEF StaysUp, TypeOK, TypeConn, TypeAgent, TypeCalls, TypeDaemon, CloseSocket,
     connVars, agentVars, callVars, ctxVars, daemonVars
<1>11. CASE Drain
  BY <1>0, <1>a, <1>11 DEF StaysUp, TypeOK, TypeConn, TypeAgent, TypeCalls, TypeDaemon, Drain, Undefined,
     connVars, agentVars, callVars, ctxVars, daemonVars
<1>12. CASE DaemonExit
  BY <1>0, <1>a, <1>12 DEF StaysUp, TypeOK, TypeConn, TypeAgent, TypeCalls, TypeDaemon, DaemonExit,
     connVars, agentVars, callVars, ctxVars, daemonVars
<1>13. CASE ScanSkip
  <2>1. dpc = "scan" /\ dpc' \in {"scan", "undefined"}
    BY <1>13 DEF ScanSkip, AtRequest, Undefined
  <2>2. UNCHANGED <<agent, connected, conn, closes, wire, inbox, reqs, answer, pc>>
    BY <1>13 DEF ScanSkip, Undefined, connVars, agentVars, callVars
  <2> QED BY <1>0, <2>1, <2>2 DEF StaysUp
<1>14. CASE ScanEnd
  BY <1>0, <1>a, <1>14 DEF StaysUp, TypeOK, TypeConn, TypeAgent, TypeCalls, TypeDaemon, ScanEnd,
     connVars, agentVars, callVars, ctxVars, daemonVars
<1>15. CASE Dispatch
  <2>1. dpc = "scan" /\ dpc' \in {"unlink", "undefined"}
    BY <1>15 DEF Dispatch, AtRequest, Undefined
  <2>2. UNCHANGED <<agent, connected, conn, closes, wire, inbox, reqs, answer, pc>>
    BY <1>15 DEF Dispatch, Undefined, connVars, agentVars, callVars
  <2> QED BY <1>0, <2>1, <2>2 DEF StaysUp
<1>16. CASE Unlink
  BY <1>0, <1>a, <1>16 DEF StaysUp, TypeOK, TypeConn, TypeAgent, TypeCalls, TypeDaemon, Unlink, Undefined,
     connVars, agentVars, callVars, ctxVars, daemonVars
<1>17. ASSUME NEW c \in Calls, GetSeqNo(c) PROVE StaysUp'
  BY <1>0, <1>a, <1>17 DEF StaysUp, TypeOK, TypeConn, TypeAgent, TypeCalls, TypeDaemon, GetSeqNo,
     connVars, agentVars, callVars, ctxVars, daemonVars
<1>18. ASSUME NEW c \in Calls, Enqueue(c) PROVE StaysUp'
  BY <1>0, <1>a, <1>18 DEF StaysUp, TypeOK, TypeConn, TypeAgent, TypeCalls, TypeDaemon, Enqueue,
     connVars, agentVars, callVars, ctxVars, daemonVars
<1>19. ASSUME NEW c \in Calls, Write(c) PROVE StaysUp'
  BY <1>0, <1>a, <1>19 DEF StaysUp, TypeOK, TypeConn, TypeAgent, TypeCalls, TypeDaemon, Write, WriteOk, WriteLost, WriteSwallowed,
     connVars, agentVars, callVars, ctxVars, daemonVars
<1>20. ASSUME NEW c \in Calls, GiveUp(c) PROVE StaysUp'
  BY <1>0, <1>a, <1>20 DEF StaysUp, TypeOK, TypeConn, TypeAgent, TypeCalls, TypeDaemon, GiveUp, ReturnWith,
     connVars, agentVars, callVars, ctxVars, daemonVars
<1>21. ASSUME NEW c \in Calls, Return(c) PROVE StaysUp'
  <2>1. c \notin freed
    BY <1>21 DEF MemInv, FreedWhenDone, Return
  <2> QED BY <1>0, <1>21, <2>1 DEF StaysUp, TypeOK, TypeConn, TypeAgent, TypeCalls, TypeDaemon, Return, ReturnWith,
     connVars, agentVars, callVars, ctxVars, daemonVars
<1>22. ASSUME NEW c \in Calls, UserFree(c) PROVE StaysUp'
  BY <1>0, <1>a, <1>22 DEF StaysUp, TypeOK, TypeConn, TypeAgent, TypeCalls, TypeDaemon, UserFree,
     connVars, agentVars, callVars, ctxVars, daemonVars
<1>23. ASSUME NEW c \in Calls, AgentRespond(c) PROVE StaysUp'
  BY <1>0, <1>a, <1>23 DEF StaysUp, TypeOK, TypeConn, TypeAgent, TypeCalls, TypeDaemon, AgentRespond, Send,
     connVars, agentVars, callVars, ctxVars, daemonVars
<1>24. ASSUME NEW c \in Calls, AgentResult(c) PROVE StaysUp'
  BY <1>0, <1>a, <1>24 DEF StaysUp, TypeOK, TypeConn, TypeAgent, TypeCalls, TypeDaemon, AgentResult, Send,
     connVars, agentVars, callVars, ctxVars, daemonVars
<1>25. CASE UNCHANGED vars
  BY <1>0, <1>25 DEF StaysUp, TypeOK, TypeConn, TypeAgent, TypeCalls, TypeDaemon, vars
<1> QED
  BY NextActions, <1>1, <1>2, <1>3, <1>4, <1>5, <1>6, <1>7, <1>8, <1>9, <1>10, <1>11, <1>12, <1>13, <1>14, <1>15, <1>16, <1>17, <1>18, <1>19, <1>20, <1>21, <1>22, <1>23, <1>24, <1>25

(* The callback of the request at the cursor touches no other reqctx. *)
LEMMA DispatchFrame ==
    ASSUME TypeOK, Dispatch, NEW c \in Calls, c # reqs[pos]
    PROVE  ready'[c] = ready[c] /\ told'[c] = told[c]
<1> DEFINE d == reqs[pos]
<1>1. CASE Undefined
  BY <1>1 DEF Undefined, ctxVars
<1>2. CASE ~Undefined
  <2>1. \/ OneShotCallback(d, dframe)
        \/ StreamResponse(d, dframe)
        \/ StreamDeliver(d, dframe)
    BY <1>2 DEF Dispatch
  <2> HIDE DEF d
  <2>2. c # d
    BY DEF d
  <2> QED BY <2>1, <2>2 DEF TypeOK, TypeCtx, OneShotCallback, StreamResponse, StreamDeliver
<1> QED BY <1>1, <1>2

(* No step links a reqctx twice, or a reqctx of a call that has not begun. *)
LEMMA LinkedOnceStep ==
    ASSUME Reliable, TypeOK, TypeOK', MemInv, [Next]_vars
    PROVE  LinkedOnce'
<1>0. LinkedOnce
  BY DEF MemInv
<1>a. /\ "eof" \notin Env /\ "earlyEof" \notin Env /\ "sendTimeout" \notin Env
      /\ "disconnect" \notin Env /\ "freeEarly" \notin Env /\ "freeFailed" \notin Env
  BY ReliableFacts
<1>1. CASE ConnectFail
  BY <1>0, <1>a, <1>1 DEF LinkedOnce, TypeOK, TypeCalls, TypeCtx, TypeDaemon, ConnectFail,
     connVars, agentVars, callVars, ctxVars, daemonVars
<1>2. CASE ConnectSpawn
  BY <1>0, <1>a, <1>2 DEF LinkedOnce, TypeOK, TypeCalls, TypeCtx, TypeDaemon, ConnectSpawn,
     connVars, agentVars, callVars, ctxVars, daemonVars
<1>3. CASE ConnectDone
  BY <1>0, <1>a, <1>3 DEF LinkedOnce, TypeOK, TypeCalls, TypeCtx, TypeDaemon, ConnectDone,
     connVars, agentVars, callVars, ctxVars, daemonVars
<1>4. CASE Disconnect
  BY <1>a, <1>4 DEF Disconnect
<1>5. CASE AgentClose
  BY <1>a, <1>5 DEF AgentClose
<1>6. CASE EnterRead
  BY <1>0, <1>a, <1>6 DEF LinkedOnce, TypeOK, TypeCalls, TypeCtx, TypeDaemon, EnterRead, ReadFailed,
     connVars, agentVars, callVars, ctxVars, daemonVars
<1>7. CASE ReadFrame
  BY <1>0, <1>a, <1>7 DEF LinkedOnce, TypeOK, TypeCalls, TypeCtx, TypeDaemon, ReadFrame,
     connVars, agentVars, callVars, ctxVars, daemonVars
<1>8. CASE ReadFail
  BY <1>0, <1>a, <1>8 DEF LinkedOnce, TypeOK, TypeCalls, TypeCtx, TypeDaemon, ReadFail, ReadFailed,
     connVars, agentVars, callVars, ctxVars, daemonVars
<1>9. CASE LockReqs
  BY <1>0, <1>a, <1>9 DEF LinkedOnce, TypeOK, TypeCalls, TypeCtx, TypeDaemon, LockReqs,
     connVars, agentVars, callVars, ctxVars, daemonVars
<1>10. CASE CloseSocket
  BY <1>10 DEF MemInv, StaysUp, CloseSocket
<1>11. CASE Drain
  BY <1>11 DEF MemInv, StaysUp, Drain
<1>12. CASE DaemonExit
  BY <1>12 DEF MemInv, StaysUp, DaemonExit
<1>13. CASE ScanSkip
  BY <1>0, <1>a, <1>13 DEF LinkedOnce, TypeOK, TypeCalls, TypeCtx, TypeDaemon, ScanSkip, Undefined,
     connVars, agentVars, callVars, ctxVars, daemonVars
<1>14. CASE ScanEnd
  BY <1>0, <1>a, <1>14 DEF LinkedOnce, TypeOK, TypeCalls, TypeCtx, TypeDaemon, ScanEnd,
     connVars, agentVars, callVars, ctxVars, daemonVars
<1>15. CASE Dispatch
  <2>1. pos \in DOMAIN reqs /\ reqs[pos] \in Calls
    BY <1>15 DEF TypeOK, TypeCalls, TypeDaemon, Dispatch, AtRequest
  <2>2. \A c \in Calls : c # reqs[pos] => ready'[c] = ready[c] /\ told'[c] = told[c]
    BY <1>15, <2>1, DispatchFrame
  <2>3. UNCHANGED <<reqs, pc>>
    BY <1>15 DEF Dispatch, Undefined, callVars
  <2> QED BY <1>0, <2>1, <2>2, <2>3 DEF LinkedOnce
<1>16. CASE Unlink
  <2>1. pos \in DOMAIN reqs /\ pos \in 1..Len(reqs) /\ reqs \in Seq(Calls)
    BY <1>16 DEF TypeOK, TypeCalls, TypeDaemon, Unlink
  <2>2. UNCHANGED <<pc, ready, told>>
    BY <1>16 DEF Unlink, Undefined, callVars, ctxVars
  <2>3. CASE reqs' = reqs
    BY <1>0, <2>2, <2>3 DEF LinkedOnce
  <2>4. CASE reqs' = RemoveAt(reqs, pos)
    <3>1. \A i \in DOMAIN reqs' : \E k \in DOMAIN reqs :
             /\ reqs'[i] = reqs[k]
             /\ k = IF i < pos THEN i ELSE i + 1
      <4>1. reqs' \in Seq(Calls)
        BY DEF TypeOK, TypeCalls
      <4>2. /\ Len(reqs') = Len(reqs) - 1
            /\ \A j \in 1..(Len(reqs) - 1) :
                  reqs'[j] = IF j < pos THEN reqs[j] ELSE reqs[j + 1]
        BY <2>1, <2>4, RemoveAtProperties
      <4>3. DOMAIN reqs' = 1..(Len(reqs) - 1) /\ DOMAIN reqs = 1..Len(reqs)
        BY <2>1, <4>1, <4>2
      <4>4. \A i \in 1..(Len(reqs) - 1) : i \in 1..Len(reqs) /\ i + 1 \in 1..Len(reqs)
        BY <2>1
      <4> QED BY <4>2, <4>3, <4>4
    <3>2. ASSUME NEW i \in DOMAIN reqs', NEW j \in DOMAIN reqs', reqs'[i] = reqs'[j]
          PROVE  i = j
      <4>1. reqs' \in Seq(Calls)
        BY DEF TypeOK, TypeCalls
      <4>2. i \in Int /\ j \in Int
        BY <4>1
      <4>3. PICK k \in DOMAIN reqs : reqs'[i] = reqs[k] /\ k = IF i < pos THEN i ELSE i + 1
        BY <3>1
      <4>4. PICK m \in DOMAIN reqs : reqs'[j] = reqs[m] /\ m = IF j < pos THEN j ELSE j + 1
        BY <3>1
      <4>5. k = m
        BY <1>0, <3>2, <4>3, <4>4 DEF LinkedOnce
      <4> QED BY <2>1, <4>2, <4>3, <4>4, <4>5
    <3> QED BY <1>0, <2>2, <3>1, <3>2 DEF LinkedOnce
  <2> QED BY <1>16, <2>3, <2>4 DEF Unlink, Undefined
<1>17. ASSUME NEW c \in Calls, GetSeqNo(c) PROVE LinkedOnce'
  BY <1>0, <1>a, <1>17 DEF LinkedOnce, TypeOK, TypeCalls, TypeCtx, TypeDaemon, GetSeqNo,
     connVars, agentVars, callVars, ctxVars, daemonVars
<1>18. ASSUME NEW c \in Calls, Enqueue(c) PROVE LinkedOnce'
  <2>1. UNCHANGED <<ready, told>>
    BY <1>18 DEF Enqueue, ctxVars
  <2>2. CASE ~connected
    BY <1>0, <1>18, <2>1, <2>2 DEF LinkedOnce, Enqueue, TypeOK, TypeCalls
  <2>3. CASE connected
    <3>1. reqs' = Cons(c, reqs) /\ pc' = [pc EXCEPT ![c] = "write"] /\ pc[c] = "enqueue"
      BY <1>18, <2>3 DEF Enqueue
    <3>2. \A i \in DOMAIN reqs : reqs[i] # c
      BY <1>0, <3>1 DEF LinkedOnce
    <3>3. /\ DOMAIN reqs' = 1..(Len(reqs) + 1) /\ DOMAIN reqs = 1..Len(reqs)
          /\ Len(reqs) \in Nat /\ reqs'[1] = c
          /\ \A j \in 2..(Len(reqs) + 1) : reqs'[j] = reqs[j - 1]
      <4>1. reqs \in Seq(Calls) /\ reqs' \in Seq(Calls)
        BY DEF TypeOK, TypeCalls
      <4>2. DOMAIN reqs' = 1..Len(reqs') /\ DOMAIN reqs = 1..Len(reqs) /\ Len(reqs) \in Nat
        BY <4>1
      <4>3. /\ Len(reqs') = Len(reqs) + 1 /\ reqs'[1] = c
            /\ \A j \in 2..(Len(reqs) + 1) : reqs'[j] = reqs[j - 1]
        BY <3>1, <4>1, ConsProperties
      <4> QED BY <4>2, <4>3
    <3>4. \A i, j \in DOMAIN reqs' : reqs'[i] = reqs'[j] => i = j
      <4>1. \A j \in DOMAIN reqs' : j # 1 => j - 1 \in DOMAIN reqs /\ reqs'[j] = reqs[j - 1]
        BY <3>3
      <4> QED BY <1>0, <3>2, <3>3, <4>1 DEF LinkedOnce
    <3>5. \A d \in Calls : d # c /\ (\A i \in DOMAIN reqs : reqs[i] # d)
                             => \A i \in DOMAIN reqs' : reqs'[i] # d
      <4>1. \A j \in DOMAIN reqs' : j = 1 \/ (j - 1 \in DOMAIN reqs /\ reqs'[j] = reqs[j - 1])
        BY <3>3
      <4> QED BY <3>3, <4>1
    <3> QED BY <1>0, <2>1, <3>1, <3>4, <3>5 DEF LinkedOnce, TypeOK, TypeCalls
  <2> QED BY <2>2, <2>3
<1>19. ASSUME NEW c \in Calls, Write(c) PROVE LinkedOnce'
  <2>1. ~WriteLost(c)
    BY <1>a, <1>19 DEF MemInv, StaysUp, Write, WriteLost
  <2> QED BY <1>0, <1>19, <2>1 DEF LinkedOnce, TypeOK, TypeCalls, Write, WriteOk,
       WriteSwallowed, ctxVars
<1>20. ASSUME NEW c \in Calls, GiveUp(c) PROVE LinkedOnce'
  BY <1>0, <1>a, <1>20 DEF LinkedOnce, TypeOK, TypeCalls, TypeCtx, TypeDaemon, GiveUp, ReturnWith,
     connVars, agentVars, callVars, ctxVars, daemonVars
<1>21. ASSUME NEW c \in Calls, Return(c) PROVE LinkedOnce'
  BY <1>0, <1>a, <1>21 DEF LinkedOnce, TypeOK, TypeCalls, TypeCtx, TypeDaemon, Return, ReturnWith, Undefined,
     connVars, agentVars, callVars, ctxVars, daemonVars
<1>22. ASSUME NEW c \in Calls, UserFree(c) PROVE LinkedOnce'
  BY <1>0, <1>a, <1>22 DEF LinkedOnce, TypeOK, TypeCalls, TypeCtx, TypeDaemon, UserFree,
     connVars, agentVars, callVars, ctxVars, daemonVars
<1>23. ASSUME NEW c \in Calls, AgentRespond(c) PROVE LinkedOnce'
  BY <1>0, <1>a, <1>23 DEF LinkedOnce, TypeOK, TypeCalls, TypeCtx, TypeDaemon, AgentRespond, Send,
     connVars, agentVars, callVars, ctxVars, daemonVars
<1>24. ASSUME NEW c \in Calls, AgentResult(c) PROVE LinkedOnce'
  BY <1>0, <1>a, <1>24 DEF LinkedOnce, TypeOK, TypeCalls, TypeCtx, TypeDaemon, AgentResult, Send,
     connVars, agentVars, callVars, ctxVars, daemonVars
<1>25. CASE UNCHANGED vars
  BY <1>0, <1>25 DEF LinkedOnce, TypeOK, TypeCalls, TypeCtx, TypeDaemon, vars
<1> QED
  BY NextActions, <1>1, <1>2, <1>3, <1>4, <1>5, <1>6, <1>7, <1>8, <1>9, <1>10, <1>11, <1>12, <1>13, <1>14, <1>15, <1>16, <1>17, <1>18, <1>19, <1>20, <1>21, <1>22, <1>23, <1>24, <1>25

(* Every request that stays in the list was there, at another index. *)
LEMMA RemoveAtElements ==
    ASSUME NEW S, NEW s \in Seq(S), NEW i \in 1..Len(s), NEW j \in DOMAIN RemoveAt(s, i)
    PROVE  \E k \in DOMAIN s : k # i /\ RemoveAt(s, i)[j] = s[k]
<1> DEFINE r == RemoveAt(s, i)
<1>1. /\ r \in Seq(S) /\ Len(r) = Len(s) - 1
      /\ \A n \in 1..(Len(s) - 1) : r[n] = IF n < i THEN s[n] ELSE s[n + 1]
  BY RemoveAtProperties
<1>2. j \in DOMAIN r
  OBVIOUS
<1> HIDE DEF r
<1>3. j \in 1..(Len(s) - 1) /\ DOMAIN s = 1..Len(s)
  BY <1>1, <1>2
<1>4. CASE j < i
  BY <1>1, <1>3, <1>4 DEF r
<1>5. CASE ~(j < i)
  <2>1. j + 1 \in DOMAIN s /\ j + 1 # i
    BY <1>3, <1>5
  <2> QED BY <1>1, <1>3, <1>5, <2>1 DEF r
<1> QED BY <1>4, <1>5

(* A push adds only the new request. *)
LEMMA ConsElements ==
    ASSUME NEW S, NEW s \in Seq(S), NEW e \in S, NEW j \in DOMAIN Cons(e, s)
    PROVE  Cons(e, s)[j] = e \/ \E k \in DOMAIN s : Cons(e, s)[j] = s[k]
<1> DEFINE r == Cons(e, s)
<1>1. /\ r \in Seq(S) /\ Len(r) = Len(s) + 1 /\ r[1] = e
      /\ \A n \in 2..(Len(s) + 1) : r[n] = s[n - 1]
  BY ConsProperties
<1>2. j \in DOMAIN r
  OBVIOUS
<1> HIDE DEF r
<1>3. j \in 1..(Len(s) + 1) /\ DOMAIN s = 1..Len(s)
  BY <1>1, <1>2
<1>4. CASE j = 1
  BY <1>1, <1>4 DEF r
<1>5. CASE j # 1
  <2>1. j \in 2..(Len(s) + 1) /\ j - 1 \in DOMAIN s
    BY <1>3, <1>5
  <2> QED BY <1>1, <2>1 DEF r
<1> QED BY <1>4, <1>5

(* The step that follows a callback, or skips a request, reads and writes   *)
(* only requests that are still there.                                      *)
LEMMA UnlinkSafe ==
    ASSUME TypeOK, MemInv, dpc = "unlink"
    PROVE  UnlinkTouches \cap freed = {}
<1>1. /\ pos \in 1..Len(reqs) /\ DOMAIN reqs = 1..Len(reqs)
      /\ conn # "failed"
  BY DEF TypeOK, TypeCalls, TypeDaemon, MemInv, StaysUp
<1>2. \A i \in DOMAIN reqs : reqs[i] \in freed =>
         (OnStack(reqs[i]) /\ ready[reqs[i]]) \/ told[reqs[i]]
  BY <1>1 DEF MemInv, FreedWhenDone
<1>3. \A i \in DOMAIN reqs : reqs[i] \in freed =>
         pos = i /\ dstop # "rv" /\ Unlinks
  BY <1>2 DEF MemInv, LeavingAtCursor, Unlinks, StopListening
<1>4. pos > 1 => pos - 1 \in DOMAIN reqs /\ pos - 1 # pos
  BY <1>1
<1> QED BY <1>1, <1>3, <1>4 DEF UnlinkTouches

(* An owner that may leave finds its reqctx at the cursor, about to be unlinked. *)
LEMMA LeavingStep ==
    ASSUME Reliable, TypeOK, TypeOK', MemInv, [Next]_vars
    PROVE  LeavingAtCursor'
<1>0. LeavingAtCursor
  BY DEF MemInv
<1>a. /\ "eof" \notin Env /\ "earlyEof" \notin Env /\ "sendTimeout" \notin Env
      /\ "disconnect" \notin Env /\ "freeEarly" \notin Env /\ "freeFailed" \notin Env
  BY ReliableFacts
<1>1. CASE ConnectFail
  BY <1>0, <1>a, <1>1 DEF LeavingAtCursor, TypeOK, TypeCalls, TypeCtx, TypeDaemon, ConnectFail,
     connVars, agentVars, callVars, ctxVars, daemonVars
<1>2. CASE ConnectSpawn
  <2>1. dpc # "unlink"
    BY <1>2 DEF MemInv, StaysUp, ConnectSpawn
  <2> QED BY <1>0, <1>2, <2>1 DEF LeavingAtCursor, ConnectSpawn, ctxVars
<1>3. CASE ConnectDone
  BY <1>0, <1>a, <1>3 DEF LeavingAtCursor, TypeOK, TypeCalls, TypeCtx, TypeDaemon, ConnectDone,
     connVars, agentVars, callVars, ctxVars, daemonVars
<1>4. CASE Disconnect
  BY <1>a, <1>4 DEF Disconnect
<1>5. CASE AgentClose
  BY <1>a, <1>5 DEF AgentClose
<1>6. CASE EnterRead
  BY <1>0, <1>a, <1>6 DEF LeavingAtCursor, TypeOK, TypeCalls, TypeCtx, TypeDaemon, EnterRead, ReadFailed,
     connVars, agentVars, callVars, ctxVars, daemonVars
<1>7. CASE ReadFrame
  BY <1>0, <1>a, <1>7 DEF LeavingAtCursor, TypeOK, TypeCalls, TypeCtx, TypeDaemon, ReadFrame,
     connVars, agentVars, callVars, ctxVars, daemonVars
<1>8. CASE ReadFail
  BY <1>0, <1>a, <1>8 DEF LeavingAtCursor, TypeOK, TypeCalls, TypeCtx, TypeDaemon, ReadFail, ReadFailed,
     connVars, agentVars, callVars, ctxVars, daemonVars
<1>9. CASE LockReqs
  BY <1>0, <1>a, <1>9 DEF LeavingAtCursor, TypeOK, TypeCalls, TypeCtx, TypeDaemon, LockReqs,
     connVars, agentVars, callVars, ctxVars, daemonVars
<1>10. CASE CloseSocket
  BY <1>10 DEF MemInv, StaysUp, CloseSocket
<1>11. CASE Drain
  BY <1>11 DEF MemInv, StaysUp, Drain
<1>12. CASE DaemonExit
  BY <1>12 DEF MemInv, StaysUp, DaemonExit
<1>13. CASE ScanSkip
  <2>1. dpc = "scan" /\ UNCHANGED <<reqs, ready, told>>
    BY <1>13 DEF ScanSkip, AtRequest, Undefined, ctxVars
  <2> QED BY <1>0, <2>1 DEF LeavingAtCursor
<1>14. CASE ScanEnd
  BY <1>0, <1>a, <1>14 DEF LeavingAtCursor, TypeOK, TypeCalls, TypeCtx, TypeDaemon, ScanEnd,
     connVars, agentVars, callVars, ctxVars, daemonVars
<1>15. CASE Dispatch
  <2>1. dpc = "scan" /\ pos \in DOMAIN reqs /\ reqs[pos] \in Calls
    BY <1>15 DEF TypeOK, TypeCalls, TypeDaemon, Dispatch, AtRequest
  <2>2. \A i \in DOMAIN reqs : ~told[reqs[i]] /\ ~(OnStack(reqs[i]) /\ ready[reqs[i]])
    BY <1>0, <2>1 DEF LeavingAtCursor
  <2>3. CASE Undefined
    BY <2>2, <2>3 DEF LeavingAtCursor, Undefined, ctxVars
  <2>4. CASE ~Undefined
    <3>1. dpc' = "unlink" /\ UNCHANGED <<reqs, pos, dframe>>
      BY <1>15, <2>4 DEF Dispatch
    <3>2. \A i \in DOMAIN reqs : i # pos => reqs[i] # reqs[pos] /\ reqs[i] \in Calls
      BY <2>1 DEF MemInv, LinkedOnce, TypeOK, TypeCalls
    <3>3. \A i \in DOMAIN reqs : i # pos =>
             ~told'[reqs[i]] /\ ~(OnStack(reqs[i]) /\ ready'[reqs[i]])
      BY <1>15, <2>2, <3>2, DispatchFrame
    <3> DEFINE c == reqs[pos]
    <3>4. /\ OnStack(c) /\ ready'[c] => dstop' = "true"
          /\ told'[c] => dstop' # "rv" /\ (dstop' = "true" \/ dframe.final)
      <4>1. \/ OneShotCallback(c, dframe)
            \/ StreamResponse(c, dframe)
            \/ StreamDeliver(c, dframe)
        BY <1>15, <2>4 DEF Dispatch
      <4>2. ~told[c] /\ c \in Calls
        BY <2>1, <2>2
      <4> HIDE DEF c
      <4> QED BY <4>1, <4>2 DEF TypeOK, TypeCtx, OneShotCallback, StreamResponse, StreamDeliver
    <3> QED BY <3>1, <3>3, <3>4 DEF LeavingAtCursor
  <2> QED BY <2>3, <2>4
<1>16. CASE Unlink
  <2>1. pos \in 1..Len(reqs) /\ reqs \in Seq(Calls) /\ dpc = "unlink"
    BY <1>16 DEF TypeOK, TypeCalls, TypeDaemon, Unlink
  <2>2. UNCHANGED <<ready, told>>
    BY <1>16 DEF Unlink, Undefined, ctxVars
  <2>3. \A i \in DOMAIN reqs : i # pos \/ ~Unlinks =>
           ~told[reqs[i]] /\ ~(OnStack(reqs[i]) /\ ready[reqs[i]])
    BY <1>0 DEF LeavingAtCursor, Unlinks, StopListening
  <2>4. ~Undefined
    <3>1. UnlinkTouches \cap freed = {}
      BY UnlinkSafe, <2>1
    <3> QED BY <1>16, <3>1 DEF Unlink, Undefined
  <2>5. CASE ~Unlinks
    <3>1. reqs' = reqs
      BY <1>16, <2>4, <2>5 DEF Unlink
    <3> QED BY <2>2, <2>3, <2>5, <3>1 DEF LeavingAtCursor
  <2>6. CASE Unlinks
    <3>1. reqs' = RemoveAt(reqs, pos)
      BY <1>16, <2>4, <2>6 DEF Unlink
    <3>2. \A i \in DOMAIN reqs' : \E k \in DOMAIN reqs : k # pos /\ reqs'[i] = reqs[k]
      BY <2>1, <3>1, RemoveAtElements
    <3> QED BY <2>2, <2>3, <3>2 DEF LeavingAtCursor
  <2> QED BY <2>5, <2>6
<1>17. ASSUME NEW c \in Calls, GetSeqNo(c) PROVE LeavingAtCursor'
  BY <1>0, <1>a, <1>17 DEF LeavingAtCursor, TypeOK, TypeCalls, TypeCtx, TypeDaemon, GetSeqNo,
     connVars, agentVars, callVars, ctxVars, daemonVars
<1>18. ASSUME NEW c \in Calls, Enqueue(c) PROVE LeavingAtCursor'
  <2>1. dpc # "unlink" /\ UNCHANGED <<ready, told>>
    BY <1>18 DEF Enqueue, ReqsLocked, ctxVars
  <2>2. ~ready[c] /\ ~told[c]
    BY <1>18 DEF MemInv, LinkedOnce, Enqueue
  <2>3. \A i \in DOMAIN reqs' : reqs'[i] = c \/ \E k \in DOMAIN reqs : reqs'[i] = reqs[k]
    <3>1. CASE reqs' = reqs
      BY <3>1
    <3>2. CASE reqs' = Cons(c, reqs)
      BY <3>2, ConsElements DEF TypeOK, TypeCalls
    <3> QED BY <1>18, <3>1, <3>2 DEF Enqueue
  <2> QED BY <1>0, <2>1, <2>2, <2>3 DEF LeavingAtCursor
<1>19. ASSUME NEW c \in Calls, Write(c) PROVE LeavingAtCursor'
  BY <1>0, <1>a, <1>19 DEF LeavingAtCursor, TypeOK, TypeCalls, TypeCtx, TypeDaemon, Write, WriteOk, WriteLost, WriteSwallowed,
     connVars, agentVars, callVars, ctxVars, daemonVars
<1>20. ASSUME NEW c \in Calls, GiveUp(c) PROVE LeavingAtCursor'
  BY <1>0, <1>a, <1>20 DEF LeavingAtCursor, TypeOK, TypeCalls, TypeCtx, TypeDaemon, GiveUp, ReturnWith,
     connVars, agentVars, callVars, ctxVars, daemonVars
<1>21. ASSUME NEW c \in Calls, Return(c) PROVE LeavingAtCursor'
  <2>1. c \notin freed
    BY <1>21 DEF MemInv, FreedWhenDone, Return
  <2> QED BY <1>0, <1>21, <2>1 DEF LeavingAtCursor, Return, ctxVars, daemonVars
<1>22. ASSUME NEW c \in Calls, UserFree(c) PROVE LeavingAtCursor'
  BY <1>0, <1>a, <1>22 DEF LeavingAtCursor, TypeOK, TypeCalls, TypeCtx, TypeDaemon, UserFree,
     connVars, agentVars, callVars, ctxVars, daemonVars
<1>23. ASSUME NEW c \in Calls, AgentRespond(c) PROVE LeavingAtCursor'
  BY <1>0, <1>a, <1>23 DEF LeavingAtCursor, TypeOK, TypeCalls, TypeCtx, TypeDaemon, AgentRespond, Send,
     connVars, agentVars, callVars, ctxVars, daemonVars
<1>24. ASSUME NEW c \in Calls, AgentResult(c) PROVE LeavingAtCursor'
  BY <1>0, <1>a, <1>24 DEF LeavingAtCursor, TypeOK, TypeCalls, TypeCtx, TypeDaemon, AgentResult, Send,
     connVars, agentVars, callVars, ctxVars, daemonVars
<1>25. CASE UNCHANGED vars
  BY <1>0, <1>25 DEF LeavingAtCursor, TypeOK, TypeCalls, TypeCtx, TypeDaemon, vars
<1> QED
  BY NextActions, <1>1, <1>2, <1>3, <1>4, <1>5, <1>6, <1>7, <1>8, <1>9, <1>10, <1>11, <1>12, <1>13, <1>14, <1>15, <1>16, <1>17, <1>18, <1>19, <1>20, <1>21, <1>22, <1>23, <1>24, <1>25

(* Memory is given back only by a call, or after a stream, that is done. *)
LEMMA FreedStep ==
    ASSUME Reliable, TypeOK, TypeOK', MemInv, [Next]_vars
    PROVE  FreedWhenDone'
<1>0. FreedWhenDone
  BY DEF MemInv
<1>a. /\ "eof" \notin Env /\ "earlyEof" \notin Env /\ "sendTimeout" \notin Env
      /\ "disconnect" \notin Env /\ "freeEarly" \notin Env /\ "freeFailed" \notin Env
  BY ReliableFacts
<1>1. CASE ConnectFail
  BY <1>0, <1>a, <1>1 DEF FreedWhenDone, TypeOK, TypeCalls, TypeCtx, TypeDaemon, ConnectFail,
     connVars, agentVars, callVars, ctxVars, daemonVars
<1>2. CASE ConnectSpawn
  BY <1>0, <1>a, <1>2 DEF FreedWhenDone, TypeOK, TypeCalls, TypeCtx, TypeDaemon, ConnectSpawn,
     connVars, agentVars, callVars, ctxVars, daemonVars
<1>3. CASE ConnectDone
  BY <1>0, <1>a, <1>3 DEF FreedWhenDone, TypeOK, TypeCalls, TypeCtx, TypeDaemon, ConnectDone,
     connVars, agentVars, callVars, ctxVars, daemonVars
<1>4. CASE Disconnect
  BY <1>a, <1>4 DEF Disconnect
<1>5. CASE AgentClose
  BY <1>a, <1>5 DEF AgentClose
<1>6. CASE EnterRead
  BY <1>0, <1>a, <1>6 DEF FreedWhenDone, TypeOK, TypeCalls, TypeCtx, TypeDaemon, EnterRead, ReadFailed,
     connVars, agentVars, callVars, ctxVars, daemonVars
<1>7. CASE ReadFrame
  BY <1>0, <1>a, <1>7 DEF FreedWhenDone, TypeOK, TypeCalls, TypeCtx, TypeDaemon, ReadFrame,
     connVars, agentVars, callVars, ctxVars, daemonVars
<1>8. CASE ReadFail
  BY <1>0, <1>a, <1>8 DEF FreedWhenDone, TypeOK, TypeCalls, TypeCtx, TypeDaemon, ReadFail, ReadFailed,
     connVars, agentVars, callVars, ctxVars, daemonVars
<1>9. CASE LockReqs
  BY <1>0, <1>a, <1>9 DEF FreedWhenDone, TypeOK, TypeCalls, TypeCtx, TypeDaemon, LockReqs,
     connVars, agentVars, callVars, ctxVars, daemonVars
<1>10. CASE CloseSocket
  BY <1>10 DEF MemInv, StaysUp, CloseSocket
<1>11. CASE Drain
  BY <1>11 DEF MemInv, StaysUp, Drain
<1>12. CASE DaemonExit
  BY <1>12 DEF MemInv, StaysUp, DaemonExit
<1>13. CASE ScanSkip
  BY <1>0, <1>a, <1>13 DEF FreedWhenDone, TypeOK, TypeCalls, TypeCtx, TypeDaemon, ScanSkip, Undefined,
     connVars, agentVars, callVars, ctxVars, daemonVars
<1>14. CASE ScanEnd
  BY <1>0, <1>a, <1>14 DEF FreedWhenDone, TypeOK, TypeCalls, TypeCtx, TypeDaemon, ScanEnd,
     connVars, agentVars, callVars, ctxVars, daemonVars
<1>15. CASE Dispatch
  <2>1. UNCHANGED <<freed, pc, conn>>
    BY <1>15 DEF Dispatch, Undefined, connVars, callVars
  <2>2. dpc = "scan" /\ pos \in DOMAIN reqs /\ reqs[pos] \notin freed
    BY <1>15 DEF TypeOK, TypeCalls, TypeDaemon, Dispatch, AtRequest
  <2>3. freed \subseteq Calls
    BY DEF TypeOK, TypeCalls
  <2> QED BY <1>0, <1>15, <2>1, <2>2, <2>3, DispatchFrame DEF FreedWhenDone
<1>16. CASE Unlink
  BY <1>0, <1>a, <1>16 DEF FreedWhenDone, TypeOK, TypeCalls, TypeCtx, TypeDaemon, Unlink, Undefined,
     connVars, agentVars, callVars, ctxVars, daemonVars
<1>17. ASSUME NEW c \in Calls, GetSeqNo(c) PROVE FreedWhenDone'
  BY <1>0, <1>a, <1>17 DEF FreedWhenDone, TypeOK, TypeCalls, TypeCtx, TypeDaemon, GetSeqNo,
     connVars, agentVars, callVars, ctxVars, daemonVars
<1>18. ASSUME NEW c \in Calls, Enqueue(c) PROVE FreedWhenDone'
  BY <1>0, <1>a, <1>18 DEF FreedWhenDone, TypeOK, TypeCalls, TypeCtx, TypeDaemon, Enqueue,
     connVars, agentVars, callVars, ctxVars, daemonVars
<1>19. ASSUME NEW c \in Calls, Write(c) PROVE FreedWhenDone'
  BY <1>0, <1>a, <1>19 DEF FreedWhenDone, TypeOK, TypeCalls, TypeCtx, TypeDaemon, Write, WriteOk, WriteLost, WriteSwallowed,
     connVars, agentVars, callVars, ctxVars, daemonVars
<1>20. ASSUME NEW c \in Calls, GiveUp(c) PROVE FreedWhenDone'
  <2>1. conn = "failed" /\ conn' = conn /\ UNCHANGED <<ready, told>>
    BY <1>20 DEF MemInv, StaysUp, GiveUp, connVars, ctxVars
  <2>2. freed' \subseteq freed \cup {c} /\ (c \in freed' => pc'[c] = "returned" \/ c \in freed)
    BY <1>20 DEF GiveUp, ReturnWith, TypeOK, TypeCalls
  <2>3. c \notin freed
    BY <1>0, <1>20 DEF FreedWhenDone, GiveUp
  <2>4. \A d \in Calls : d # c => pc'[d] = pc[d]
    BY <1>20 DEF GiveUp, ReturnWith, TypeOK, TypeCalls
  <2> QED BY <1>0, <2>1, <2>2, <2>3, <2>4 DEF FreedWhenDone, TypeOK, TypeCalls
<1>21. ASSUME NEW c \in Calls, Return(c) PROVE FreedWhenDone'
  <2>1. c \notin freed
    BY <1>0, <1>21 DEF FreedWhenDone, Return
  <2> QED BY <1>0, <1>21, <2>1 DEF FreedWhenDone, TypeOK, TypeCalls, Return, ReturnWith,
       connVars, ctxVars
<1>22. ASSUME NEW c \in Calls, UserFree(c) PROVE FreedWhenDone'
  BY <1>0, <1>a, <1>22 DEF FreedWhenDone, TypeOK, TypeCalls, TypeCtx, TypeDaemon, UserFree,
     connVars, agentVars, callVars, ctxVars, daemonVars
<1>23. ASSUME NEW c \in Calls, AgentRespond(c) PROVE FreedWhenDone'
  BY <1>0, <1>a, <1>23 DEF FreedWhenDone, TypeOK, TypeCalls, TypeCtx, TypeDaemon, AgentRespond, Send,
     connVars, agentVars, callVars, ctxVars, daemonVars
<1>24. ASSUME NEW c \in Calls, AgentResult(c) PROVE FreedWhenDone'
  BY <1>0, <1>a, <1>24 DEF FreedWhenDone, TypeOK, TypeCalls, TypeCtx, TypeDaemon, AgentResult, Send,
     connVars, agentVars, callVars, ctxVars, daemonVars
<1>25. CASE UNCHANGED vars
  BY <1>0, <1>25 DEF FreedWhenDone, TypeOK, TypeCalls, TypeCtx, TypeDaemon, vars
<1> QED
  BY NextActions, <1>1, <1>2, <1>3, <1>4, <1>5, <1>6, <1>7, <1>8, <1>9, <1>10, <1>11, <1>12, <1>13, <1>14, <1>15, <1>16, <1>17, <1>18, <1>19, <1>20, <1>21, <1>22, <1>23, <1>24, <1>25

-----------------------------------------------------------------------------
(* MemInv is inductive on a reliable connection. *)
LEMMA MemInvariant == ASSUME Reliable PROVE Spec => [](TypeOK /\ MemInv)
<1>1. Init => TypeOK /\ MemInv
  <2> SUFFICES ASSUME Init PROVE MemInv
    BY TypeInit
  <2>1. DOMAIN reqs = {}
    BY DEF Init
  <2> QED BY <2>1 DEF Init, MemInv, StaysUp, LinkedOnce, LeavingAtCursor, FreedWhenDone
<1>2. TypeOK /\ MemInv /\ [Next]_vars => (TypeOK /\ MemInv)'
  <2> SUFFICES ASSUME TypeOK, MemInv, [Next]_vars PROVE TypeOK' /\ MemInv'
    OBVIOUS
  <2>1. TypeOK'
    BY TypeStep
  <2> QED BY <2>1, StaysUpStep, LinkedOnceStep, LeavingStep, FreedStep DEF MemInv
<1> QED
  BY <1>1, <1>2, PTL DEF Spec

(* On a reliable connection client->reqs never links memory that is gone.   *)
THEOREM ListIsValid == ASSUME Reliable PROVE Spec => []NoDanglingRequest
<1>1. TypeOK /\ MemInv => NoDanglingRequest
  BY DEF MemInv, StaysUp, FreedWhenDone, LeavingAtCursor, NoDanglingRequest, ReqsLocked
<1> QED
  BY <1>1, MemInvariant, PTL

(* On a reliable connection neither bw2_daemon nor a waiting call touches a *)
(* reqctx that is gone.                                                     *)
THEOREM MemorySafety == ASSUME Reliable PROVE Spec => []NoUseAfterFree
<1>1. TypeOK /\ MemInv => NoUseAfterFree
  <2> SUFFICES ASSUME TypeOK, MemInv PROVE NoUseAfterFree
    OBVIOUS
  <2>1. \A c \in freed : pc[c] = "returned"
    BY DEF MemInv, FreedWhenDone
  <2>2. CASE AtRequest
    <3>1. pos \in DOMAIN reqs /\ dpc = "scan" /\ conn # "failed"
      BY <2>2 DEF AtRequest, TypeOK, TypeCalls, TypeDaemon, MemInv, StaysUp
    <3>2. reqs[pos] \notin freed
      BY <3>1 DEF MemInv, FreedWhenDone, LeavingAtCursor
    <3>3. DaemonTouches = {reqs[pos]}
      BY <2>2, <3>1 DEF DaemonTouches
    <3> QED BY <2>1, <3>2, <3>3 DEF NoUseAfterFree
  <2>3. CASE dpc = "unlink"
    <3>1. DaemonTouches = UnlinkTouches
      BY <2>3 DEF DaemonTouches, AtRequest
    <3> QED BY <2>1, <2>3, <3>1, UnlinkSafe DEF NoUseAfterFree
  <2>4. CASE ~AtRequest /\ dpc # "unlink"
    <3>1. dpc # "drain"
      BY DEF MemInv, StaysUp
    <3>2. DaemonTouches = {}
      BY <2>4, <3>1 DEF DaemonTouches
    <3> QED BY <2>1, <3>2 DEF NoUseAfterFree
  <2> QED BY <2>2, <2>3, <2>4
<1> QED
  BY <1>1, MemInvariant, PTL

(* On a reliable connection a user function that was told the end of its    *)
(* stream, or ended it, is not invoked again.                               *)
THEOREM NothingAfterFinal == ASSUME Reliable PROVE Spec => []FinalIsLast
<1>1. TypeOK /\ MemInv => FinalIsLast
  <2> SUFFICES ASSUME TypeOK, MemInv, NEW c \in AboutToInvoke PROVE ~told[c]
    BY DEF FinalIsLast
  <2>1. dpc = "scan" /\ pos \in DOMAIN reqs /\ reqs[pos] = c
    BY DEF AboutToInvoke, AtRequest, MemInv, StaysUp, TypeOK, TypeCalls, TypeDaemon
  <2> QED BY <2>1 DEF MemInv, LeavingAtCursor
<1> QED
  BY <1>1, MemInvariant, PTL
=============================================================================
