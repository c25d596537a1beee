-------------------------- MODULE ClientOrderProofs --------------------------
(* Frames reach the call they are for: answers and results are told apart   *)
(* by their sequence numbers only, and come one by one, in any environment. *)
EXTENDS ClientMemoryProofs, FiniteSetTheorems

(* No sequence number is used twice: there are fewer calls than numbers.    *)
NumbersSuffice == Cardinality(Calls) <= SeqSpace

Begun == {c \in Calls : pc[c] # "idle"}

(* The calls that have begun have the numbers below their count.            *)
Numbered ==
    /\ curseqno = Cardinality(Begun) % SeqSpace
    /\ \A c \in Begun : seqno[c] < Cardinality(Begun)
    /\ \A c, d \in Begun : seqno[c] = seqno[d] => c = d

(* Before its request is linked a call has no answer and no result.  The    *)
(* BOSSWAVE thread starts once.                                             *)
Linked(c) == \E i \in DOMAIN reqs : reqs[i] = c
Phases ==
    /\ conn = "start" => dpc = "none"
    /\ \A c \in Calls :
          /\ pc[c] \in {"idle", "enqueue"} => ~ready[c] /\ ~Linked(c) /\ c \notin inbox
          /\ c \notin inbox => answer[c] = "none"
          /\ answer[c] = "none" => sent[c] = 0
          /\ ~ready[c] => delivered[c] = <<>>
    /\ \A i, j \in DOMAIN reqs : reqs[i] = reqs[j] => i = j

(* What a frame says is what the agent sent to the call in its body: its    *)
(* number 0 is the response, the others are results.                        *)
Genuine(f) ==
    LET c == f.body[1]
        n == f.body[2]
    IN /\ f.seqno = seqno[c] /\ answer[c] # "none"
       /\ n = 0 => f.reply = answer[c]
       /\ n # 0 => answer[c] \in {"okay", "bare"} /\ ~OnStack(c)
       /\ sent[c] < MaxResults => n <= sent[c]

(* The frames of one call are on the wire in the order of their numbers,    *)
(* after the one that bw2_daemon has read.                                  *)
Before(f, g) == f.body[1] = g.body[1] => f.body[2] < g.body[2]
FrameOrder ==
    /\ \A i \in DOMAIN wire : Genuine(wire[i])
    /\ dframe # NoFrame => Genuine(dframe)
    /\ \A i, j \in DOMAIN wire : i < j => Before(wire[i], wire[j])
    /\ dframe # NoFrame => \A j \in DOMAIN wire : Before(dframe, wire[j])

(* The frame that bw2_daemon has read is still to be given to call c.       *)
InHand(c) ==
    /\ dframe # NoFrame /\ dframe.body[1] = c
    /\ \/ dpc = "lock"
       \/ dpc = "scan" /\ \E i \in DOMAIN reqs : i >= pos /\ reqs[i] = c

(* The numbers of the frames that are on their way to call c, and the       *)
(* number of the frame it needs next.                                       *)
OnWire(c) == {wire[i].body[2] : i \in {j \in DOMAIN wire : wire[j].body[1] = c}}
Waiting(c) == OnWire(c) \cup (IF InHand(c) THEN {dframe.body[2]} ELSE {})
Base(c) == IF ready[c] THEN Len(delivered[c]) + 1 ELSE 0

(* bw2_daemon has not begun to shut down. *)
Serving == dpc \in {"none", "loop", "reading", "lock", "scan", "unlink"}

(* No frame is missing between what a linked call has received and what is  *)
(* on its way to it.  (A silent stream does not count its results.)         *)
Contiguous(c) ==
    /\ \A k \in Waiting(c) : k >= Base(c) /\ Base(c)..k \subseteq Waiting(c)
    /\ agent = "up" /\ answer[c] # "none" /\ sent[c] < MaxResults =>
          /\ Base(c) <= sent[c] + 1
          /\ Base(c)..sent[c] \subseteq Waiting(c)
NoGap ==
    Serving => \A c \in Calls :
        Linked(c) /\ (c \in Silent => ~ready[c]) => Contiguous(c)

(* rv is the agent's answer once it is set, unless the list was drained.    *)
RvRight ==
    \A c \in Calls : ready[c] =>
        /\ rv[c] \in {OwnAnswer(c), CONNECTION_LOST}
        /\ Serving => rv[c] = OwnAnswer(c) /\ answer[c] # "none"

(* A call that was answered and stays linked is an accepted stream; only    *)
(* the one at the cursor may still have to be unlinked.                     *)
AtUnlink ==
    dpc = "unlink" =>
        /\ ready[reqs[pos]] /\ dframe.body[1] = reqs[pos]
        /\ OnStack(reqs[pos]) => dstop = "true"
        /\ dstop = "false" => rv[reqs[pos]] = 0
StreamsLive ==
    Serving => \A i \in DOMAIN reqs :
        ready[reqs[i]] /\ ~(dpc = "unlink" /\ pos = i) =>
            ~OnStack(reqs[i]) /\ rv[reqs[i]] = 0

OrderInv ==
    /\ ConnInv /\ Numbered /\ Phases /\ FrameOrder /\ NoGap
    /\ RvRight /\ AtUnlink /\ StreamsLive /\ ResultsInOrder

-----------------------------------------------------------------------------
(* Which steps touch what. *)

(* Only the BOSSWAVE thread, and what makes it start or stop, moves it. *)
LEMMA DaemonFootprint ==
    ASSUME [Next]_vars
    PROVE  \/ DaemonStep \/ ConnectSpawn
           \/ Undefined /\ UNCHANGED reqs
           \/ UNCHANGED daemonVars
  BY NextActions DEF DaemonStep, ConnectFail, ConnectDone, Disconnect, AgentClose,
     GetSeqNo, Enqueue, Write, GiveUp, Return, UserFree, AgentRespond, AgentResult,
     Undefined, vars, daemonVars

(* Only callbacks write to a reqctx. *)
LEMMA CtxFootprint ==
    ASSUME [Next]_vars
    PROVE  Dispatch \/ Drain \/ UNCHANGED ctxVars
  BY NextActions DEF ConnectFail, ConnectSpawn, ConnectDone, Disconnect, AgentClose,
     EnterRead, ReadFrame, ReadFail, ReadFailed, LockReqs, CloseSocket, DaemonExit,
     ScanSkip, ScanEnd, Unlink, Undefined,
     GetSeqNo, Enqueue, Write, GiveUp, Return, UserFree, AgentRespond, AgentResult,
     vars, ctxVars

(* Only bw2_transact links a request and only bw2_daemon unlinks one. *)
LEMMA ListFootprint ==
    ASSUME [Next]_vars
    PROVE  Unlink \/ (\E c \in Calls : Enqueue(c)) \/ UNCHANGED reqs
  BY NextActions DEF ConnectFail, ConnectSpawn, ConnectDone, Disconnect, AgentClose,
     EnterRead, ReadFrame, ReadFail, ReadFailed, LockReqs, CloseSocket, DaemonExit,
     Drain, Dispatch, ScanSkip, ScanEnd, Undefined,
     GetSeqNo, Write, GiveUp, Return, UserFree, AgentRespond, AgentResult, vars

(* Only the agent puts frames on the wire, bw2_daemon takes them off. *)
LEMMA WireFootprint ==
    ASSUME [Next]_vars
    PROVE  \/ AgentClose \/ ReadFrame
           \/ \E c \in Calls : AgentRespond(c) \/ AgentResult(c)
           \/ UNCHANGED <<agent, answer, sent, wire>>
  BY NextActions DEF ConnectFail, ConnectSpawn, ConnectDone, Disconnect,
     EnterRead, ReadFail, ReadFailed, LockReqs, CloseSocket, DaemonExit,
     Drain, Dispatch, Unlink, ScanSkip, ScanEnd, Undefined,
     GetSeqNo, Enqueue, Write, GiveUp, Return, UserFree, vars, agentVars

(* Only an API call moves itself along. *)
LEMMA CallFootprint ==
    ASSUME [Next]_vars
    PROVE  \/ \E c \in Calls : GetSeqNo(c) \/ Enqueue(c) \/ Write(c) \/ GiveUp(c) \/ Return(c)
           \/ UNCHANGED <<pc, seqno, result, curseqno, inbox>>
  BY NextActions DEF ConnectFail, ConnectSpawn, ConnectDone, Disconnect, AgentClose,
     EnterRead, ReadFrame, ReadFail, ReadFailed, LockReqs, CloseSocket, DaemonExit,
     Drain, Dispatch, Unlink, ScanSkip, ScanEnd, Undefined,
     UserFree, AgentRespond, AgentResult, vars, agentVars, callVars

(* A call takes a number once, when it begins. *)
LEMMA NumberFootprint ==
    ASSUME TypeOK, [Next]_vars
    PROVE  \/ \E c \in Calls : GetSeqNo(c)
           \/ UNCHANGED <<seqno, curseqno>> /\ Begun' = Begun
<1>1. ASSUME NEW c \in Calls, Enqueue(c) \/ Write(c) \/ GiveUp(c) \/ Return(c)
      PROVE  UNCHANGED <<seqno, curseqno>> /\ Begun' = Begun
  <2>1. UNCHANGED <<seqno, curseqno>>
    BY <1>1 DEF Enqueue, Write, GiveUp, Return, Undefined, callVars
  <2>2. pc[c] # "idle"
    BY <1>1 DEF Enqueue, Write, GiveUp, Return
  <2>3. pc' = pc \/ \E x \in {"write", "failed", "wait", "returned"} : pc' = [pc EXCEPT ![c] = x]
    BY <1>1 DEF Enqueue, Write, WriteOk, WriteLost, WriteSwallowed, GiveUp, Return, ReturnWith,
         Undefined, callVars
  <2> QED BY <2>1, <2>2, <2>3 DEF Begun, TypeOK, TypeCalls
<1> QED BY <1>1, CallFootprint DEF Begun

-----------------------------------------------------------------------------
(* Sequence numbers are distinct as long as there are enough of them. *)
LEMMA NumberedStep ==
    ASSUME NumbersSuffice, TypeOK, Numbered, [Next]_vars
    PROVE  Numbered'
<1>1. ASSUME NEW c \in Calls, GetSeqNo(c) PROVE Numbered'
  <2> DEFINE n == Cardinality(Begun)
  <2>1. /\ c \notin Begun /\ Begun' = Begun \cup {c}
        /\ seqno' = [seqno EXCEPT ![c] = curseqno]
        /\ curseqno' = (curseqno + 1) % SeqSpace
    BY <1>1 DEF GetSeqNo, Begun, NextSeqNo, TypeOK, TypeCalls
  <2>2. /\ IsFiniteSet(Begun) /\ n <= Cardinality(Calls)
        /\ Cardinality(Calls) = n => Calls = Begun
    BY FS_Subset, ClientAssumption DEF Begun
  <2>3. n \in Nat /\ Cardinality(Calls) \in Nat
    BY <2>2, FS_CardinalityType, ClientAssumption
  <2>4. Cardinality(Begun') = n + 1
    BY <2>1, <2>2, FS_AddElement
  <2> HIDE DEF n
  <2>5. n < SeqSpace /\ SeqSpace \in Nat
    BY <2>1, <2>2, <2>3, ClientAssumption DEF NumbersSuffice
  <2>6. curseqno = n
    BY <2>3, <2>5 DEF Numbered, n
  <2>7. \A d \in Begun : seqno[d] < n /\ seqno'[d] = seqno[d]
    BY <2>1 DEF Numbered, n, Begun, TypeOK, TypeCalls
  <2>8. seqno'[c] = n
    BY <2>1, <2>6 DEF TypeOK, TypeCalls
  <2>9. seqno \in [Calls -> Int] /\ Begun \subseteq Calls
    BY DEF TypeOK, TypeCalls, Begun
  <2>10. \A d \in Begun' : seqno'[d] < Cardinality(Begun')
    BY <2>1, <2>3, <2>4, <2>7, <2>8, <2>9
  <2>11. \A d, e \in Begun' : seqno'[d] = seqno'[e] => d = e
    BY <2>1, <2>3, <2>7, <2>8, <2>9 DEF Numbered
  <2> QED BY <2>1, <2>4, <2>6, <2>10, <2>11 DEF Numbered
<1>2. CASE UNCHANGED <<seqno, curseqno>> /\ Begun' = Begun
  BY <1>2 DEF Numbered
<1> QED BY <1>1, <1>2, NumberFootprint

(* Two frames, or a frame and a request, with one number are of one call. *)
LEMMA OwnNumber ==
    ASSUME Numbered, Phases, TypeOK, NEW f \in Frames, Genuine(f),
           NEW i \in DOMAIN reqs, seqno[reqs[i]] = f.seqno
    PROVE  f.body[1] = reqs[i]
<1>1. f.body[1] \in Calls /\ reqs[i] \in Calls
  BY DEF Frames, TypeOK, TypeCalls
<1>2. f.body[1] \in Begun /\ reqs[i] \in Begun
  BY <1>1 DEF Genuine, Phases, Linked, Begun
<1> QED BY <1>2 DEF Numbered, Genuine

-----------------------------------------------------------------------------
(* A callback writes to the reqctx at the cursor and to no other. *)
LEMMA DispatchEffect ==
    ASSUME TypeOK, Dispatch, ~Undefined
    PROVE  /\ pos \in DOMAIN reqs /\ reqs[pos] \in Calls /\ dpc = "scan" /\ Matches
           /\ dframe \in Frames
           /\ UNCHANGED <<conn, agent, answer, sent, inbox, wire, reqs, pc, seqno, dframe, pos>>
           /\ dpc' = "unlink"
           /\ ready' = [ready EXCEPT ![reqs[pos]] = TRUE]
           /\ \A c \in Calls : c # reqs[pos] => rv'[c] = rv[c] /\ delivered'[c] = delivered[c]
<1>1. pos \in DOMAIN reqs /\ reqs[pos] \in Calls /\ dpc = "scan" /\ Matches /\ dframe \in Frames
  BY DEF TypeOK, TypeCalls, TypeDaemon, Dispatch, AtRequest
<1>2. /\ UNCHANGED <<conn, agent, answer, sent, inbox, wire, reqs, pc, seqno, dframe, pos>>
      /\ dpc' = "unlink"
  BY DEF Dispatch, connVars, agentVars, callVars
<1>3. \/ OneShotCallback(reqs[pos], dframe)
      \/ StreamResponse(reqs[pos], dframe)
      \/ StreamDeliver(reqs[pos], dframe)
  BY DEF Dispatch
<1>4. ready' = [ready EXCEPT ![reqs[pos]] = TRUE]
  BY <1>1, <1>3 DEF OneShotCallback, StreamResponse, StreamDeliver, TypeOK, TypeCtx
<1>5. \A c \in Calls : c # reqs[pos] => rv'[c] = rv[c] /\ delivered'[c] = delivered[c]
  BY <1>1, <1>3 DEF OneShotCallback, StreamResponse, StreamDeliver, TypeOK, TypeCtx
<1> QED BY <1>1, <1>2, <1>4, <1>5

(* The drain loop writes to the first request. *)
LEMMA DrainEffect ==
    ASSUME TypeOK, Drain, ~Undefined
    PROVE  /\ 1 \in DOMAIN reqs /\ reqs[1] \in Calls /\ dpc' = "drain"
           /\ ready' = [ready EXCEPT ![reqs[1]] = TRUE]
           /\ rv' = [rv EXCEPT ![reqs[1]] = CONNECTION_LOST]
           /\ UNCHANGED delivered
<1>1. 1 \in DOMAIN reqs /\ reqs[1] \in Calls /\ Head(reqs) = reqs[1]
  BY DEF TypeOK, TypeCalls, Drain
<1> QED BY <1>1 DEF Drain, daemonVars

(* The list without the request at the cursor. *)
LEMMA UnlinkedList ==
    ASSUME TypeOK, TypeOK', pos \in 1..Len(reqs), reqs' = RemoveAt(reqs, pos),
           NEW i \in DOMAIN reqs'
    PROVE  \E k \in DOMAIN reqs : /\ k = (IF i < pos THEN i ELSE i + 1)
                                  /\ k # pos /\ reqs'[i] = reqs[k]
<1>1. reqs' \in Seq(Calls) /\ reqs \in Seq(Calls) /\ pos \in Nat
  BY DEF TypeOK, TypeCalls, TypeDaemon
<1>2. /\ Len(reqs') = Len(reqs) - 1
      /\ \A j \in 1..(Len(reqs) - 1) : reqs'[j] = IF j < pos THEN reqs[j] ELSE reqs[j + 1]
  BY <1>1, RemoveAtProperties
<1>3. i \in 1..(Len(reqs) - 1) /\ DOMAIN reqs = 1..Len(reqs)
  BY <1>1, <1>2
<1>4. i \in DOMAIN reqs /\ i + 1 \in DOMAIN reqs
  BY <1>1, <1>3
<1> QED BY <1>1, <1>2, <1>3, <1>4

(* The list with a new request in front. *)
LEMMA LinkedList ==
    ASSUME TypeOK, TypeOK', NEW c \in Calls, reqs' = Cons(c, reqs)
    PROVE  /\ 1 \in DOMAIN reqs' /\ reqs'[1] = c
           /\ \A i \in DOMAIN reqs' : i # 1 => i - 1 \in DOMAIN reqs /\ reqs'[i] = reqs[i - 1]
           /\ \A i \in DOMAIN reqs : i + 1 \in DOMAIN reqs' /\ reqs'[i + 1] = reqs[i]
<1>1. reqs' \in Seq(Calls) /\ reqs \in Seq(Calls)
  BY DEF TypeOK, TypeCalls
<1>2. /\ Len(reqs') = Len(reqs) + 1 /\ reqs'[1] = c
      /\ \A j \in 2..(Len(reqs) + 1) : reqs'[j] = reqs[j - 1]
  BY <1>1, ConsProperties
<1>3. DOMAIN reqs' = 1..(Len(reqs) + 1) /\ DOMAIN reqs = 1..Len(reqs) /\ Len(reqs) \in Nat
  BY <1>1, <1>2
<1> QED BY <1>2, <1>3

-----------------------------------------------------------------------------
(* The thread starts once. *)
LEMMA StartStep ==
    ASSUME ConnInv, Phases, [Next]_vars
    PROVE  conn' = "start" => dpc' = "none"
<1> SUFFICES ASSUME conn' = "start" PROVE dpc' = "none"
  OBVIOUS
<1>1. conn = "start" /\ ~ConnectSpawn
  BY NextActions DEF ConnectFail, ConnectSpawn, ConnectDone, Disconnect, AgentClose,
     EnterRead, ReadFrame, ReadFail, ReadFailed, LockReqs, CloseSocket, DaemonExit,
     Drain, Dispatch, Unlink, ScanSkip, ScanEnd, Undefined, connVars,
     GetSeqNo, Enqueue, Write, GiveUp, Return, UserFree, AgentRespond, AgentResult, vars
<1>2. dpc = "none" /\ \A c \in Calls : pc[c] = "idle"
  BY <1>1 DEF Phases, ConnInv, BeforeUp
<1>3. ~DaemonStep
  BY <1>2 DEF DaemonStep, EnterRead, ReadFrame, ReadFail, LockReqs, CloseSocket, DaemonExit,
     Drain, Dispatch, Unlink, ScanSkip, ScanEnd, AtRequest
<1>4. UNCHANGED dpc
  BY <1>1, <1>2, <1>3, NextActions DEF DaemonStep, ConnectFail, ConnectDone, Disconnect,
     AgentClose, GetSeqNo, Enqueue, Write, GiveUp, Return, UserFree, AgentRespond, AgentResult,
     vars, daemonVars
<1> QED BY <1>2, <1>4

(* No request is linked twice. *)
LEMMA OnceStep ==
    ASSUME TypeOK, TypeOK', Phases, [Next]_vars
    PROVE  \A i, j \in DOMAIN reqs' : reqs'[i] = reqs'[j] => i = j
<1>1. CASE UNCHANGED reqs
  BY <1>1 DEF Phases
<1>2. CASE Unlink /\ reqs' # reqs
  <2>1. pos \in 1..Len(reqs) /\ reqs' = RemoveAt(reqs, pos)
    BY <1>2 DEF Unlink, Undefined, TypeOK, TypeDaemon, TypeCalls
  <2> SUFFICES ASSUME NEW i \in DOMAIN reqs', NEW j \in DOMAIN reqs', reqs'[i] = reqs'[j]
               PROVE  i = j
    OBVIOUS
  <2>2. PICK k \in DOMAIN reqs : /\ k = (IF i < pos THEN i ELSE i + 1)
                                 /\ k # pos /\ reqs'[i] = reqs[k]
    BY <2>1, UnlinkedList
  <2>3. PICK m \in DOMAIN reqs : /\ m = (IF j < pos THEN j ELSE j + 1)
                                 /\ m # pos /\ reqs'[j] = reqs[m]
    BY <2>1, UnlinkedList
  <2>4. k = m
    BY <2>2, <2>3 DEF Phases
  <2>5. reqs' \in Seq(Calls) /\ pos \in Int
    BY DEF TypeOK, TypeCalls, TypeDaemon
  <2>6. i \in Int /\ j \in Int
    BY <2>5
  <2> QED BY <2>2, <2>3, <2>4, <2>5, <2>6
<1>3. ASSUME NEW c \in Calls, Enqueue(c), reqs' # reqs
      PROVE  \A i, j \in DOMAIN reqs' : reqs'[i] = reqs'[j] => i = j
  <2>1. reqs' = Cons(c, reqs) /\ pc[c] = "enqueue"
    BY <1>3 DEF Enqueue
  <2>2. \A i \in DOMAIN reqs : reqs[i] # c
    BY <2>1 DEF Phases, Linked
  <2>3. /\ reqs'[1] = c
        /\ \A i \in DOMAIN reqs' : i # 1 => i - 1 \in DOMAIN reqs /\ reqs'[i] = reqs[i - 1]
    BY <2>1, LinkedList
  <2>4. \A i \in DOMAIN reqs' : i \in Int
    BY DEF TypeOK, TypeCalls
  <2> QED BY <2>2, <2>3, <2>4 DEF Phases
<1> QED BY <1>1, <1>2, <1>3, ListFootprint

(* A call is linked by itself, once it has begun. *)
LEMMA LinkStep ==
    ASSUME TypeOK, TypeOK', [Next]_vars, NEW d \in Calls, Linked(d)'
    PROVE  Linked(d) \/ (Enqueue(d) /\ reqs' # reqs /\ reqs' = Cons(d, reqs))
<1>1. CASE UNCHANGED reqs
  BY <1>1 DEF Linked
<1>2. CASE Unlink /\ reqs' # reqs
  <2>1. pos \in 1..Len(reqs) /\ reqs' = RemoveAt(reqs, pos)
    BY <1>2 DEF Unlink, Undefined, TypeOK, TypeDaemon, TypeCalls
  <2> QED BY <2>1, UnlinkedList DEF Linked
<1>3. ASSUME NEW c \in Calls, Enqueue(c), reqs' # reqs
      PROVE  Linked(d) \/ (Enqueue(d) /\ reqs' # reqs /\ reqs' = Cons(d, reqs))
  <2>1. reqs' = Cons(c, reqs)
    BY <1>3 DEF Enqueue
  <2>2. /\ reqs'[1] = c
        /\ \A i \in DOMAIN reqs' : i # 1 => i - 1 \in DOMAIN reqs /\ reqs'[i] = reqs[i - 1]
    BY <2>1, LinkedList
  <2> QED BY <1>3, <2>1, <2>2 DEF Linked
<1> QED BY <1>1, <1>2, <1>3, ListFootprint

(* Before a call is linked nothing is known of it outside its thread. *)
LEMMA PhasesStep ==
    ASSUME ConnInv, TypeOK', Phases, [Next]_vars
    PROVE  Phases'
<1>0. TypeOK
  BY DEF ConnInv
<1>1. conn' = "start" => dpc' = "none"
  BY StartStep
<1>2. \A i, j \in DOMAIN reqs' : reqs'[i] = reqs'[j] => i = j
  BY <1>0, OnceStep
<1> SUFFICES ASSUME NEW c \in Calls
             PROVE  /\ pc'[c] \in {"idle", "enqueue"} =>
                          ~ready'[c] /\ ~Linked(c)' /\ c \notin inbox'
                    /\ c \notin inbox' => answer'[c] = "none"
                    /\ answer'[c] = "none" => sent'[c] = 0
                    /\ ~ready'[c] => delivered'[c] = <<>>
  BY <1>1, <1>2 DEF Phases
<1>a. /\ pc[c] \in {"idle", "enqueue"} => ~ready[c] /\ ~Linked(c) /\ c \notin inbox
      /\ c \notin inbox => answer[c] = "none"
      /\ answer[c] = "none" => sent[c] = 0
      /\ ~ready[c] => delivered[c] = <<>>
  BY DEF Phases
<1>3. pc'[c] \in {"idle", "enqueue"} =>
          pc[c] \in {"idle", "enqueue"} /\ ~(Enqueue(c) /\ reqs' # reqs)
  <2>1. ~(Enqueue(c) /\ reqs' # reqs /\ pc'[c] \in {"idle", "enqueue"})
    BY <1>0 DEF TypeOK, TypeCalls, Enqueue
  <2>2. ASSUME NEW d \in Calls, Enqueue(d) \/ Write(d) \/ GiveUp(d) \/ Return(d) \/ GetSeqNo(d)
        PROVE  pc' = pc \/ \E x \in {"enqueue", "write", "failed", "wait", "returned"} :
                              /\ pc' = [pc EXCEPT ![d] = x]
                              /\ x = "enqueue" => pc[d] = "idle"
    BY <2>2 DEF GetSeqNo, Enqueue, Write, WriteOk, WriteLost, WriteSwallowed, GiveUp, Return,
       ReturnWith, Undefined, callVars
  <2> QED BY <1>0, <2>1, <2>2, CallFootprint DEF TypeOK, TypeCalls
<1>4. pc'[c] \in {"idle", "enqueue"} => ~Linked(c)'
  BY <1>0, <1>3, <1>a, LinkStep
<1>5. c \in inbox' => c \in inbox \/ pc[c] = "write"
  BY CallFootprint DEF GetSeqNo, Enqueue, Write, WriteOk, WriteLost, WriteSwallowed, GiveUp,
     Return, Undefined, agentVars
<1>6. inbox \subseteq inbox'
  BY CallFootprint DEF GetSeqNo, Enqueue, Write, WriteOk, WriteLost, WriteSwallowed, GiveUp,
     Return, Undefined, agentVars
<1>7. answer'[c] = "none" <=> answer[c] = "none" /\ ~AgentRespond(c)
  <2>1. "none" \notin Replies
    BY ClientAssumption
  <2>2. ASSUME NEW d \in Calls, AgentRespond(d)
        PROVE  \E r \in Replies : answer' = [answer EXCEPT ![d] = r]
    BY <2>2 DEF AgentRespond
  <2>3. (\E d \in Calls : AgentRespond(d)) \/ answer' = answer
    BY WireFootprint DEF AgentClose, ReadFrame, AgentResult, agentVars
  <2>4. answer \in [Calls -> Replies \cup {"none"}]
    BY <1>0 DEF TypeOK, TypeAgent
  <2>5. AgentRespond(c) => answer[c] = "none" /\ answer'[c] # "none"
    BY <2>1, <2>2, <2>4 DEF AgentRespond
  <2>6. ~AgentRespond(c) => answer'[c] = answer[c]
    BY <2>2, <2>3, <2>4
  <2> QED BY <2>5, <2>6
<1>8. sent'[c] = sent[c] \/ AgentResult(c)
  BY <1>0, WireFootprint DEF TypeOK, TypeAgent, AgentClose, ReadFrame,
     AgentRespond, AgentResult, agentVars
<1>9. /\ ready'[c] => ready[c] \/ Linked(c)
      /\ ~ready'[c] => ~ready[c] /\ delivered'[c] = delivered[c]
  <2>1. CASE UNCHANGED ctxVars
    BY <2>1 DEF ctxVars
  <2>2. CASE Undefined
    BY <2>2 DEF Undefined, ctxVars
  <2>3. CASE Dispatch /\ ~Undefined
    BY <1>0, <2>3, DispatchEffect DEF Linked, TypeOK, TypeCtx
  <2>4. CASE Drain /\ ~Undefined
    BY <1>0, <2>4, DrainEffect DEF Linked, TypeOK, TypeCtx
  <2> QED BY <2>1, <2>2, <2>3, <2>4, CtxFootprint
<1>10. AgentRespond(c) \/ AgentResult(c) => c \in inbox /\ inbox' = inbox
  BY <1>a DEF AgentRespond, AgentResult
<1> QED BY <1>a, <1>3, <1>4, <1>5, <1>6, <1>7, <1>8, <1>9, <1>10 DEF AgentResult

-----------------------------------------------------------------------------
(* Every frame has a call and a number in its body. *)
LEMMA FrameFields ==
    ASSUME NEW f \in Frames
    PROVE  f # NoFrame /\ f.body[1] \in Calls /\ f.body[2] \in Nat /\ f.seqno \in Int
<1>1. f # NoFrame
  BY FrameNotNone
<1> QED BY <1>1, ClientAssumption DEF Frames

(* The agent answers a call once, and counts its results upwards. *)
LEMMA AgentCounts ==
    ASSUME TypeOK, [Next]_vars, NEW c \in Calls
    PROVE  /\ answer[c] # "none" => answer'[c] = answer[c]
           /\ \/ sent'[c] = sent[c]
              \/ AgentResult(c) /\ sent[c] < MaxResults /\ sent'[c] \in {sent[c] + 1, MaxResults}
<1>0. answer \in [Calls -> Replies \cup {"none"}] /\ sent \in [Calls -> Nat]
  BY DEF TypeOK, TypeAgent
<1>1. ASSUME NEW d \in Calls, AgentRespond(d)
      PROVE  /\ answer[c] # "none" => answer'[c] = answer[c]
             /\ sent'[c] = sent[c]
  BY <1>0, <1>1 DEF AgentRespond
<1>2. ASSUME NEW d \in Calls, AgentResult(d)
      PROVE  /\ answer'[c] = answer[c]
             /\ \/ sent'[c] = sent[c]
                \/ AgentResult(c) /\ sent[c] < MaxResults /\ sent'[c] \in {sent[c] + 1, MaxResults}
  BY <1>0, <1>2 DEF AgentResult
<1>3. CASE AgentClose \/ ReadFrame \/ UNCHANGED <<agent, answer, sent, wire>>
  BY <1>3 DEF AgentClose, ReadFrame, agentVars
<1> QED BY <1>1, <1>2, <1>3, WireFootprint

(* What was true of a frame when it was sent stays true. *)
LEMMA GenuineStep ==
    ASSUME TypeOK, Phases, [Next]_vars, NEW f \in Frames, Genuine(f)
    PROVE  Genuine(f)'
<1> DEFINE c == f.body[1]
<1>1. c \in Calls /\ f.body[2] \in Nat
  BY FrameFields
<1>2. answer[c] # "none" /\ pc[c] # "idle"
  BY <1>1 DEF Genuine, Phases
<1>3. seqno'[c] = seqno[c]
  <2>1. ASSUME NEW d \in Calls, GetSeqNo(d) PROVE seqno'[c] = seqno[c]
    BY <1>1, <1>2, <2>1 DEF GetSeqNo, TypeOK, TypeCalls
  <2> QED BY <2>1, NumberFootprint DEF TypeOK
<1>4. answer'[c] = answer[c] /\ (sent'[c] < MaxResults => sent[c] < MaxResults /\ sent[c] <= sent'[c])
  <2>1. sent[c] \in Nat /\ MaxResults \in Nat
    BY <1>1, ClientAssumption DEF TypeOK, TypeAgent
  <2> QED BY <1>1, <1>2, <2>1, AgentCounts
<1>5. sent[c] \in Nat /\ sent'[c] \in Nat
  BY <1>1, AgentCounts, ClientAssumption DEF TypeOK, TypeAgent
<1> QED BY <1>1, <1>3, <1>4, <1>5 DEF Genuine

(* What the agent sends next comes after what it has sent to the same call. *)
LEMMA NewFrame ==
    ASSUME TypeOK, Phases, NEW c \in Calls, AgentRespond(c) \/ AgentResult(c)
    PROVE  \E f \in Frames :
              /\ wire' = Append(wire, f) /\ f.body[1] = c /\ Genuine(f)'
              /\ f.body[2] = (IF answer[c] = "none" THEN 0 ELSE sent[c] + 1)
              /\ \A g \in Frames : Genuine(g) => Before(g, f)
<1>0. seqno[c] \in 0..(SeqSpace - 1) /\ sent[c] \in Nat /\ MaxResults \in Nat
  BY ClientAssumption DEF TypeOK, TypeCalls, TypeAgent
<1>1. CASE AgentRespond(c)
  <2>1. PICK r \in Replies : /\ answer' = [answer EXCEPT ![c] = r]
                             /\ Send(c, r, FALSE, 0)
    BY <1>1 DEF AgentRespond
  <2>2. PICK f \in Frames :
            f = [seqno |-> seqno[c], reply |-> r, final |-> FALSE, body |-> <<c, 0>>]
    BY <1>0 DEF Frames
  <2>3. wire' = Append(wire, f) /\ f.body[1] = c /\ f.body[2] = 0 /\ f.reply = r
        /\ f.seqno = seqno[c]
    BY <2>1, <2>2 DEF Send
  <2>4. answer[c] = "none" /\ answer'[c] = r /\ r # "none"
    BY <1>1, <2>1, ClientAssumption DEF AgentRespond, TypeOK, TypeAgent
  <2>5. seqno' = seqno /\ sent' = sent /\ sent[c] = 0
    BY <1>1, <2>4 DEF AgentRespond, callVars, Phases
  <2>6. Genuine(f)'
    BY <2>3, <2>4, <2>5 DEF Genuine
  <2>7. \A g \in Frames : Genuine(g) => Before(g, f)
    BY <2>3, <2>4 DEF Genuine, Before
  <2> QED BY <2>2, <2>3, <2>4, <2>6, <2>7
<1>2. CASE AgentResult(c)
  <2>1. PICK final \in BOOLEAN :
            /\ Send(c, "result", final, sent[c] + 1)
            /\ sent' = [sent EXCEPT ![c] = IF final THEN MaxResults ELSE sent[c] + 1]
    BY <1>2 DEF AgentResult
  <2>2. PICK f \in Frames : f = [seqno |-> seqno[c], reply |-> "result", final |-> final,
                                body |-> <<c, sent[c] + 1>>]
    <3>1. sent[c] + 1 \in Nat /\ "result" \in Replies \cup {"result"}
      BY <1>0
    <3>2. [seqno |-> seqno[c], reply |-> "result", final |-> final, body |-> <<c, sent[c] + 1>>]
             \in Frames
      BY <1>0, <3>1 DEF Frames
    <3> QED BY <3>2
  <2>3. wire' = Append(wire, f) /\ f.body[1] = c /\ f.body[2] = sent[c] + 1
        /\ f.seqno = seqno[c]
    BY <2>1, <2>2 DEF Send
  <2>4. answer[c] \in {"okay", "bare"} /\ ~OnStack(c) /\ sent[c] < MaxResults
        /\ answer' = answer /\ seqno' = seqno
    BY <1>2 DEF AgentResult, callVars
  <2>5. sent'[c] < MaxResults => sent'[c] = sent[c] + 1
    BY <1>0, <2>1 DEF TypeOK, TypeAgent
  <2>6. Genuine(f)'
    BY <1>0, <2>3, <2>4, <2>5 DEF Genuine
  <2>7. \A g \in Frames : Genuine(g) => Before(g, f)
    BY <1>0, <2>3, <2>4, FrameFields DEF Genuine, Before
  <2> QED BY <2>2, <2>3, <2>4, <2>6, <2>7
<1> QED BY <1>1, <1>2

(* bw2_daemon keeps the frame it read until it has gone through the list. *)
LEMMA FrameKept ==
    ASSUME [Next]_vars
    PROVE  ReadFrame \/ dframe' = dframe \/ (dframe' = NoFrame /\ dpc \in {"loop", "reading", "scan"})
  BY NextActions DEF ConnectFail, ConnectSpawn, ConnectDone, Disconnect, AgentClose,
     EnterRead, ReadFail, ReadFailed, LockReqs, CloseSocket, DaemonExit,
     Drain, Dispatch, Unlink, ScanSkip, ScanEnd, Undefined, GetSeqNo, Enqueue, Write, GiveUp,
     Return, UserFree, AgentRespond, AgentResult, vars, daemonVars

(* How the frames on the wire change. *)
LEMMA WireMoves ==
    ASSUME TypeOK, Phases, [Next]_vars
    PROVE  \/ UNCHANGED wire
           \/ \E n \in 0..Len(wire) : wire' = SubSeq(wire, 1, n)
           \/ ReadFrame
           \/ \E c \in Calls : AgentRespond(c) \/ AgentResult(c)
  BY WireFootprint DEF AgentClose

(* The frames stay in the order in which they were sent. *)
LEMMA FrameOrderStep ==
    ASSUME TypeOK, TypeOK', Phases, FrameOrder, [Next]_vars
    PROVE  FrameOrder'
<1>0. wire \in Seq(Frames) /\ dframe \in Frames \cup {NoFrame}
  BY DEF TypeOK, TypeAgent, TypeDaemon
<1>1. \A f \in Frames : Genuine(f) => Genuine(f)'
  BY GenuineStep
<1>2. \A f, g \in Frames : Before(f, g)' <=> Before(f, g)
  BY DEF Before
<1>3. CASE ReadFrame
  <2>1. wire # <<>> /\ dframe' = Head(wire) /\ wire' = Tail(wire)
    BY <1>3 DEF ReadFrame
  <2>2. /\ 1 \in DOMAIN wire /\ dframe' = wire[1] /\ Len(wire) \in Nat
        /\ DOMAIN wire = 1..Len(wire) /\ DOMAIN wire' = 1..(Len(wire) - 1)
        /\ \A i \in DOMAIN wire : wire[i] \in Frames
        /\ \A i \in 1..(Len(wire) - 1) : wire'[i] = wire[i + 1]
    BY <1>0, <2>1
  <2>3. \A i \in DOMAIN wire' : i + 1 \in DOMAIN wire /\ wire'[i] = wire[i + 1] /\ i \in Nat
                                /\ 1 < i + 1
    BY <2>2
  <2>4. \A f \in Frames : f = dframe' \/ (\E i \in DOMAIN wire' : f = wire'[i]) => Genuine(f)'
    BY <1>1, <2>2, <2>3 DEF FrameOrder
  <2>5. \A i \in DOMAIN wire' : wire'[i] \in Frames
    BY <2>2, <2>3
  <2>6. \A i, j \in DOMAIN wire' : i < j => Before(wire'[i], wire'[j])
    BY <2>3 DEF FrameOrder
  <2>7. \A j \in DOMAIN wire' : Before(dframe', wire'[j])
    BY <2>2, <2>3 DEF FrameOrder
  <2> QED BY <2>2, <2>4, <2>5, <2>6, <2>7 DEF FrameOrder, Genuine, Before
<1>4. CASE ~ReadFrame
  <2>1. dframe' = dframe \/ dframe' = NoFrame
    BY <1>4, FrameKept
  <2>2. CASE UNCHANGED wire
    BY <1>0, <1>1, <2>1, <2>2 DEF FrameOrder, Genuine, Before
  <2>3. ASSUME NEW n \in 0..Len(wire), wire' = SubSeq(wire, 1, n) PROVE FrameOrder'
    <3>1. /\ DOMAIN wire' = 1..n /\ DOMAIN wire = 1..Len(wire)
          /\ \A i \in 1..n : wire'[i] = wire[i]
          /\ \A i \in DOMAIN wire : wire[i] \in Frames
      BY <1>0, <2>3
    <3>2. \A i \in DOMAIN wire' : i \in DOMAIN wire /\ wire'[i] = wire[i]
      BY <1>0, <3>1
    <3> QED BY <1>0, <1>1, <2>1, <3>1, <3>2 DEF FrameOrder, Genuine, Before
  <2>4. ASSUME NEW c \in Calls, AgentRespond(c) \/ AgentResult(c) PROVE FrameOrder'
    <3>1. PICK f \in Frames :
              /\ wire' = Append(wire, f) /\ Genuine(f)'
              /\ \A g \in Frames : Genuine(g) => Before(g, f)
      BY <2>4, NewFrame
    <3>2. /\ DOMAIN wire' = 1..(Len(wire) + 1) /\ DOMAIN wire = 1..Len(wire)
          /\ Len(wire) \in Nat /\ wire'[Len(wire) + 1] = f
          /\ \A i \in 1..Len(wire) : wire'[i] = wire[i]
          /\ \A i \in DOMAIN wire : wire[i] \in Frames
      BY <1>0, <3>1
    <3>3. \A i \in DOMAIN wire' : (i \in DOMAIN wire /\ wire'[i] = wire[i]) \/ wire'[i] = f
      BY <3>2
    <3>4. \A g \in Frames : (\E i \in DOMAIN wire' : g = wire'[i]) => Genuine(g)'
      BY <1>1, <3>1, <3>2, <3>3 DEF FrameOrder
    <3>5. \A i, j \in DOMAIN wire' : i < j =>
              i \in DOMAIN wire /\ wire'[i] = wire[i]
              /\ ((j \in DOMAIN wire /\ wire'[j] = wire[j]) \/ wire'[j] = f)
      BY <3>2
    <3>6. \A i, j \in DOMAIN wire' : i < j => Before(wire'[i], wire'[j])
      BY <3>1, <3>2, <3>5 DEF FrameOrder
    <3>7. dframe' # NoFrame => dframe \in Frames /\ dframe' = dframe /\ Genuine(dframe)
      BY <1>0, <2>1 DEF FrameOrder
    <3>8. dframe' # NoFrame => \A j \in DOMAIN wire' : Before(dframe', wire'[j])
      BY <3>1, <3>3, <3>7 DEF FrameOrder
    <3>9. \A g \in Frames : g = dframe' => Genuine(g)'
      BY <1>1, <3>7, FrameNotNone
    <3>10. \A i \in DOMAIN wire' : wire'[i] \in Frames
      BY <3>2, <3>3
    <3> QED BY <3>4, <3>6, <3>7, <3>8, <3>9, <3>10 DEF FrameOrder, Genuine, Before
  <2> QED BY <1>4, <2>2, <2>3, <2>4, WireMoves
<1> QED BY <1>3, <1>4

-----------------------------------------------------------------------------
(* Once bw2_daemon begins to shut down it goes on with it. *)
LEMMA ServingStep ==
    ASSUME TypeOK, Phases, [Next]_vars, Serving'
    PROVE  Serving
  BY NextActions DEF Serving, Phases, Running, TypeOK, TypeDaemon, ConnectFail, ConnectSpawn, ConnectDone,
     Disconnect, AgentClose, EnterRead, ReadFrame, ReadFail, ReadFailed, LockReqs, CloseSocket,
     DaemonExit, Drain, Dispatch, Unlink, ScanSkip, ScanEnd, AtRequest, Undefined, GetSeqNo, Enqueue,
     Write, GiveUp, Return, UserFree, AgentRespond, AgentResult, vars, daemonVars

(* The numbers on the wire are natural, and those of call c on the wire are *)
(* greater than the one in hand.                                            *)
LEMMA WaitingNumbers ==
    ASSUME TypeOK, FrameOrder, NEW c \in Calls
    PROVE  /\ Waiting(c) \subseteq Nat
           /\ InHand(c) => dframe \in Frames /\ dframe.body[2] \in Nat
                           /\ \A k \in OnWire(c) : dframe.body[2] < k
<1>1. wire \in Seq(Frames) /\ dframe \in Frames \cup {NoFrame}
  BY DEF TypeOK, TypeAgent, TypeDaemon
<1>2. \A i \in DOMAIN wire : wire[i] \in Frames /\ wire[i].body[2] \in Nat
  BY <1>1, FrameFields
<1>3. InHand(c) => dframe \in Frames /\ dframe.body[2] \in Nat /\ dframe.body[1] = c
  BY <1>1, FrameFields DEF InHand
<1>4. OnWire(c) \subseteq Nat
  BY <1>2 DEF OnWire
<1>5. InHand(c) => \A k \in OnWire(c) : dframe.body[2] < k
  BY <1>3 DEF InHand, FrameOrder, Before, OnWire
<1> QED BY <1>3, <1>4, <1>5 DEF Waiting

(* The frame at the cursor is for the request at the cursor. *)
LEMMA FrameForCursor ==
    ASSUME TypeOK, Numbered, Phases, FrameOrder, AtRequest
    PROVE  /\ pos \in DOMAIN reqs /\ reqs[pos] \in Calls /\ dframe \in Frames /\ Genuine(dframe)
           /\ Matches <=> dframe.body[1] = reqs[pos]
<1>1. pos \in DOMAIN reqs /\ reqs[pos] \in Calls /\ dframe \in Frames
  BY DEF TypeOK, TypeCalls, TypeDaemon, AtRequest
<1>2. Genuine(dframe)
  BY <1>1, FrameFields DEF FrameOrder
<1>3. Matches => dframe.body[1] = reqs[pos]
  BY <1>1, <1>2, OwnNumber DEF Matches
<1>4. dframe.body[1] = reqs[pos] => Matches
  BY <1>2 DEF Genuine, Matches
<1> QED BY <1>1, <1>2, <1>3, <1>4

(* The frame in hand stays there until it is given to its call. *)
LEMMA HandStep ==
    ASSUME TypeOK, TypeOK', Numbered, Phases, FrameOrder, AtUnlink, [Next]_vars, Serving',
           NEW c \in Calls, Linked(c), Linked(c)', ~ReadFrame,
           ~(Dispatch /\ reqs[pos] = c)
    PROVE  (InHand(c)' <=> InHand(c)) /\ (InHand(c) => dframe' = dframe)
<1>0. /\ reqs \in Seq(Calls) /\ reqs' \in Seq(Calls) /\ pos \in Nat \ {0} /\ DOMAIN reqs = 1..Len(reqs)
      /\ \A i \in DOMAIN reqs : i >= 1
  <2>1. reqs \in Seq(Calls) /\ reqs' \in Seq(Calls) /\ pos \in Nat \ {0}
    BY DEF TypeOK, TypeCalls, TypeDaemon
  <2> QED BY <2>1
<1>1. CASE UNCHANGED <<reqs, dpc, dframe, pos>>
  BY <1>1 DEF InHand
<1>2. CASE ConnectSpawn
  <2>1. dpc = "none" /\ dpc' = "loop"
    BY <1>2 DEF ConnectSpawn, Phases
  <2> QED BY <2>1 DEF InHand
<1>3. CASE EnterRead \/ ReadFail
  <2>1. dpc \in {"loop", "reading"} /\ (dpc' = "reading" \/ dframe' = NoFrame)
    BY <1>3 DEF EnterRead, ReadFail, ReadFailed
  <2> QED BY <2>1 DEF InHand
<1>4. CASE LockReqs
  <2>1. dpc = "lock" /\ dpc' = "scan" /\ pos' = 1 /\ UNCHANGED <<dframe, reqs>>
    BY <1>4 DEF LockReqs, Serving
  <2>2. \E i \in DOMAIN reqs' : i >= pos' /\ reqs'[i] = c
    BY <1>0, <2>1 DEF Linked
  <2> QED BY <2>1, <2>2 DEF InHand
<1>5. CASE ScanSkip
  <2>1. AtRequest /\ dpc = "scan" /\ dpc' = "scan" /\ ~Matches /\ pos' = pos + 1 /\ UNCHANGED <<dframe, reqs>>
    BY <1>5 DEF ScanSkip, AtRequest, Undefined, Serving
  <2>2. dframe.body[1] # reqs[pos]
    BY <2>1, FrameForCursor
  <2>3. dframe.body[1] = c => \A i \in DOMAIN reqs : reqs[i] = c => (i >= pos <=> i >= pos + 1)
    BY <1>0, <2>2
  <2> QED BY <2>1, <2>3 DEF InHand
<1>6. CASE ScanEnd
  <2>1. dpc = "scan" /\ pos > Len(reqs) /\ dpc' = "loop"
    BY <1>6 DEF ScanEnd
  <2>2. \A i \in DOMAIN reqs : ~(i >= pos)
    BY <1>0, <2>1
  <2> QED BY <2>1, <2>2 DEF InHand
<1>7. CASE Dispatch
  <2>1. AtRequest /\ Matches /\ dpc = "scan" /\ dpc' = "unlink"
    BY <1>7 DEF Dispatch, AtRequest, Undefined, Serving
  <2>2. dframe.body[1] # c
    BY <1>7, <2>1, FrameForCursor
  <2> QED BY <2>1, <2>2 DEF InHand
<1>8. CASE Unlink
  <2>1. dpc = "unlink" /\ dpc' = "scan" /\ UNCHANGED dframe /\ pos \in 1..Len(reqs)
    BY <1>8, <1>0 DEF Unlink, Undefined, Serving, TypeOK, TypeDaemon
  <2>2. dframe.body[1] = reqs[pos] /\ pos \in DOMAIN reqs
    BY <1>0, <2>1 DEF AtUnlink
  <2>3. ASSUME c = reqs[pos], NEW i \in DOMAIN reqs', i >= pos' PROVE reqs'[i] # c
    <3>1. CASE reqs' = reqs /\ pos' = pos + 1
      BY <1>0, <2>2, <2>3, <3>1 DEF Phases
    <3>2. CASE reqs' = RemoveAt(reqs, pos)
      BY <2>1, <2>2, <2>3, <3>2, UnlinkedList DEF Phases
    <3> QED BY <1>8, <2>1, <3>1, <3>2 DEF Unlink, Undefined
  <2> QED BY <2>1, <2>2, <2>3 DEF InHand
<1>9. ASSUME NEW d \in Calls, Enqueue(d) PROVE (InHand(c)' <=> InHand(c)) /\ (InHand(c) => dframe' = dframe)
  <2>1. dpc # "scan" /\ UNCHANGED <<dpc, dframe>>
    BY <1>9 DEF Enqueue, ReqsLocked, daemonVars
  <2> QED BY <2>1 DEF InHand
<1>10. ~CloseSocket /\ ~Drain /\ ~DaemonExit
  BY ServingStep DEF CloseSocket, Drain, DaemonExit, Serving
<1> QED BY <1>1, <1>2, <1>3, <1>4, <1>5, <1>6, <1>7, <1>8, <1>9, <1>10, DaemonFootprint, ListFootprint
       DEF DaemonStep, Undefined, Serving, daemonVars

(* Nothing that a call waits for, or has received, has changed. *)
LEMMA ContiguousSame ==
    ASSUME NEW c \in Calls, Contiguous(c), Waiting(c)' = Waiting(c),
           UNCHANGED <<agent, ready[c], delivered[c], answer[c], sent[c]>>
    PROVE  Contiguous(c)'
  BY DEF Contiguous, Base

(* The number of the next frame of a call is natural. *)
LEMMA BaseNat == ASSUME TypeOK, NEW c \in Calls PROVE Base(c) \in Nat
  BY DEF Base, TypeOK, TypeCtx

(* A callback is given the frame that its call needs next. *)
LEMMA NextInHand ==
    ASSUME TypeOK, Numbered, Phases, FrameOrder, AtRequest, Matches, Contiguous(reqs[pos])
    PROVE  /\ reqs[pos] \in Calls /\ InHand(reqs[pos])
           /\ dframe.body = <<reqs[pos], Base(reqs[pos])>>
<1> DEFINE c == reqs[pos]
<1>1. c \in Calls /\ dframe \in Frames /\ dframe.body[1] = c /\ pos \in DOMAIN reqs
  BY FrameForCursor
<1>2. InHand(c)
  BY <1>1, FrameFields DEF InHand, AtRequest, TypeOK, TypeDaemon
<1>3. dframe.body[2] \in Waiting(c)
  BY <1>2 DEF Waiting
<1>4. Base(c) \in Nat
  BY <1>1, BaseNat
<1>5. dframe.body[2] \in Nat /\ \A k \in OnWire(c) : dframe.body[2] < k
  BY <1>1, <1>2, WaitingNumbers
<1>6. dframe.body[2] >= Base(c) /\ Base(c) \in Waiting(c)
  BY <1>3, <1>4, <1>5 DEF Contiguous
<1>7. dframe.body[2] = Base(c)
  BY <1>4, <1>5, <1>6 DEF Waiting
<1>8. dframe.body = <<dframe.body[1], dframe.body[2]>>
  BY <1>1 DEF Frames
<1> QED BY <1>1, <1>2, <1>7, <1>8

(* The callback of call c takes the frame that c needs next. *)
LEMMA DispatchContiguous ==
    ASSUME TypeOK, Numbered, Phases, FrameOrder, StreamsLive,
           Dispatch, Serving', NEW c \in Calls, c = reqs[pos], c \notin Silent, Contiguous(c)
    PROVE  Contiguous(c)'
<1>1. AtRequest /\ Matches /\ dpc = "scan" /\ ~Undefined
  BY DEF Dispatch, AtRequest, Undefined, Serving
<1>2. /\ pos \in DOMAIN reqs /\ UNCHANGED <<agent, answer, sent, wire, reqs, dframe, pos>>
      /\ dpc' = "unlink" /\ ready' = [ready EXCEPT ![c] = TRUE]
  BY <1>1, DispatchEffect
<1>3. InHand(c) /\ dframe.body[2] = Base(c) /\ Base(c) \in Nat
  BY <1>1, NextInHand, BaseNat
<1>4. Base(c)' = Base(c) + 1
  <2>1. ready'[c] = TRUE
    BY <1>2 DEF TypeOK, TypeCtx
  <2>2. CASE ~ready[c]
    <3>1. delivered[c] = <<>>
      BY <2>2 DEF Phases
    <3>2. delivered' = delivered
      BY <1>1, <2>2 DEF Dispatch, OneShotCallback, StreamResponse, StreamDeliver
    <3> QED BY <2>1, <2>2, <3>1, <3>2 DEF Base
  <2>3. CASE ready[c]
    <3>1. ~OnStack(c)
      BY <1>1, <1>2, <2>3 DEF StreamsLive, Serving
    <3>2. StreamDeliver(c, dframe)
      BY <1>1, <2>3, <3>1 DEF Dispatch, OneShotCallback, StreamResponse
    <3>3. delivered'[c] = Append(delivered[c], dframe.body)
      BY <3>2 DEF StreamDeliver, TypeOK, TypeCtx
    <3>4. delivered[c] \in Seq(Calls \X Nat)
      BY DEF TypeOK, TypeCtx
    <3>5. Len(delivered'[c]) = Len(delivered[c]) + 1
      BY <3>3, <3>4
    <3> QED BY <2>1, <2>3, <3>4, <3>5 DEF Base
  <2> QED BY <2>2, <2>3
<1>5. Waiting(c)' = Waiting(c) \ {Base(c)}
  <2>1. ~InHand(c)' /\ OnWire(c)' = OnWire(c)
    BY <1>2 DEF InHand, OnWire
  <2>2. \A k \in OnWire(c) : Base(c) < k
    BY <1>3, WaitingNumbers
  <2>3. Base(c) \notin OnWire(c)
    BY <1>3, <2>2
  <2>4. Waiting(c) = OnWire(c) \cup {Base(c)} /\ Waiting(c)' = OnWire(c)
    BY <1>3, <2>1 DEF Waiting
  <2> QED BY <2>3, <2>4
<1>6. Waiting(c) \subseteq Nat /\ sent[c] \in Nat
  BY WaitingNumbers DEF TypeOK, TypeAgent
<1>7. sent[c] < MaxResults => Base(c) <= sent[c]
  BY <1>1, <1>3, FrameForCursor DEF Genuine
<1>8. ASSUME NEW k \in Waiting(c)'
      PROVE  k >= Base(c) + 1 /\ (Base(c) + 1)..k \subseteq Waiting(c)'
  <2>1. k \in Waiting(c) /\ k # Base(c) /\ k \in Nat
    BY <1>5, <1>6
  <2>2. k >= Base(c) /\ Base(c)..k \subseteq Waiting(c)
    BY <2>1 DEF Contiguous
  <2> QED BY <1>3, <1>5, <2>1, <2>2
<1>9. ASSUME agent = "up", answer[c] # "none", sent[c] < MaxResults
      PROVE  Base(c) + 1 <= sent[c] + 1 /\ (Base(c) + 1)..sent[c] \subseteq Waiting(c)'
  <2>1. Base(c)..sent[c] \subseteq Waiting(c)
    BY <1>9 DEF Contiguous
  <2> QED BY <1>3, <1>5, <1>6, <1>7, <1>9, <2>1
<1> QED BY <1>2, <1>4, <1>8, <1>9 DEF Contiguous

(* The agent's next frame for call c follows the ones it has sent. *)
LEMMA SendContiguous ==
    ASSUME TypeOK, TypeOK', Phases, FrameOrder, NEW c \in Calls, NEW d \in Calls,
           AgentRespond(d) \/ AgentResult(d), Linked(c), Contiguous(c),
           c \in Silent => ~ready[c], RvRight, Serving
    PROVE  Contiguous(c)'
<1>1. UNCHANGED <<agent, ready, delivered, reqs, dpc, dframe, pos>> /\ agent = "up"
  BY DEF AgentRespond, AgentResult, ctxVars, daemonVars
<1>2. PICK f \in Frames :
         /\ wire' = Append(wire, f) /\ f.body[1] = d
         /\ f.body[2] = (IF answer[d] = "none" THEN 0 ELSE sent[d] + 1)
  BY NewFrame
<1>3. wire \in Seq(Frames) /\ sent \in [Calls -> Nat] /\ answer \in [Calls -> Replies \cup {"none"}]
      /\ MaxResults \in Nat
  BY ClientAssumption DEF TypeOK, TypeAgent
<1>4. /\ DOMAIN wire' = 1..(Len(wire) + 1) /\ DOMAIN wire = 1..Len(wire) /\ Len(wire) \in Nat
      /\ wire'[Len(wire) + 1] = f /\ \A i \in 1..Len(wire) : wire'[i] = wire[i]
  BY <1>2, <1>3
<1>5. InHand(c)' <=> InHand(c)
  BY <1>1 DEF InHand
<1>6. CASE d # c
  <2>1. OnWire(c)' = OnWire(c)
    BY <1>2, <1>4, <1>6 DEF OnWire
  <2>2. Waiting(c)' = Waiting(c)
    BY <1>1, <1>5, <2>1 DEF Waiting
  <2>3. answer'[c] = answer[c] /\ sent'[c] = sent[c]
    BY <1>3, <1>6 DEF AgentRespond, AgentResult
  <2> QED BY <1>1, <2>2, <2>3, ContiguousSame
<1>7. CASE d = c
  <2>1. OnWire(c)' = OnWire(c) \cup {f.body[2]}
    BY <1>2, <1>4, <1>7 DEF OnWire
  <2>2. Waiting(c)' = Waiting(c) \cup {f.body[2]}
    BY <1>1, <1>5, <2>1 DEF Waiting
  <2>3. Base(c)' = Base(c) /\ Base(c) \in Nat /\ Waiting(c) \subseteq Nat
    BY <1>1, BaseNat, WaitingNumbers DEF Base
  <2>4. CASE AgentRespond(c)
    <3>1. answer[c] = "none" /\ sent[c] = 0 /\ sent' = sent
      BY <2>4 DEF AgentRespond, Phases
    <3>2. ~ready[c]
      BY <3>1 DEF RvRight
    <3>3. Base(c) = 0 /\ f.body[2] = 0
      BY <1>2, <1>7, <3>1, <3>2 DEF Base
    <3>4. \A k \in Waiting(c)' : k >= 0 /\ 0..k \subseteq Waiting(c)'
      BY <2>2, <2>3, <3>3 DEF Contiguous
    <3> QED BY <2>2, <2>3, <3>1, <3>3, <3>4 DEF Contiguous
  <2>5. CASE AgentResult(c)
    <3>1. answer[c] # "none" /\ sent[c] < MaxResults /\ answer' = answer
          /\ sent'[c] \in {sent[c] + 1, MaxResults}
      BY <1>3, <2>5 DEF AgentResult
    <3>2. f.body[2] = sent[c] + 1
      BY <1>2, <1>7, <3>1
    <3>3. Base(c) <= sent[c] + 1 /\ Base(c)..sent[c] \subseteq Waiting(c)
      BY <1>1, <3>1 DEF Contiguous
    <3>4. Base(c)..(sent[c] + 1) \subseteq Waiting(c)'
      BY <1>3, <2>2, <2>3, <3>2, <3>3
    <3>5. \A k \in Waiting(c)' : k >= Base(c) /\ Base(c)..k \subseteq Waiting(c)'
      <4>1. \A k \in Waiting(c) : k >= Base(c) /\ Base(c)..k \subseteq Waiting(c)'
        BY <2>2 DEF Contiguous
      <4> QED BY <1>3, <2>2, <2>3, <3>2, <3>3, <3>4, <4>1
    <3>6. sent'[c] < MaxResults => sent'[c] = sent[c] + 1
      BY <1>3, <3>1
    <3>7. sent'[c] < MaxResults => Base(c) <= sent'[c] + 1 /\ Base(c)..sent'[c] \subseteq Waiting(c)'
      BY <1>3, <2>3, <3>3, <3>4, <3>6
    <3> QED BY <2>3, <3>5, <3>7 DEF Contiguous
  <2> QED BY <1>7, <2>4, <2>5
<1> QED BY <1>6, <1>7

(* What is lost with a connection is the end of what was sent. *)
LEMMA CloseContiguous ==
    ASSUME TypeOK, FrameOrder, NEW c \in Calls, AgentClose, Contiguous(c)
    PROVE  Contiguous(c)'
<1>1. UNCHANGED <<ready, delivered, reqs, dpc, dframe, pos>> /\ agent' = "gone"
  BY DEF AgentClose, ctxVars, daemonVars
<1>2. PICK n \in 0..Len(wire) : wire' = SubSeq(wire, 1, n)
  BY DEF AgentClose
<1>3. wire \in Seq(Frames)
  BY DEF TypeOK, TypeAgent
<1>4. /\ DOMAIN wire' = 1..n /\ DOMAIN wire = 1..Len(wire) /\ n \in Nat
      /\ \A i \in 1..n : i \in DOMAIN wire /\ wire'[i] = wire[i]
      /\ \A i \in DOMAIN wire : i \in Nat /\ wire[i] \in Frames
  BY <1>2, <1>3
<1>5. InHand(c)' <=> InHand(c)
  BY <1>1 DEF InHand
<1>6. Base(c)' = Base(c) /\ Base(c) \in Nat /\ Waiting(c) \subseteq Nat
  BY <1>1, BaseNat, WaitingNumbers DEF Base
<1>7. \A i \in DOMAIN wire : wire[i].body[2] \in Nat
  BY <1>4, FrameFields
<1> SUFFICES ASSUME NEW k \in Waiting(c)'
             PROVE  k >= Base(c) /\ Base(c)..k \subseteq Waiting(c)'
  BY <1>1, <1>6 DEF Contiguous
<1>8. OnWire(c)' \subseteq OnWire(c)
  BY <1>4 DEF OnWire
<1>9. k \in Waiting(c)
  BY <1>1, <1>5, <1>8 DEF Waiting
<1>10. k >= Base(c) /\ Base(c)..k \subseteq Waiting(c) /\ k \in Nat
  BY <1>6, <1>9 DEF Contiguous
<1>11. ASSUME NEW j \in Base(c)..k PROVE j \in Waiting(c)'
  <2>1. j \in Waiting(c) /\ j <= k /\ j \in Nat
    BY <1>6, <1>10
  <2>2. CASE InHand(c) /\ j = dframe.body[2]
    BY <1>1, <1>5, <2>2 DEF Waiting
  <2>3. CASE j \in OnWire(c)
    <3>1. PICK m \in DOMAIN wire : wire[m].body[1] = c /\ wire[m].body[2] = j
      BY <2>3 DEF OnWire
    <3>2. CASE InHand(c) /\ k = dframe.body[2]
      BY <1>10, <2>1, <2>3, <3>2, WaitingNumbers
    <3>3. CASE k \in OnWire(c)'
      <4>1. PICK i \in DOMAIN wire' : wire'[i].body[1] = c /\ wire'[i].body[2] = k
        BY <3>3 DEF OnWire
      <4>2. i \in DOMAIN wire /\ wire[i].body[1] = c /\ wire[i].body[2] = k /\ i <= n
        BY <1>4, <4>1
      <4>3. ~(i < m)
        BY <1>10, <2>1, <3>1, <4>2 DEF FrameOrder, Before
      <4>4. m \in DOMAIN wire' /\ wire'[m] = wire[m]
        BY <1>4, <3>1, <4>2, <4>3
      <4>5. j \in OnWire(c)'
        BY <3>1, <4>4 DEF OnWire
      <4> QED BY <4>5 DEF Waiting
    <3> QED BY <1>1, <1>5, <3>2, <3>3 DEF Waiting
  <2> QED BY <2>1, <2>2, <2>3 DEF Waiting
<1> QED BY <1>10, <1>11

(* A frame that bw2_daemon reads stays on its way to its call. *)
LEMMA ReadContiguous ==
    ASSUME TypeOK, NEW c \in Calls, ReadFrame, Contiguous(c)
    PROVE  Contiguous(c)'
<1>1. /\ dpc = "reading" /\ dpc' = "lock" /\ dframe' = Head(wire) /\ wire' = Tail(wire)
      /\ wire # <<>> /\ UNCHANGED <<agent, ready, delivered, answer, sent>>
  BY DEF ReadFrame, agentVars, ctxVars
<1>2. wire \in Seq(Frames)
  BY DEF TypeOK, TypeAgent
<1>3. /\ 1 \in DOMAIN wire /\ dframe' = wire[1] /\ wire[1] \in Frames
      /\ DOMAIN wire = 1..Len(wire) /\ DOMAIN wire' = 1..(Len(wire) - 1) /\ Len(wire) \in Nat
      /\ \A i \in 1..(Len(wire) - 1) : wire'[i] = wire[i + 1]
  BY <1>1, <1>2
<1>4. ~InHand(c) /\ (InHand(c)' <=> wire[1].body[1] = c)
  BY <1>1, <1>3, FrameNotNone DEF InHand
<1>5. OnWire(c) = OnWire(c)' \cup (IF wire[1].body[1] = c THEN {wire[1].body[2]} ELSE {})
  <2>1. \A i \in DOMAIN wire' : i + 1 \in DOMAIN wire /\ wire'[i] = wire[i + 1]
    BY <1>3
  <2>2. \A i \in DOMAIN wire : i # 1 => i - 1 \in DOMAIN wire' /\ wire'[i - 1] = wire[i]
    BY <1>3
  <2> QED BY <1>3, <2>1, <2>2 DEF OnWire
<1>6. Waiting(c)' = Waiting(c)
  BY <1>3, <1>4, <1>5 DEF Waiting
<1> QED BY <1>1, <1>6, ContiguousSame

-----------------------------------------------------------------------------
(* A step that is not a callback of call c leaves its reqctx alone. *)
LEMMA CtxStep ==
    ASSUME TypeOK, Phases, [Next]_vars, NEW c \in Calls
    PROVE  /\ ready[c] => ready'[c]
           /\ \/ UNCHANGED <<ready[c], rv[c], delivered[c]>>
              \/ Dispatch /\ reqs[pos] = c /\ ~Undefined
              \/ ~Serving' /\ rv'[c] = CONNECTION_LOST /\ UNCHANGED delivered[c]
<1>1. CASE UNCHANGED ctxVars
  BY <1>1 DEF ctxVars
<1>2. CASE Undefined
  BY <1>2 DEF Undefined, ctxVars
<1>3. CASE Dispatch /\ ~Undefined
  BY <1>3, DispatchEffect DEF TypeOK, TypeCtx
<1>4. CASE Drain /\ ~Undefined
  BY <1>4, DrainEffect DEF TypeOK, TypeCtx, Serving
<1> QED BY <1>1, <1>2, <1>3, <1>4, CtxFootprint

(* Nothing comes between what a call has received and what is on its way. *)
LEMMA NoGapStep ==
    ASSUME TypeOK, TypeOK', Numbered, Phases, FrameOrder, NoGap, RvRight, AtUnlink, StreamsLive,
           [Next]_vars
    PROVE  NoGap'
<1> SUFFICES ASSUME Serving', NEW c \in Calls, Linked(c)', c \in Silent => ~ready'[c]
             PROVE  Contiguous(c)'
  BY DEF NoGap
<1>1. Serving
  BY ServingStep
<1>2. c \in Silent => ~ready[c]
  BY CtxStep
<1>3. CASE ~Linked(c)
  <2>1. Enqueue(c)
    BY <1>3, LinkStep
  <2>2. /\ pc[c] = "enqueue" /\ ~ReqsLocked
        /\ UNCHANGED <<agent, answer, sent, wire, ready, delivered, dpc, dframe>>
    BY <2>1 DEF Enqueue, agentVars, ctxVars, daemonVars
  <2>3. ~ready[c] /\ answer[c] = "none"
    BY <2>2 DEF Phases
  <2>4. OnWire(c)' = {} /\ ~InHand(c)'
    BY <2>2, <2>3 DEF OnWire, InHand, FrameOrder, Genuine
  <2>5. Waiting(c)' = {}
    BY <2>4 DEF Waiting
  <2> QED BY <2>2, <2>3, <2>5 DEF Contiguous
<1>4. CASE Linked(c)
  <2>1. Contiguous(c)
    BY <1>1, <1>2, <1>4 DEF NoGap
  <2>2. CASE Dispatch /\ reqs[pos] = c
    <3>1. c \notin Silent
      BY <1>1, <2>2, DispatchEffect DEF Undefined, Serving, TypeOK, TypeCtx
    <3> QED BY <2>1, <2>2, <3>1, DispatchContiguous
  <2>3. CASE ReadFrame
    BY <2>1, <2>3, ReadContiguous
  <2>4. CASE AgentClose
    BY <2>1, <2>4, CloseContiguous
  <2>5. ASSUME NEW d \in Calls, AgentRespond(d) \/ AgentResult(d) PROVE Contiguous(c)'
    BY <1>1, <1>2, <1>4, <2>1, <2>5, SendContiguous
  <2>6. CASE /\ UNCHANGED <<agent, answer, sent, wire>>
             /\ ~ReadFrame /\ ~(Dispatch /\ reqs[pos] = c)
    <3>1. (InHand(c)' <=> InHand(c)) /\ (InHand(c) => dframe' = dframe)
      BY <1>4, <2>6, HandStep
    <3>2. OnWire(c)' = OnWire(c)
      BY <2>6 DEF OnWire
    <3>3. Waiting(c)' = Waiting(c)
      BY <3>1, <3>2 DEF Waiting
    <3>4. UNCHANGED <<ready[c], delivered[c]>>
      BY <2>6, CtxStep
    <3> QED BY <2>1, <2>6, <3>3, <3>4, ContiguousSame
  <2> QED BY <2>2, <2>3, <2>4, <2>5, <2>6, WireFootprint
<1> QED BY <1>3, <1>4

(* What a callback finds: its own frame, the next one of its call. *)
LEMMA CallbackFinds ==
    ASSUME TypeOK, Numbered, Phases, FrameOrder, NoGap, StreamsLive, Dispatch, ~Undefined
    PROVE  /\ reqs[pos] \in Calls /\ pos \in DOMAIN reqs
           /\ dframe.body[1] = reqs[pos] /\ Genuine(dframe)
           /\ (reqs[pos] \in Silent => ~ready[reqs[pos]]) =>
                 dframe.body = <<reqs[pos], Base(reqs[pos])>>
           /\ ready[reqs[pos]] => ~OnStack(reqs[pos]) /\ rv[reqs[pos]] = 0
           /\ \/ OneShotCallback(reqs[pos], dframe) /\ ~ready[reqs[pos]]
              \/ StreamResponse(reqs[pos], dframe)
              \/ StreamDeliver(reqs[pos], dframe)
<1>1. AtRequest /\ Matches /\ dpc = "scan" /\ Serving
  BY DEF Dispatch, AtRequest, Serving
<1>2. /\ pos \in DOMAIN reqs /\ reqs[pos] \in Calls /\ Genuine(dframe)
      /\ dframe.body[1] = reqs[pos]
  BY <1>1, FrameForCursor
<1>3. (reqs[pos] \in Silent => ~ready[reqs[pos]]) => dframe.body = <<reqs[pos], Base(reqs[pos])>>
  BY <1>1, <1>2, NextInHand DEF NoGap, Linked
<1>4. ready[reqs[pos]] => ~OnStack(reqs[pos]) /\ rv[reqs[pos]] = 0
  BY <1>1, <1>2 DEF StreamsLive
<1>5. \/ OneShotCallback(reqs[pos], dframe)
      \/ StreamResponse(reqs[pos], dframe)
      \/ StreamDeliver(reqs[pos], dframe)
  BY DEF Dispatch
<1> QED BY <1>2, <1>3, <1>4, <1>5 DEF OneShotCallback

(* Only bw2_subscribe with a handle asks for memory that a stream fills. *)
LEMMA HandleCalls ==
    ASSUME NEW c \in Calls
    PROVE  Kind[c] = "subscribeHandle" <=> ~OnStack(c) /\ HasOut(c)
<1>1. Kind[c] \in DOMAIN Api
  BY ClientAssumption
<1> QED BY <1>1 DEF Api, OnStack, HasOut, setEntity, publish, subscribe, query, list, createDOT,
       createEntity, createDOTChain, buildChain, unsubscribe

(* rv is written with the status of the call's own response. *)
LEMMA RvRightStep ==
    ASSUME TypeOK, Numbered, Phases, FrameOrder, NoGap, RvRight, StreamsLive, [Next]_vars
    PROVE  RvRight'
<1> SUFFICES ASSUME NEW c \in Calls, ready'[c]
             PROVE  /\ rv'[c] \in {OwnAnswer(c)', CONNECTION_LOST}
                    /\ Serving' => rv'[c] = OwnAnswer(c)' /\ answer'[c] # "none"
  BY DEF RvRight
<1>0. answer[c] # "none" => OwnAnswer(c)' = OwnAnswer(c) /\ answer'[c] = answer[c]
  BY AgentCounts DEF OwnAnswer
<1>1. CASE UNCHANGED <<ready[c], rv[c], delivered[c]>>
  <2>1. rv[c] \in {OwnAnswer(c), CONNECTION_LOST} /\ (Serving => rv[c] = OwnAnswer(c) /\ answer[c] # "none")
    BY <1>1 DEF RvRight
  <2>2. answer[c] = "none" => OwnAnswer(c) = CONNECTION_LOST
    BY DEF OwnAnswer
  <2> QED BY <1>0, <1>1, <2>1, <2>2, ServingStep
<1>2. CASE ~Serving' /\ rv'[c] = CONNECTION_LOST
  BY <1>2
<1>3. CASE Dispatch /\ reqs[pos] = c /\ ~Undefined
  <2>1. answer[c] # "none"
    BY <1>3, CallbackFinds DEF Genuine
  <2>2. CASE ready[c]
    <3>1. StreamDeliver(c, dframe) /\ Serving
      BY <1>3, <2>2, CallbackFinds DEF StreamResponse, Dispatch, AtRequest, Serving
    <3>2. rv'[c] = 0 /\ rv[c] = 0
      BY <1>3, <2>2, <3>1, CallbackFinds DEF StreamDeliver, TypeOK, TypeCtx
    <3> QED BY <1>0, <2>1, <2>2, <3>1, <3>2 DEF RvRight
  <2>3. CASE ~ready[c]
    <3>1. dframe.body[2] = 0 /\ dframe.reply = answer[c]
      BY <1>3, <2>3, CallbackFinds DEF Base, Genuine
    <3>2. \/ OnStack(c) /\ rv'[c] = frameMustResponse(dframe)
          \/ /\ ~OnStack(c)
             /\ rv'[c] = IF frameMustResponse(dframe) = 0 /\ HasOut(c) /\ dframe.reply = "bare"
                         THEN MISSING_HEADER ELSE frameMustResponse(dframe)
      BY <1>3, <2>3, CallbackFinds DEF OneShotCallback, StreamResponse, StreamDeliver, TypeOK, TypeCtx
    <3>3. answer[c] \in {"okay", "bare", "error", "nostatus"}
      BY <2>1, ClientAssumption DEF TypeOK, TypeAgent
    <3>4. rv'[c] = OwnAnswer(c)
      BY <3>1, <3>2, <3>3, HandleCalls DEF OwnAnswer, frameMustResponse
    <3> QED BY <1>0, <2>1, <3>4
  <2> QED BY <2>2, <2>3
<1> QED BY <1>1, <1>2, <1>3, CtxStep

(* While bw2_daemon is between a callback and the list, nothing else moves  *)
(* its cursor or the list.                                                  *)
LEMMA CursorKept ==
    ASSUME TypeOK, Phases, [Next]_vars, Serving', dpc = "unlink" \/ dpc' = "unlink"
    PROVE  \/ Unlink /\ ~Undefined
           \/ Dispatch /\ ~Undefined
           \/ UNCHANGED <<reqs, dpc, dframe, pos, dstop, ready, rv>>
<1>1. ~Undefined
  BY DEF Undefined, Serving
<1>2. CASE DaemonStep
  BY <1>1, <1>2 DEF DaemonStep, EnterRead, ReadFrame, ReadFail, ReadFailed, LockReqs,
     CloseSocket, Drain, DaemonExit, ScanSkip, ScanEnd, AtRequest, daemonVars
<1>3. CASE ConnectSpawn
  BY <1>3 DEF ConnectSpawn, Phases
<1>4. CASE UNCHANGED daemonVars /\ ~DaemonStep
  <2>1. dpc = "unlink" /\ UNCHANGED <<dpc, dframe, pos, dstop>>
    BY <1>4 DEF daemonVars
  <2>2. \A c \in Calls : ~Enqueue(c)
    BY <2>1 DEF Enqueue, ReqsLocked
  <2>3. UNCHANGED reqs
    BY <1>4, <2>2, ListFootprint DEF DaemonStep
  <2>4. UNCHANGED <<ready, rv>>
    BY <1>4, CtxFootprint DEF DaemonStep, ctxVars
  <2> QED BY <2>1, <2>3, <2>4
<1> QED BY <1>1, <1>2, <1>3, <1>4, DaemonFootprint

(* What the callback decides holds when the list is updated. *)
LEMMA AtUnlinkStep ==
    ASSUME TypeOK, Numbered, Phases, FrameOrder, NoGap, AtUnlink, StreamsLive, [Next]_vars
    PROVE  AtUnlink'
<1> SUFFICES ASSUME dpc' = "unlink"
             PROVE  /\ ready'[reqs'[pos']] /\ dframe'.body[1] = reqs'[pos']
                    /\ OnStack(reqs'[pos']) => dstop' = "true"
                    /\ dstop' = "false" => rv'[reqs'[pos']] = 0
  BY DEF AtUnlink, OnStack
<1>1. CASE UNCHANGED <<reqs, dpc, dframe, pos, dstop, ready, rv>>
  BY <1>1 DEF AtUnlink, OnStack
<1>2. CASE Unlink /\ ~Undefined
  BY <1>2 DEF Unlink
<1>3. CASE Dispatch /\ ~Undefined
  <2>1. UNCHANGED <<reqs, pos, dframe>> /\ ready'[reqs[pos]] /\ reqs[pos] \in Calls
    BY <1>3, DispatchEffect DEF TypeOK, TypeCtx
  <2>2. dframe.body[1] = reqs[pos]
    BY <1>3, CallbackFinds
  <2>3. \/ OneShotCallback(reqs[pos], dframe)
        \/ StreamResponse(reqs[pos], dframe)
        \/ StreamDeliver(reqs[pos], dframe)
    BY <1>3, CallbackFinds
  <2>4. /\ OnStack(reqs[pos]) => dstop' = "true"
        /\ dstop' = "false" => rv'[reqs[pos]] = 0
    BY <2>1, <2>3 DEF OneShotCallback, StreamResponse, StreamDeliver, TypeOK, TypeCtx
  <2> QED BY <2>1, <2>2, <2>4
<1> QED BY <1>1, <1>2, <1>3, CursorKept DEF Serving

(* Only accepted streams stay linked after their response. *)
LEMMA StreamsLiveStep ==
    ASSUME TypeOK, TypeOK', Phases, AtUnlink, StreamsLive, [Next]_vars
    PROVE  StreamsLive'
<1> SUFFICES ASSUME Serving', NEW i \in DOMAIN reqs', ready'[reqs'[i]],
                    ~(dpc' = "unlink" /\ pos' = i)
             PROVE  ~OnStack(reqs'[i]) /\ rv'[reqs'[i]] = 0
  BY DEF StreamsLive, OnStack
<1>0. Serving /\ reqs \in Seq(Calls) /\ reqs' \in Seq(Calls) /\ reqs'[i] \in Calls
  BY ServingStep DEF TypeOK, TypeCalls
<1>1. CASE Dispatch
  <2>1. ~Undefined /\ dpc = "scan"
    BY <1>1 DEF Dispatch, AtRequest, Undefined, Serving
  <2>2. /\ UNCHANGED <<reqs, pos>> /\ dpc' = "unlink" /\ pos \in DOMAIN reqs
        /\ ready' = [ready EXCEPT ![reqs[pos]] = TRUE]
        /\ \A c \in Calls : c # reqs[pos] => rv'[c] = rv[c]
    BY <1>1, <2>1, DispatchEffect
  <2>3. i \in DOMAIN reqs /\ i # pos /\ reqs[i] # reqs[pos]
    BY <2>2 DEF Phases
  <2> QED BY <1>0, <2>1, <2>2, <2>3 DEF StreamsLive, TypeOK, TypeCtx
<1>2. CASE Unlink
  <2>1. ~Undefined /\ dpc = "unlink" /\ UNCHANGED <<ready, rv>> /\ pos \in 1..Len(reqs)
    BY <1>0, <1>2 DEF Unlink, Undefined, Serving, ctxVars, TypeOK, TypeDaemon
  <2>2. CASE Unlinks
    <3>1. reqs' = RemoveAt(reqs, pos)
      BY <1>2, <2>1, <2>2 DEF Unlink
    <3>2. \E k \in DOMAIN reqs : k # pos /\ reqs'[i] = reqs[k]
      BY <2>1, <3>1, UnlinkedList
    <3> QED BY <1>0, <2>1, <3>2 DEF StreamsLive
  <2>3. CASE ~Unlinks
    <3>1. reqs' = reqs
      BY <1>2, <2>1, <2>3 DEF Unlink
    <3>2. CASE i # pos
      BY <1>0, <2>1, <3>1, <3>2 DEF StreamsLive
    <3>3. CASE i = pos
      BY <2>1, <2>3, <3>1, <3>3 DEF AtUnlink, Unlinks, StopListening, TypeOK, TypeDaemon
    <3> QED BY <3>2, <3>3
  <2> QED BY <2>2, <2>3
<1>3. CASE ~Dispatch /\ ~Unlink
  <2>1. ready'[reqs'[i]] = ready[reqs'[i]] /\ rv'[reqs'[i]] = rv[reqs'[i]]
    BY <1>0, <1>3, CtxStep
  <2>2. \E k \in DOMAIN reqs : reqs'[i] = reqs[k] /\ ~(dpc = "unlink" /\ pos = k)
    <3>1. CASE UNCHANGED reqs
      BY <1>3, <3>1, CursorKept
    <3>2. ASSUME NEW c \in Calls, Enqueue(c), reqs' # reqs
          PROVE \E k \in DOMAIN reqs : reqs'[i] = reqs[k] /\ ~(dpc = "unlink" /\ pos = k)
      <4>1. reqs' = Cons(c, reqs) /\ dpc # "unlink" /\ pc[c] = "enqueue" /\ UNCHANGED ready
        BY <3>2 DEF Enqueue, ReqsLocked, ctxVars
      <4>2. ~ready'[c]
        BY <4>1 DEF Phases
      <4>3. i # 1 => i - 1 \in DOMAIN reqs /\ reqs'[i] = reqs[i - 1]
        BY <4>1, LinkedList
      <4>4. i # 1
        BY <4>1, <4>2, LinkedList
      <4> QED BY <4>1, <4>3, <4>4
    <3> QED BY <1>3, <3>1, <3>2, ListFootprint
  <2> QED BY <1>0, <2>1, <2>2 DEF StreamsLive
<1> QED BY <1>1, <1>2, <1>3

(* A user function is given the next result of its own request. *)
LEMMA ResultsStep ==
    ASSUME TypeOK, Numbered, Phases, FrameOrder, NoGap, StreamsLive, ResultsInOrder, [Next]_vars
    PROVE  ResultsInOrder'
<1> SUFFICES ASSUME NEW c \in Calls
             PROVE  \A i \in DOMAIN delivered'[c] : delivered'[c][i] = <<c, i>>
  BY DEF ResultsInOrder
<1>1. \A i \in DOMAIN delivered[c] : delivered[c][i] = <<c, i>>
  BY DEF ResultsInOrder
<1>2. CASE UNCHANGED delivered[c]
  BY <1>1, <1>2
<1>3. CASE Dispatch /\ reqs[pos] = c /\ ~Undefined /\ delivered'[c] # delivered[c]
  <2>1. StreamDeliver(c, dframe) /\ c \notin Silent
    BY <1>3, CallbackFinds DEF OneShotCallback, StreamResponse, StreamDeliver
  <2>2. delivered'[c] = Append(delivered[c], <<c, Len(delivered[c]) + 1>>)
    BY <1>3, <2>1, CallbackFinds DEF StreamDeliver, Base, TypeOK, TypeCtx
  <2>3. delivered[c] \in Seq(Calls \X Nat)
    BY DEF TypeOK, TypeCtx
  <2> QED BY <1>1, <2>2, <2>3
<1> QED BY <1>2, <1>3, CtxStep

-----------------------------------------------------------------------------
(* Before the first call there is nothing on its way to anyone. *)
LEMMA OrderInit == Init => OrderInv
<1> SUFFICES ASSUME Init PROVE OrderInv
  OBVIOUS
<1>1. ConnInv
  <2>1. Uninit # CONNECTION_LOST
    BY DEF Uninit, CONNECTION_LOST
  <2> QED BY <2>1, TypeInit DEF Init, ConnInv, BeforeUp, LostNews, LostMeansDisconnected, ConnectedFdOpen
<1>2. Begun = {} /\ DOMAIN reqs = {} /\ DOMAIN wire = {}
  BY DEF Init, Begun
<1>3. Numbered
  <2>1. Cardinality({}) = 0 /\ 0 % SeqSpace = 0
    BY FS_EmptySet, ClientAssumption
  <2> QED BY <1>2, <2>1 DEF Init, Numbered
<1>4. Phases /\ FrameOrder
  BY <1>2 DEF Init, Phases, Linked, FrameOrder
<1>5. NoGap /\ RvRight /\ AtUnlink /\ StreamsLive
  BY <1>2 DEF Init, NoGap, Linked, RvRight, AtUnlink, StreamsLive
<1>6. ResultsInOrder
  BY DEF Init, ResultsInOrder
<1> QED BY <1>1, <1>3, <1>4, <1>5, <1>6 DEF OrderInv

(* OrderInv is inductive, whatever the environment does. *)
LEMMA OrderStep ==
    ASSUME NumbersSuffice, OrderInv, [Next]_vars
    PROVE  OrderInv'
<1>1. ConnInv' /\ TypeOK /\ TypeOK'
  BY ConnStep DEF OrderInv, ConnInv
<1>2. Numbered' /\ Phases' /\ FrameOrder'
  BY <1>1, NumberedStep, PhasesStep, FrameOrderStep DEF OrderInv
<1>3. NoGap' /\ RvRight' /\ AtUnlink' /\ StreamsLive' /\ ResultsInOrder'
  BY <1>1, NoGapStep, RvRightStep, AtUnlinkStep, StreamsLiveStep, ResultsStep DEF OrderInv
<1> QED BY <1>1, <1>2, <1>3 DEF OrderInv

(* OrderInv holds in every reachable state. *)
LEMMA OrderInvariant == ASSUME NumbersSuffice PROVE Spec => []OrderInv
<1>1. OrderInv /\ [Next]_vars => OrderInv'
  BY OrderStep
<1> QED BY <1>1, OrderInit, PTL DEF Spec

(* Whatever the environment does, the user function of a request is given   *)
(* the results of that request, each once, in the order in which the agent  *)
(* sent them: bw2_daemon tells them apart by their sequence numbers alone.  *)
THEOREM ResultsAreInOrder == ASSUME NumbersSuffice PROVE Spec => []ResultsInOrder
<1>1. OrderInv => ResultsInOrder
  BY DEF OrderInv
<1> QED BY <1>1, OrderInvariant, PTL

(* The status that rv holds is a status the agent gave, and was set.        *)
LEMMA OwnAnswerValues ==
    ASSUME TypeOK, NEW c \in Calls
    PROVE  /\ OwnAnswer(c) # Uninit /\ CONNECTION_LOST # Uninit /\ CONNECTION_LOST # 0
           /\ OwnAnswer(c) # OPERATION_NOT_SUPPORTED
           /\ OwnAnswer(c) = 0 => answer[c] \in {"okay", "bare"}
           /\ answer[c] # "none" /\ OwnAnswer(c) # 0 => answer[c] \in {"bare", "error", "nostatus"}
<1>1. answer[c] \in {"okay", "bare", "error", "nostatus", "none"}
  BY ClientAssumption DEF TypeOK, TypeAgent
<1> QED BY <1>1 DEF OwnAnswer, Uninit, CONNECTION_LOST, MISSING_HEADER, RESPONSE_STATUS,
       OPERATION_NOT_SUPPORTED

(* A call that comes back from bw2_reqctxWait returns what its callback     *)
(* recorded.                                                                *)
LEMMA ReturnsRv ==
    ASSUME TypeOK, RvRight, NEW c \in Calls, Return(c), ~Undefined
    PROVE  /\ ready[c] /\ pc[c] = "wait"
           /\ pc' = [pc EXCEPT ![c] = "returned"] /\ result' = [result EXCEPT ![c] = rv[c]]
           /\ UNCHANGED <<inbox, answer, ready, out, told, delivered>>
<1>1. ready[c] /\ pc[c] = "wait" /\ (\E r \in ReadRv(c) : ReturnWith(c, r))
      /\ UNCHANGED <<inbox, answer, ready, out, told, delivered>>
  BY DEF Return, agentVars, ctxVars
<1>2. rv[c] # Uninit
  BY <1>1, OwnAnswerValues DEF RvRight
<1> QED BY <1>1, <1>2 DEF ReadRv, ReturnWith

(* A call that leaves bw2_reqctxWait with 0 was accepted by the agent, in   *)
(* every environment: no other call's frame, no failure of the connection   *)
(* and no leftover memory can make it succeed.                              *)
THEOREM WaitIsForOwnOkay == ASSUME NumbersSuffice PROVE Spec => WaitedForOkay
<1>1. OrderInv /\ [Next]_vars =>
        [\A c \in Calls : pc[c] = "wait" /\ pc'[c] = "returned" /\ result'[c] = 0 =>
                              answer[c] \in {"okay", "bare"}]_vars
  <2> SUFFICES ASSUME OrderInv, [Next]_vars, NEW c \in Calls,
                      pc[c] = "wait", pc'[c] = "returned", result'[c] = 0
               PROVE  answer[c] \in {"okay", "bare"}
    OBVIOUS
  <2>1. TypeOK /\ RvRight
    BY DEF OrderInv, ConnInv
  <2>2. Return(c) /\ ~Undefined
    <3>1. ASSUME NEW d \in Calls,
                 GetSeqNo(d) \/ Enqueue(d) \/ Write(d) \/ GiveUp(d) \/ Return(d)
          PROVE  Return(c) /\ ~Undefined
      <4>1. pc' # pc /\ (d # c => pc'[c] = pc[c])
        BY <2>1, <3>1 DEF GetSeqNo, Enqueue, Write, WriteOk, WriteLost, WriteSwallowed, GiveUp,
           Return, ReturnWith, Undefined, callVars, TypeOK, TypeCalls
      <4> QED BY <3>1, <4>1 DEF GetSeqNo, Enqueue, Write, GiveUp, Undefined, callVars
    <3> QED BY <3>1, CallFootprint
  <2>3. ready[c] /\ result'[c] = rv[c]
    BY <2>1, <2>2, ReturnsRv DEF TypeOK, TypeCalls
  <2> QED BY <2>1, <2>3, OwnAnswerValues DEF RvRight
<1> QED BY <1>1, OrderInvariant, PTL DEF Spec, WaitedForOkay
=============================================================================
