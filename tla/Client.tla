------------------------------- MODULE Client -------------------------------
(***************************************************************************)
(* The bw2c client: one connection (struct bw2_client), the BOSSWAVE       *)
(* thread that reads frames from the agent (bw2_daemon), and the           *)
(* application threads that are inside the blocking API calls.             *)
(*                                                                         *)
(* A call c \in Calls is one invocation of one API function by one thread; *)
(* it owns one struct bw2_reqctx, either on its own stack or inside a      *)
(* context structure of the application.  client->reqs is the sequence     *)
(* reqs of the calls whose reqctx is linked, head first.                   *)
(*                                                                         *)
(* Critical sections that take one lock and touch only what it guards are  *)
(* one step.  The BOSSWAVE thread keeps reqslock over many steps           *)
(* (ReqsLocked), because callbacks and the other threads interleave with   *)
(* it there.                                                               *)
(***************************************************************************)
EXTENDS Integers, Sequences, FiniteSets, SequencesExt

CONSTANTS
    Calls,       \* the API calls made on the client
    Kind,        \* the API function each call invokes
    SeqSpace,      \* number of sequence numbers before curseqno wraps (2^31)
    MaxResults,  \* bound: result frames the agent sends for one call
    Replies,     \* what the agent may put in a resp frame
    Silent,      \* streaming calls whose context has a NULL user function
    Env          \* what the environment may do besides the normal case

(* Return values: errors.h, and the unknown content of an int never set.   *)
MALFORMED_FRAME         == 1
UNEXPECTED_FRAME        == 5
MISSING_HEADER          == 6
RESPONSE_STATUS         == 7
OPERATION_NOT_SUPPORTED == 9
CONNECTION_LOST         == 10
Uninit                  == -2
Codes == {Uninit, 0, MALFORMED_FRAME, UNEXPECTED_FRAME, MISSING_HEADER,
          RESPONSE_STATUS, OPERATION_NOT_SUPPORTED, CONNECTION_LOST}

-----------------------------------------------------------------------------
(***************************************************************************)
(* The API functions.  They share one shape (number the frame, link the    *)
(* reqctx, write, wait, destroy the reqctx, return) and differ in          *)
(*   onStack : the reqctx is a local variable, dead once the call returns; *)
(*   lost    : what follows a bw2_transact that failed -- return its rv,   *)
(*             return reqctx.rv, or wait as if it had succeeded;           *)
(*   out     : the callback fills memory the caller provided;              *)
(*   nullCtx : bw2_reqctxInit is given NULL as the callback's context;     *)
(*   stackCtx: the context of the first callback is on the call's stack.   *)
(***************************************************************************)
setEntity ==
    [onStack |-> TRUE,  lost |-> "returnRv",
     out |-> TRUE, nullCtx |-> FALSE, stackCtx |-> FALSE]
publish ==
    [onStack |-> TRUE,  lost |-> "returnRv",
     out |-> FALSE, nullCtx |-> FALSE, stackCtx |-> FALSE]
subscribe(handle) ==
    [onStack |-> FALSE, lost |-> "returnReqctx",
     out |-> handle, nullCtx |-> FALSE, stackCtx |-> TRUE]
query ==
    [onStack |-> FALSE, lost |-> "wait",
     out |-> FALSE, nullCtx |-> FALSE, stackCtx |-> FALSE]
list ==
    [onStack |-> FALSE, lost |-> "returnReqctx",
     out |-> FALSE, nullCtx |-> FALSE, stackCtx |-> FALSE]
createDOT ==
    [onStack |-> TRUE,  lost |-> "returnReqctx",
     out |-> TRUE, nullCtx |-> FALSE, stackCtx |-> FALSE]
createEntity ==
    [onStack |-> TRUE,  lost |-> "returnReqctx",
     out |-> TRUE, nullCtx |-> FALSE, stackCtx |-> FALSE]
createDOTChain ==
    [onStack |-> TRUE,  lost |-> "returnReqctx",
     out |-> TRUE, nullCtx |-> FALSE, stackCtx |-> FALSE]
buildChain ==
    [onStack |-> FALSE, lost |-> "returnReqctx",
     out |-> FALSE, nullCtx |-> TRUE, stackCtx |-> FALSE]
unsubscribe ==
    [onStack |-> TRUE,  lost |-> "returnReqctx",
     out |-> FALSE, nullCtx |-> FALSE, stackCtx |-> FALSE]

Api == [setEntity       |-> setEntity,       publish        |-> publish,
        subscribe       |-> subscribe(FALSE), subscribeHandle |-> subscribe(TRUE),
        query           |-> query,           list           |-> list,
        createDOT       |-> createDOT,       createEntity   |-> createEntity,
        createDOTChain  |-> createDOTChain,  buildChain     |-> buildChain,
        unsubscribe     |-> unsubscribe]

OnStack(c) == Api[Kind[c]].onStack
HasOut(c)  == Api[Kind[c]].out
Lost(c)    == Api[Kind[c]].lost
NullCtx(c) == Api[Kind[c]].nullCtx
StackCtx(c) == Api[Kind[c]].stackCtx

(***************************************************************************)
(* Env: bw2_connect may fail (connectFail);                                *)
(* the agent closes the connection once the client is connected (eof)      *)
(* or while bw2_connect is still running (earlyEof); send fails with an    *)
(* errno that bw2_transact knows (sendTimeout) or with another (sendError);*)
(* the application disconnects (disconnect); the application frees its     *)
(* context as soon as the documentation allows it, without waiting for its *)
(* own call to return (freeEarly), or frees or reuses the context of a call*)
(* that returned an error (freeFailed).                                    *)
(***************************************************************************)
ASSUME ClientAssumption ==
    /\ IsFiniteSet(Calls)
    /\ Kind \in [Calls -> DOMAIN Api]
    /\ SeqSpace \in Nat \ {0}
    /\ MaxResults \in Nat
    /\ Replies \subseteq {"okay", "bare", "error", "nostatus"}
    /\ Silent \subseteq Calls
    /\ Env \subseteq {"connectFail", "eof", "earlyEof", "sendTimeout",
                      "sendError", "disconnect", "freeEarly", "freeFailed"}

VARIABLES
    conn,       \* progress of bw2_connect
    connected,  \* client->connected
    closes,     \* how often close was called on client->connfd
    agent,      \* the agent's end of the connection: "up" or "gone"
    inbox,      \* calls whose request frame has reached the agent
    answer,     \* the agent's resp to each call, "none" before it
    sent,       \* result frames the agent has sent for each call
    wire,       \* frames on their way to the client, oldest first
    reqs,       \* client->reqs
    curseqno,   \* client->curseqno
    pc,         \* where each call is
    seqno,      \* the sequence number each call took
    result,     \* what each call returned
    ready,      \* reqctx.ready
    rv,         \* reqctx.rv
    out,        \* the callback has filled the caller's memory
    told,       \* the user function saw final, or returned true
    delivered,  \* the bodies given to the user function, in order
    freed,      \* calls whose reqctx is no longer valid memory
    dpc,        \* where the BOSSWAVE thread is
    dframe,     \* the frame it is dispatching
    pos,        \* index in reqs of its cursor curr
    dstop       \* what onframe returns: TRUE, FALSE or (rctx->rv != 0)

connVars   == <<conn, connected, closes>>
agentVars  == <<agent, inbox, answer, sent>>
callVars   == <<pc, seqno, result>>
ctxVars    == <<ready, rv, out, told, delivered>>
daemonVars == <<dpc, dframe, pos, dstop>>
vars == <<conn, connected, closes, agent, inbox, answer, sent, wire, reqs,
          curseqno, pc, seqno, result, ready, rv, out, told, delivered, freed,
          dpc, dframe, pos, dstop>>

(* A frame as the client uses it: "result" stands for a rslt frame, the    *)
(* other replies for a resp frame ("bare": okay without the result headers)*)
Frames == [seqno : 0..(SeqSpace - 1),
           reply : Replies \cup {"result"},
           final : BOOLEAN,
           body  : Calls \X Nat]
NoFrame == [seqno |-> -1, reply |-> "none", final |-> FALSE, body |-> <<>>]

(* Program behaviour after an access to freed or NULL memory is not        *)
(* modelled: every action requires Running.                                *)
Running == dpc # "undefined"
Undefined == /\ dpc' = "undefined"
             /\ UNCHANGED <<connVars, agentVars, wire, reqs, curseqno, callVars,
                            ctxVars, freed, dframe, pos, dstop>>

(* The BOSSWAVE thread holds client->reqslock. *)
ReqsLocked == dpc \in {"close", "drain", "scan", "unlink"}

-----------------------------------------------------------------------------
(* bw2_clientInit zeroes the client; no call has been made. *)
Init ==
    /\ conn = "start" /\ connected = FALSE /\ closes = 0
    /\ agent = "up" /\ inbox = {} /\ wire = <<>>
    /\ answer = [c \in Calls |-> "none"]
    /\ sent = [c \in Calls |-> 0]
    /\ reqs = <<>> /\ curseqno = 0
    /\ pc = [c \in Calls |-> "idle"]
    /\ seqno = [c \in Calls |-> 0]
    /\ result = [c \in Calls |-> Uninit]
    /\ ready = [c \in Calls |-> FALSE]
    /\ rv = [c \in Calls |-> Uninit]
    /\ out = [c \in Calls |-> FALSE]
    /\ told = [c \in Calls |-> FALSE]
    /\ delivered = [c \in Calls |-> <<>>]
    /\ freed = {}
    /\ dpc = "none" /\ dframe = NoFrame /\ pos = 1 /\ dstop = "false"

-----------------------------------------------------------------------------
(* bw2_connect *)

(* No socket, no connection, no valid hello frame, or no thread. *)
ConnectFail ==
    /\ Running /\ "connectFail" \in Env /\ conn = "start"
    /\ conn' = "failed"
    /\ closes' \in {closes, closes + 1}
    /\ UNCHANGED <<connected, agentVars, wire, reqs, curseqno, callVars,
                   ctxVars, freed, daemonVars>>

(* The hello frame is in order: the BOSSWAVE thread starts ... *)
ConnectSpawn ==
    /\ Running /\ conn = "start"
    /\ conn' = "spawned"
    /\ dpc' = "loop"
    /\ UNCHANGED <<connected, closes, agentVars, wire, reqs, curseqno, callVars,
                   ctxVars, freed, dframe, pos, dstop>>

(* ... and only then is the client marked connected. *)
ConnectDone ==
    /\ Running /\ conn = "spawned"
    /\ conn' = "up"
    /\ connected' = TRUE
    /\ UNCHANGED <<closes, agentVars, wire, reqs, curseqno, callVars, ctxVars,
                   freed, daemonVars>>

(* bw2_disconnect does nothing when the client is not connected. *)
Disconnect ==
    /\ Running /\ "disconnect" \in Env /\ conn = "up"
    /\ connected
    /\ connected' = FALSE
    /\ closes' = closes + 1
    /\ UNCHANGED <<conn, agentVars, wire, reqs, curseqno, callVars, ctxVars,
                   freed, daemonVars>>

-----------------------------------------------------------------------------
(* An API call, up to bw2_transact *)

(* curseqno is incremented and masked with 0x7FFFFFFF. *)
NextSeqNo_unmasked(n) == n + 1
NextSeqNo(n) == (n + 1) % SeqSpace

(* The call enters and numbers its frame.  bw2_createDOT refuses permission *)
(* DOTs after that.                                                         *)
GetSeqNo(c) ==
    /\ Running /\ conn \in {"up", "failed"}
    /\ pc[c] = "idle"
    /\ seqno' = [seqno EXCEPT ![c] = curseqno]
    /\ curseqno' = NextSeqNo(curseqno)
    /\ \/ /\ pc' = [pc EXCEPT ![c] = "enqueue"]
          /\ UNCHANGED result
       \/ /\ Kind[c] = "createDOT"
          /\ pc' = [pc EXCEPT ![c] = "returned"]
          /\ result' = [result EXCEPT ![c] = OPERATION_NOT_SUPPORTED]
    /\ UNCHANGED <<connVars, agentVars, wire, reqs, ctxVars, freed, daemonVars>>

(* bw2_transact, the part under reqslock *)
Enqueue(c) ==
    /\ Running /\ pc[c] = "enqueue" /\ ~ReqsLocked
    /\ IF connected
       THEN /\ reqs' = Cons(c, reqs)
            /\ pc' = [pc EXCEPT ![c] = "write"]
       ELSE /\ pc' = [pc EXCEPT ![c] = "failed"]
            /\ UNCHANGED reqs
    /\ UNCHANGED <<connVars, agentVars, wire, curseqno, seqno, result, ctxVars,
                   freed, daemonVars>>

(* bw2_transact, the part under outlock.  The frame is written (a write to  *)
(* a connection the agent has left is only buffered) ...                    *)
WriteOk(c) ==
    /\ closes = 0
    /\ inbox' = IF agent = "up" THEN inbox \cup {c} ELSE inbox
    /\ pc' = [pc EXCEPT ![c] = "wait"]
    /\ UNCHANGED <<connected, closes>>

(* Mutant: the client stays marked connected.                               *)
WriteLost_staysConnected(c) ==
    /\ closes > 0 \/ agent = "gone" \/ "sendTimeout" \in Env
    /\ closes' = closes + 1
    /\ pc' = [pc EXCEPT ![c] = "failed"]
    /\ UNCHANGED <<connected, inbox>>

(* ... or fails with ETIMEDOUT, ECONNRESET, ECONNREFUSED, or EBADF ...      *)
WriteLost(c) ==
    /\ closes > 0 \/ agent = "gone" \/ "sendTimeout" \in Env
    /\ closes' = closes + 1
    /\ connected' = FALSE
    /\ pc' = [pc EXCEPT ![c] = "failed"]
    /\ UNCHANGED inbox

(* ... or with another errno, which bw2_transact reports as success.        *)
WriteSwallowed(c) ==
    /\ closes = 0
    /\ agent = "gone" \/ "sendError" \in Env
    /\ pc' = [pc EXCEPT ![c] = "wait"]
    /\ UNCHANGED <<inbox, connected, closes>>

Write(c) ==
    /\ Running /\ pc[c] = "write"
    /\ WriteOk(c) \/ WriteLost(c) \/ WriteSwallowed(c)
    /\ UNCHANGED <<conn, agent, answer, sent, wire, reqs, curseqno, seqno,
                   result, ctxVars, freed, daemonVars>>

-----------------------------------------------------------------------------
(* An API call, after bw2_transact *)

(* The values a read of reqctx.rv can give: anything while it was not set. *)
ReadRv(c) == IF rv[c] = Uninit THEN {0, Uninit} ELSE {rv[c]}

ReturnWith(c, r) ==
    /\ pc' = [pc EXCEPT ![c] = "returned"]
    /\ result' = [result EXCEPT ![c] = r]
    /\ freed' = IF OnStack(c) THEN freed \cup {c} ELSE freed

(* bw2_transact failed. *)
GiveUp(c) ==
    /\ Running /\ pc[c] = "failed"
    /\ \/ Lost(c) = "returnRv" /\ ReturnWith(c, CONNECTION_LOST)
       \/ Lost(c) = "returnReqctx" /\ \E r \in ReadRv(c) : ReturnWith(c, r)
       \/ /\ Lost(c) = "wait"
          /\ pc' = [pc EXCEPT ![c] = "wait"]
          /\ UNCHANGED <<result, freed>>
    /\ UNCHANGED <<connVars, agentVars, wire, reqs, curseqno, seqno, ctxVars,
                   daemonVars>>

(* Mutant: the call does not wait for its response.                        *)
Return_noWait(c) ==
    /\ Running /\ pc[c] = "wait"
    /\ \E r \in ReadRv(c) : ReturnWith(c, r)
    /\ UNCHANGED <<connVars, agentVars, wire, reqs, curseqno, seqno, ctxVars,
                   daemonVars>>

(* bw2_reqctxWait comes back; the call destroys the reqctx and returns. *)
Return(c) ==
    /\ Running /\ pc[c] = "wait" /\ ready[c]
    /\ IF c \in freed
       THEN Undefined
       ELSE /\ \E r \in ReadRv(c) : ReturnWith(c, r)
            /\ UNCHANGED <<connVars, agentVars, wire, reqs, curseqno, seqno,
                           ctxVars, daemonVars>>

(* The application frees a context structure after its last result, or when *)
(* the call did not succeed and there will be none.                         *)
UserFree(c) ==
    /\ Running /\ ~OnStack(c) /\ c \notin freed
    /\ \/ told[c] /\ (pc[c] = "returned" \/ "freeEarly" \in Env)
       \/ "freeFailed" \in Env /\ pc[c] = "returned" /\ result[c] # 0
    /\ freed' = freed \cup {c}
    /\ UNCHANGED <<connVars, agentVars, wire, reqs, curseqno, callVars, ctxVars,
                   daemonVars>>

-----------------------------------------------------------------------------
(* The agent (not part of the library): it answers each request once with a *)
(* resp frame; after an okay, calls that stream get result frames, the last *)
(* of which may be marked finished.                                         *)

Send(c, reply, final, n) ==
    wire' = Append(wire, [seqno |-> seqno[c], reply |-> reply,
                          final |-> final, body |-> <<c, n>>])

AgentRespond(c) ==
    /\ Running /\ agent = "up" /\ c \in inbox /\ answer[c] = "none"
    /\ \E r \in Replies : /\ answer' = [answer EXCEPT ![c] = r]
                          /\ Send(c, r, FALSE, 0)
    /\ UNCHANGED <<connVars, agent, inbox, sent, reqs, curseqno, callVars,
                   ctxVars, freed, daemonVars>>

AgentResult(c) ==
    /\ Running /\ agent = "up" /\ answer[c] \in {"okay", "bare"}
    /\ ~OnStack(c) /\ sent[c] < MaxResults
    /\ \E final \in BOOLEAN :
          /\ Send(c, "result", final, sent[c] + 1)
          /\ sent' = [sent EXCEPT ![c] = IF final THEN MaxResults ELSE @ + 1]
    /\ UNCHANGED <<connVars, agent, inbox, answer, reqs, curseqno, callVars,
                   ctxVars, freed, daemonVars>>

(* The connection ends; frames not yet read may be lost with it. *)
AgentClose ==
    /\ Running /\ agent = "up"
    /\ \/ "eof" \in Env /\ conn = "up"
       \/ "earlyEof" \in Env /\ conn = "spawned"
    /\ agent' = "gone"
    /\ \E n \in 0..Len(wire) : wire' = SubSeq(wire, 1, n)
    /\ UNCHANGED <<connVars, inbox, answer, sent, reqs, curseqno, callVars,
                   ctxVars, freed, daemonVars>>

-----------------------------------------------------------------------------
(* bw2_daemon: reading *)

ReadFailed ==
    /\ dpc' = "lock" /\ dframe' = NoFrame
    /\ UNCHANGED <<connVars, agentVars, wire, reqs, curseqno, callVars, ctxVars,
                   freed, pos, dstop>>

(* bw2_readFrame blocks in recv; on a closed descriptor it fails at once. *)
EnterRead ==
    /\ Running /\ dpc = "loop"
    /\ IF closes > 0
       THEN ReadFailed
       ELSE /\ dpc' = "reading"
            /\ UNCHANGED <<connVars, agentVars, wire, reqs, curseqno, callVars,
                           ctxVars, freed, dframe, pos, dstop>>

ReadFrame ==
    /\ Running /\ dpc = "reading" /\ closes = 0 /\ wire # <<>>
    /\ dpc' = "lock"
    /\ dframe' = Head(wire) /\ wire' = Tail(wire)
    /\ UNCHANGED <<connVars, agentVars, reqs, curseqno, callVars, ctxVars,
                   freed, pos, dstop>>

(* End of stream, or a blocked recv that returns after the descriptor was  *)
(* closed: closing it does not wake the recv, data from the agent does.    *)
ReadFail ==
    /\ Running /\ dpc = "reading"
    /\ \/ wire = <<>> /\ agent = "gone"
       \/ wire # <<>> /\ closes > 0
    /\ ReadFailed

-----------------------------------------------------------------------------
(* bw2_daemon: the rest of the loop, under reqslock *)

LockReqs ==
    /\ Running /\ dpc = "lock"
    /\ dpc' = IF dframe = NoFrame \/ ~connected THEN "close" ELSE "scan"
    /\ pos' = 1
    /\ UNCHANGED <<connVars, agentVars, wire, reqs, curseqno, callVars, ctxVars,
                   freed, dframe, dstop>>

(* Mutant: the thread goes away without marking the client disconnected. *)
CloseSocket_forgets ==
    /\ Running /\ dpc = "close"
    /\ dpc' = "drain"
    /\ UNCHANGED <<connVars, agentVars, wire, reqs, curseqno, callVars, ctxVars,
                   freed, dframe, pos, dstop>>

CloseSocket ==
    /\ Running /\ dpc = "close"
    /\ dpc' = "drain"
    /\ connected' = FALSE
    /\ closes' = IF connected THEN closes + 1 ELSE closes
    /\ UNCHANGED <<conn, agentVars, wire, reqs, curseqno, callVars, ctxVars,
                   freed, dframe, pos, dstop>>

(* The context onframe is called with is NULL or gone: bw2_buildChain      *)
(* passes NULL, and until its first frame a subscription uses a structure  *)
(* on the stack of bw2_subscribe.                                          *)
DeadContext(c) ==
    /\ ~OnStack(c)
    /\ \/ ready[c] /\ NullCtx(c)
       \/ ~ready[c] /\ StackCtx(c) /\ pc[c] = "returned"

(* onframe(NULL, true, ...) on the first request; curr does not advance. *)
Drain ==
    /\ Running /\ dpc = "drain" /\ reqs # <<>>
    /\ LET c == Head(reqs) IN
       IF c \in freed \/ DeadContext(c)
       THEN Undefined
       ELSE /\ rv' = [rv EXCEPT ![c] = CONNECTION_LOST]
            /\ ready' = [ready EXCEPT ![c] = TRUE]
            /\ told' = [told EXCEPT ![c] =
                           @ \/ (ready[c] /\ ~OnStack(c) /\ c \notin Silent)]
            /\ UNCHANGED <<connVars, agentVars, wire, reqs, curseqno, callVars,
                           out, delivered, freed, daemonVars>>

DaemonExit ==
    /\ Running /\ dpc = "drain" /\ reqs = <<>>
    /\ dpc' = "exited"
    /\ UNCHANGED <<connVars, agentVars, wire, reqs, curseqno, callVars, ctxVars,
                   freed, dframe, pos, dstop>>

(* The cursor is at a request, and its number is that of the frame or not. *)
AtRequest == dpc = "scan" /\ pos <= Len(reqs)
Matches_any == TRUE
Matches == seqno[reqs[pos]] = dframe.seqno

(* Mutant: curr does not advance. *)
ScanSkip_stays == Running /\ AtRequest /\ ~Matches /\ UNCHANGED vars

ScanSkip ==
    /\ Running /\ AtRequest
    /\ IF reqs[pos] \in freed
       THEN Undefined
       ELSE /\ ~Matches
            /\ pos' = pos + 1
            /\ UNCHANGED <<connVars, agentVars, wire, reqs, curseqno, callVars,
                           ctxVars, freed, dpc, dframe, dstop>>

(* End of the list: reqslock is released and the frame is freed. *)
ScanEnd ==
    /\ Running /\ dpc = "scan" /\ pos > Len(reqs)
    /\ dpc' = "loop" /\ dframe' = NoFrame /\ pos' = 1
    /\ UNCHANGED <<connVars, agentVars, wire, reqs, curseqno, callVars, ctxVars,
                   freed, dstop>>

frameMustResponse(f) ==
    CASE f.reply = "result"   -> UNEXPECTED_FRAME
      [] f.reply = "nostatus" -> MISSING_HEADER
      [] f.reply = "error"    -> RESPONSE_STATUS
      [] OTHER                -> 0

(* Mutant: rctx->rv is read after the signal.                              *)
OneShotCallback_readsRv(c, f) ==
    /\ OnStack(c)
    /\ rv' = [rv EXCEPT ![c] = frameMustResponse(f)]
    /\ out' = [out EXCEPT ![c] = @ \/ (HasOut(c) /\ f.reply = "okay")]
    /\ ready' = [ready EXCEPT ![c] = TRUE]
    /\ dstop' = "rv"
    /\ UNCHANGED <<told, delivered>>

(* The callbacks of the calls with a reqctx on their stack: fill the       *)
(* caller's memory, set rv, signal, stop listening.                        *)
OneShotCallback(c, f) ==
    /\ OnStack(c)
    /\ rv' = [rv EXCEPT ![c] = frameMustResponse(f)]
    /\ out' = [out EXCEPT ![c] = @ \/ (HasOut(c) /\ f.reply = "okay")]
    /\ ready' = [ready EXCEPT ![c] = TRUE]
    /\ dstop' = "true"
    /\ UNCHANGED <<told, delivered>>

(* The first frame of a streaming call, _bw2_subscribe_cb included: rv is  *)
(* read again, after the signal, to decide whether to stop listening.      *)
StreamResponse(c, f) ==
    /\ ~OnStack(c) /\ ~ready[c]
    /\ rv' = [rv EXCEPT ![c] =
                 IF frameMustResponse(f) = 0 /\ HasOut(c) /\ f.reply = "bare"
                 THEN MISSING_HEADER
                 ELSE frameMustResponse(f)]
    /\ out' = [out EXCEPT ![c] = @ \/ (HasOut(c) /\ f.reply = "okay")]
    /\ ready' = [ready EXCEPT ![c] = TRUE]
    /\ dstop' = "rv"
    /\ UNCHANGED <<told, delivered>>

(* A later frame: the user function gets it and may stop the stream. *)
StreamDeliver(c, f) ==
    /\ ~OnStack(c) /\ ready[c]
    /\ rv' = [rv EXCEPT ![c] = 0]
    /\ IF c \in Silent
       THEN /\ dstop' = "false"
            /\ UNCHANGED <<told, delivered>>
       ELSE \E stop \in BOOLEAN :
               /\ dstop' = IF stop THEN "true" ELSE "false"
               /\ delivered' = [delivered EXCEPT ![c] = Append(@, f.body)]
               /\ told' = [told EXCEPT ![c] = @ \/ f.final \/ stop]
    /\ UNCHANGED <<ready, out>>

Dispatch ==
    /\ Running /\ AtRequest /\ reqs[pos] \notin freed /\ Matches
    /\ LET c == reqs[pos] IN
       IF DeadContext(c)
       THEN Undefined
       ELSE /\ \/ OneShotCallback(c, dframe)
               \/ StreamResponse(c, dframe)
               \/ StreamDeliver(c, dframe)
            /\ dpc' = "unlink"
            /\ UNCHANGED <<connVars, agentVars, wire, reqs, curseqno, callVars,
                           freed, dframe, pos>>

(* What the step after the callback decides, and which requests it reads   *)
(* or writes: curr for rv or curr->next, its predecessor to unlink it.     *)
StopListening_ignored == dstop = "rv" /\ rv[reqs[pos]] # 0
StopListening == dstop = "true" \/ (dstop = "rv" /\ rv[reqs[pos]] # 0)
Unlinks == dframe.final \/ StopListening
UnlinkTouches ==
    (IF dstop = "rv" \/ ~Unlinks THEN {reqs[pos]} ELSE {})
    \cup (IF Unlinks /\ pos > 1 THEN {reqs[pos - 1]} ELSE {})

Unlink ==
    /\ Running /\ dpc = "unlink"
    /\ IF UnlinkTouches \cap freed # {}
       THEN Undefined
       ELSE /\ dpc' = "scan"
            /\ IF Unlinks
               THEN reqs' = RemoveAt(reqs, pos) /\ UNCHANGED pos
               ELSE pos' = pos + 1 /\ UNCHANGED reqs
            /\ dstop' = "false"
            /\ UNCHANGED <<connVars, agentVars, wire, curseqno, callVars,
                           ctxVars, freed, dframe>>

-----------------------------------------------------------------------------
(* Nothing is left to do for the calls of the model, or nothing is known of *)
(* the program any more.                                                    *)
Done ==
    /\ ~Running \/ \A c \in Calls : pc[c] = "returned"
    /\ UNCHANGED vars

ConnectStep == ConnectFail \/ ConnectSpawn \/ ConnectDone
CallStep(c) == Enqueue(c) \/ Write(c) \/ GiveUp(c) \/ Return(c)
DaemonStep ==
    \/ EnterRead \/ ReadFrame \/ ReadFail \/ LockReqs \/ CloseSocket
    \/ Drain \/ DaemonExit \/ ScanSkip \/ ScanEnd \/ Dispatch \/ Unlink

Next ==
    \/ ConnectStep \/ Disconnect \/ AgentClose \/ DaemonStep \/ Done
    \/ \E c \in Calls : \/ GetSeqNo(c) \/ CallStep(c) \/ UserFree(c)
                        \/ AgentRespond(c) \/ AgentResult(c)

Spec == Init /\ [][Next]_vars

(* Threads that can run do run, and the agent answers what it received.    *)
(* Nothing makes the application start a call, or the agent send results.  *)
Fairness ==
    /\ WF_vars(ConnectStep)
    /\ WF_vars(DaemonStep)
    /\ \A c \in Calls : WF_vars(CallStep(c)) /\ WF_vars(AgentRespond(c))

FairSpec == Spec /\ Fairness
-----------------------------------------------------------------------------
(* Every variable ranges over the values the code gives it; the cursor of   *)
(* bw2_daemon stays inside the list while reqslock is held.                 *)
TypeConn ==
    /\ conn \in {"start", "spawned", "up", "failed"}
    /\ connected \in BOOLEAN
    /\ closes \in Nat
TypeAgent ==
    /\ agent \in {"up", "gone"}
    /\ inbox \subseteq Calls
    /\ answer \in [Calls -> Replies \cup {"none"}]
    /\ sent \in [Calls -> Nat]
    /\ wire \in Seq(Frames)
TypeCalls ==
    /\ reqs \in Seq(Calls)
    /\ curseqno \in 0..(SeqSpace - 1)
    /\ pc \in [Calls -> {"idle", "enqueue", "write", "failed", "wait", "returned"}]
    /\ seqno \in [Calls -> 0..(SeqSpace - 1)]
    /\ result \in [Calls -> Codes]
    /\ freed \subseteq Calls
TypeCtx ==
    /\ ready \in [Calls -> BOOLEAN]
    /\ rv \in [Calls -> Codes]
    /\ out \in [Calls -> BOOLEAN]
    /\ told \in [Calls -> BOOLEAN]
    /\ delivered \in [Calls -> Seq(Calls \X Nat)]
TypeDaemon ==
    /\ dpc \in {"none", "loop", "reading", "lock", "close", "drain", "scan",
               "unlink", "exited", "undefined"}
    /\ dframe \in Frames \cup {NoFrame}
    /\ pos \in Nat \ {0}
    /\ dstop \in {"true", "false", "rv"}
    /\ dpc \in {"scan", "unlink"} => dframe \in Frames
    /\ dpc = "unlink" => pos <= Len(reqs)
TypeOK == TypeConn /\ TypeAgent /\ TypeCalls /\ TypeCtx /\ TypeDaemon

(* What bw2_isConnected reports is never a closed descriptor: whoever calls *)
(* close(client->connfd) has cleared client->connected, whichever of        *)
(* bw2_disconnect, bw2_daemon and a failing bw2_transact gets there first.  *)
ConnectedFdOpen == connected => closes = 0

(* A call that returns CONNECTION_LOST leaves a client that is, and stays,  *)
(* disconnected: no call on a live connection is told that it was lost.     *)
LostMeansDisconnected ==
    \A c \in Calls :
        pc[c] = "returned" /\ result[c] = CONNECTION_LOST => ~connected

(* While reqslock is free, client->reqs links only memory that is valid:    *)
(* no API call has returned, and no context was freed, while its reqctx was *)
(* still in the list.                                                       *)
NoDanglingRequest ==
    Running /\ ~ReqsLocked => \A i \in DOMAIN reqs : reqs[i] \notin freed

(* The requests that the next step of bw2_daemon reads or writes. *)
DaemonTouches ==
    CASE AtRequest                       -> {reqs[pos]}
      [] dpc = "unlink"                  -> UnlinkTouches
      [] dpc = "drain" /\ reqs # <<>>    -> {Head(reqs)}
      [] OTHER                           -> {}

(* Neither bw2_daemon nor a call inside bw2_reqctxWait uses a reqctx whose  *)
(* memory is gone.                                                          *)
NoUseAfterFree ==
    /\ DaemonTouches \cap freed = {}
    /\ \A c \in freed : pc[c] = "returned"

(* A call returns 0 only if the agent answered that very call with okay.    *)
SuccessMeansAnswered ==
    \A c \in Calls :
        pc[c] = "returned" /\ result[c] = 0 => answer[c] \in {"okay", "bare"}

(* Whatever the environment does, a call that comes back from               *)
(* bw2_reqctxWait with 0 comes back with the agent's okay to that very call.*)
WaitedForOkay ==
    [][\A c \in Calls :
          pc[c] = "wait" /\ pc'[c] = "returned" /\ result'[c] = 0 =>
              answer[c] \in {"okay", "bare"}]_vars

(* Each call returns the status that the agent gave to it, never the status *)
(* of another call, and a subscription handle that was asked for is filled  *)
(* in when the call succeeds.                                               *)
OwnAnswer(c) ==
    CASE answer[c] = "okay"     -> 0
      [] answer[c] = "bare"     ->
            IF Kind[c] = "subscribeHandle" THEN MISSING_HEADER ELSE 0
      [] answer[c] = "error"    -> RESPONSE_STATUS
      [] answer[c] = "nostatus" -> MISSING_HEADER
      [] OTHER                  -> CONNECTION_LOST
ReturnsOwnAnswer ==
    \A c \in Calls :
        pc[c] = "returned" /\ result[c] # OPERATION_NOT_SUPPORTED =>
            /\ result[c] = OwnAnswer(c)
            /\ result[c] = 0 /\ Kind[c] = "subscribeHandle" => out[c]

(* The user function gets the results of its own request only, each once,   *)
(* in the order in which the agent sent them, with none left out.           *)
ResultsInOrder ==
    \A c \in Calls : \A i \in DOMAIN delivered[c] : delivered[c][i] = <<c, i>>

(* The calls whose user function the next step of bw2_daemon invokes. *)
AboutToInvoke ==
    {c \in Calls \ Silent :
        /\ ~OnStack(c) /\ ready[c]
        /\ \/ AtRequest /\ reqs[pos] = c /\ Matches
           \/ dpc = "drain" /\ reqs # <<>> /\ Head(reqs) = c}

(* The user function is not invoked again after it was given final = true   *)
(* or has returned true.                                                    *)
FinalIsLast == \A c \in AboutToInvoke : ~told[c]

(* While bw2_isConnected says true, a BOSSWAVE thread serves the connection *)
ConnectedMeansDaemon == connected => dpc # "exited"

(* Every API call that was made returns. *)
EveryCallReturns ==
    \A c \in Calls : pc[c] = "enqueue" ~> pc[c] = "returned"

(* After bw2_disconnect the BOSSWAVE thread of the connection ends. *)
DisconnectTakesEffect == (conn = "up" /\ ~connected) ~> dpc = "exited"

(* The calls, the BOSSWAVE thread and the request list together do what Rpc *)
(* says of the whole: a call returns the status of its own response and not *)
(* before it, results come in order and stop after the last, no call hangs. *)
Status(c) ==
    IF pc[c] # "returned" THEN "none"
    ELSE CASE result[c] = 0                       -> "ok"
           [] result[c] = OPERATION_NOT_SUPPORTED -> "refused"
           [] OTHER                               -> "failed"
Service == INSTANCE Rpc WITH asked  <- {c \in Calls : pc[c] # "idle"},
                             reply  <- answer,
                             status <- [c \in Calls |-> Status(c)],
                             got    <- delivered,
                             closed <- {c \in Calls : told[c]}
ImplementsRpc == Service!RpcSpec
=============================================================================
