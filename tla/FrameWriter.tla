----------------------------- MODULE FrameWriter -----------------------------
(***************************************************************************)
(* The writing half of frame.c, with the API functions that build requests  *)
(* (api.c) and the part of bw2_transact that sends them (daemon.c).         *)
(*                                                                         *)
(* A request is a list of headers, most of them in the stack frame of the   *)
(* API function, some in the bw2_vkHash and bw2_dotHash structures of the   *)
(* application, which outlive the call and are used again.  bw2_writeFrame  *)
(* follows the list twice, to count the bytes and to send them, array by    *)
(* array, while other calls run.  The bytes are the symbols of OobFormat.   *)
(***************************************************************************)
EXTENDS OobFormat

CONSTANTS
    Calls,     \* the API calls
    Hashes,    \* the bw2_vkHash and bw2_dotHash structures
    Programs,  \* [Calls -> parameters]: what the application asks for
    HashSize,  \* [len, strlen] of the hash in each structure
    TextLen,   \* strlen of each parameter that is a string
    KeyLen,    \* strlen of each header key
    SeqnoMax,  \* 2^31
    Errors,    \* which errno send may fail with: "listed", "unlisted"
    ShortSend, \* whether send may accept only a part of an array
    NULL, Wild \* no address; an address where there is no header

Keys == {"autochain", "expiry", "expirydelta", "uri", "primary_access_chain",
         "elaborate_pac", "doverify", "persist", "unpack", "contact", "comment",
         "revoker", "omitcreationdate", "ttl", "to", "ispermission",
         "accesspermissions", "unelaborate", "dot", "handle"}

(* The parameters that are strings: those sent under their key, and the     *)
(* literals of the macros.                                                  *)
Texts == Keys \cup {"true", "false", "partial"}

(* The headers declared in the stack frame of a call, by their variable     *)
(* (here: their key), and those in the structures of the application.       *)
Stack(c) == {<<c, k>> : k \in Keys}
Nodes == Hashes \cup UNION {Stack(c) : c \in Calls}

APIs == {"publish", "subscribe", "query", "list", "createDOT", "createEntity",
         "createDOTChain", "buildChain", "unsubscribe", "setEntity"}

(* The parameters of a call: the structures of a list are linked through    *)
(* themselves, so none is there twice; payload and routing objects come     *)
(* from bw2_POInit and bw2_ROInit.                                          *)
IsRequest(r) ==
    /\ r.fn \in APIs /\ {r.chain, r.to} \subseteq Hashes
    /\ r.list \in Seq(Hashes) /\ IsInjective(r.list)
    /\ r.pos \in Seq(Range(r.pos)) /\ r.ros \in Seq(Range(r.ros))
    /\ \A o \in Range(r.pos) \cup Range(r.ros) : o.num \in Nat /\ o.len \in Nat
    /\ \A o \in Range(r.pos) : o = PoObject(o.num, o.len, o.blob)
    /\ \A o \in Range(r.ros) : o = RoObject(o.num, o.len, o.blob)

ASSUME WriterAssumption ==
    /\ \A p \in Programs, c \in Calls : IsRequest(p[c])
    /\ TextLen \in [Texts -> Nat] /\ Hashes \cap Texts = {}
    /\ HashSize \in [Hashes -> [len : Nat \ {0}, strlen : Nat]]
    /\ KeyLen \in [Keys -> Nat \ {0}] /\ SeqnoMax \in Nat \ {0}
    /\ Errors \subseteq {"listed", "unlisted"} /\ ShortSend \in BOOLEAN
    /\ NULL \notin Nodes \cup Calls /\ Wild \notin Nodes \cup {NULL}
    /\ Hashes \cap UNION {Stack(c) : c \in Calls} = {}

VARIABLES
    params,    \* the parameters of each call
    call,      \* the stack frame of each call
    node,      \* the memory of the headers
    curseqno,  \* client->curseqno
    outlock,   \* who holds client->outlock
    connected, \* client->connected
    fd,        \* client->connfd: "open" or "closed"
    wire,      \* what send has accepted so far
    order,     \* the calls, as they got outlock (for the properties)
    passed     \* an error of send has been passed over (for the properties)

writerVars == <<params, call, node, curseqno, outlock, connected, fd, wire, order, passed>>

-----------------------------------------------------------------------------
(* The request macros: the headers of each API function, in their order.    *)

Has(c, field) == field \in params[c].set
When(b, s) == IF b THEN s ELSE <<>>

(* A header to add: where it is, its key, its value. *)
At(n, key, value) == <<[node |-> n, key |-> key, value |-> value]>>
Header(c, key, value) == At(<<c, key>>, key, value)

(* Values: strings, whose length is not passed (0), and hashes. *)
String(name) == [size |-> 0, strlen |-> TextLen[name], blob |-> name]
Bool(b) == IF b THEN String("true") ELSE String("false")
Hash(h) == [size |-> HashSize[h].len, strlen |-> HashSize[h].strlen, blob |-> h]

Flag(c, key, b) == Header(c, key, Bool(b))
Param(c, key) == Header(c, key, String(key))

ADD_AUTOCHAIN(c) == When(Has(c, "autochain"), Flag(c, "autochain", TRUE))
ADD_EXPIRY(c) ==
    IF Has(c, "expiry") THEN At(<<c, "expiry">>, "expiry", String("expiry"))
    ELSE When(Has(c, "expiryDelta"),
              At(<<c, "expiry">>, "expirydelta", String("expirydelta")))
ADD_URI(c) == Param(c, "uri")
ADD_PRIMARY_ACCESS_CHAIN(c) ==
    When(Has(c, "primaryAccessChain"),
         Header(c, "primary_access_chain", Hash(params[c].chain)))
ADD_ELABORATE_PAC(c) ==
    Header(c, "elaborate_pac", String(IF Has(c, "elaboratePAC") THEN "elaborate_pac"
                                      ELSE "partial"))
ADD_VERIFY(c) == Flag(c, "doverify", ~Has(c, "doNotVerify"))
ADD_PERSIST(c) == Flag(c, "persist", Has(c, "persist"))
ADD_LEAVE_PACKED(c) == When(~Has(c, "leavePacked"), Flag(c, "unpack", TRUE))
ADD_CONTACT(c) == When(Has(c, "contact"), Param(c, "contact"))
ADD_COMMENT(c) == When(Has(c, "comment"), Param(c, "comment"))
ADD_OMIT_CREATION_DATE(c) ==
    When(Has(c, "omitCreationDate"), Flag(c, "omitcreationdate", TRUE))
ADD_TTL(c) == Param(c, "ttl")
ADD_TO(c) == Header(c, "to", Hash(params[c].to))
ADD_IS_PERMISSION(c) == Flag(c, "ispermission", Has(c, "isPermission"))
ADD_ACCESS_PERMISSIONS(c) == Param(c, "accesspermissions")
ADD_UNELABORATE(c) == Flag(c, "unelaborate", Has(c, "unElaborate"))

(* The lists of the application: the header is in the element itself. *)
InList(c, key) ==
    LET list == params[c].list
    IN [i \in DOMAIN list |-> [node |-> list[i], key |-> key, value |-> Hash(list[i])]]
ADD_REVOKERS(c) == InList(c, "revoker")
ADD_DOTS(c) == InList(c, "dot")

publish(c) ==
    ADD_AUTOCHAIN(c) \o ADD_EXPIRY(c) \o ADD_URI(c) \o ADD_PRIMARY_ACCESS_CHAIN(c)
      \o ADD_ELABORATE_PAC(c) \o ADD_VERIFY(c) \o ADD_PERSIST(c)
subscribe(c) ==
    ADD_AUTOCHAIN(c) \o ADD_EXPIRY(c) \o ADD_URI(c) \o ADD_PRIMARY_ACCESS_CHAIN(c)
      \o ADD_ELABORATE_PAC(c) \o ADD_LEAVE_PACKED(c) \o ADD_VERIFY(c)
query(c) == subscribe(c)
list(c) ==
    ADD_AUTOCHAIN(c) \o ADD_EXPIRY(c) \o ADD_URI(c) \o ADD_PRIMARY_ACCESS_CHAIN(c)
      \o ADD_ELABORATE_PAC(c) \o ADD_VERIFY(c)
createDOT(c) ==
    ADD_EXPIRY(c) \o ADD_CONTACT(c) \o ADD_COMMENT(c) \o ADD_REVOKERS(c)
      \o ADD_OMIT_CREATION_DATE(c) \o ADD_TTL(c) \o ADD_TO(c) \o ADD_IS_PERMISSION(c)
      \o When(~Has(c, "isPermission"), ADD_URI(c) \o ADD_ACCESS_PERMISSIONS(c))
createEntity(c) ==
    ADD_EXPIRY(c) \o ADD_CONTACT(c) \o ADD_COMMENT(c) \o ADD_REVOKERS(c)
      \o ADD_OMIT_CREATION_DATE(c)
createDOTChain(c) == ADD_IS_PERMISSION(c) \o ADD_UNELABORATE(c) \o ADD_DOTS(c)
buildChain(c) == ADD_URI(c) \o ADD_TO(c) \o ADD_ACCESS_PERMISSIONS(c)
unsubscribe(c) == Header(c, "handle", Hash(params[c].chain))
setEntity(c) == <<>>

Headers(c) ==
    LET fn == params[c].fn IN
    CASE fn = "publish" -> publish(c)
      [] fn = "subscribe" -> subscribe(c)
      [] fn = "query" -> query(c)
      [] fn = "list" -> list(c)
      [] fn = "createDOT" -> createDOT(c)
      [] fn = "createEntity" -> createEntity(c)
      [] fn = "createDOTChain" -> createDOTChain(c)
      [] fn = "buildChain" -> buildChain(c)
      [] fn = "unsubscribe" -> unsubscribe(c)
      [] fn = "setEntity" -> setEntity(c)

Command(c) ==
    CASE params[c].fn = "publish" -> IF Has(c, "persist") THEN "pers" ELSE "publ"
      [] params[c].fn = "subscribe" -> "subs"
      [] params[c].fn = "query" -> "quer"
      [] params[c].fn = "list" -> "list"
      [] params[c].fn = "createDOT" -> "makd"
      [] params[c].fn = "createEntity" -> "make"
      [] params[c].fn = "createDOTChain" -> "makc"
      [] params[c].fn = "buildChain" -> "bldc"
      [] params[c].fn = "unsubscribe" -> "usub"
      [] params[c].fn = "setEntity" -> "sete"

(* createDOT does not create permissions. *)
Unsupported(c) == params[c].fn = "createDOT" /\ Has(c, "isPermission")

-----------------------------------------------------------------------------
(* Building the frame *)

NewCall == [pc |-> "idle", todo |-> <<>>, hdrs |-> NULL, lasthdr |-> NULL,
            kv |-> NULL, rest |-> <<>>, framelen |-> 0, written |-> 0,
            seqno |-> 0, rv |-> "none"]

Init ==
    /\ params \in Programs
    /\ call = [c \in Calls |-> NewCall]
    /\ node = [n \in Nodes |-> [key |-> "none", len |-> 0, blob |-> NULL, next |-> Wild]]
    /\ curseqno = 0 /\ outlock = NULL /\ connected = TRUE /\ fd = "open"
    /\ wire = <<>> /\ order = <<>> /\ passed = FALSE

Active(c) == call[c].pc \notin {"idle", "returned"}
Lists(c) == {params[c].list[i] : i \in DOMAIN params[c].list}

(* _bw2_getSeqNo, and a mutant that does not mask the sign bit *)
NextSeqno_unmasked(s) == s + 1
NextSeqno(s) == (s + 1) % SeqnoMax

(* bw2_frameInit.  The application gives its structures to one call at a    *)
(* time: their headers are written without any lock.                        *)
Start(c) ==
    /\ call[c].pc = "idle"
    /\ \A d \in Calls : Active(d) => Lists(c) \cap Lists(d) = {}
    /\ call' = [call EXCEPT ![c] = [NewCall EXCEPT !.pc = "build",
                                       !.todo = Headers(c), !.seqno = curseqno]]
    /\ curseqno' = NextSeqno(curseqno)
    /\ UNCHANGED <<params, node, outlock, connected, fd, wire, order, passed>>

(* Mutant: the header keeps the link of its last use. *)
KVInit_keepsNext(h) ==
    [key |-> h.key, blob |-> h.value.blob, next |-> node[h.node].next,
     len |-> IF h.value.size = 0 THEN h.value.strlen ELSE h.value.size]

KVInit(h) ==
    [key |-> h.key, blob |-> h.value.blob, next |-> NULL,
     len |-> IF h.value.size = 0 THEN h.value.strlen ELSE h.value.size]

(* bw2_KVInit of the next header, and bw2_appendKV links it to the last... *)
AddHeader(c) ==
    LET h == Head(call[c].todo)
        last == call[c].lasthdr
        m == [node EXCEPT ![h.node] = KVInit(h)] IN
    /\ call[c].pc = "build" /\ call[c].todo # <<>>
    /\ node' = IF last = NULL THEN m ELSE [m EXCEPT ![last].next = h.node]
    /\ call' = [call EXCEPT ![c].pc = "append", ![c].todo = Tail(@),
                            ![c].hdrs = IF last = NULL THEN h.node ELSE @,
                            ![c].kv = h.node]
    /\ UNCHANGED <<params, curseqno, outlock, connected, fd, wire, order, passed>>

(* ...and looks for the end of what it has linked. *)
AppendKV(c) ==
    LET next == node[call[c].kv].next IN
    /\ call[c].pc = "append"
    /\ call' = [call EXCEPT ![c].lasthdr = call[c].kv, ![c].kv = next,
                            ![c].pc = IF next = NULL THEN "build" ELSE "append"]
    /\ UNCHANGED <<params, node, curseqno, outlock, connected, fd, wire, order, passed>>

(* What remains to be done before the call returns does not matter here. *)
Refuse(c) ==
    /\ call[c].pc = "build" /\ call[c].todo = <<>> /\ Unsupported(c)
    /\ call' = [call EXCEPT ![c].pc = "returned", ![c].rv = "NOT_SUPPORTED"]
    /\ UNCHANGED <<params, node, curseqno, outlock, connected, fd, wire, order, passed>>

-----------------------------------------------------------------------------
(* bw2_transact *)

Check(c) ==
    /\ call[c].pc = "build" /\ call[c].todo = <<>> /\ ~Unsupported(c)
    /\ call' = IF connected THEN [call EXCEPT ![c].pc = "lock"]
               ELSE [call EXCEPT ![c].pc = "returned", ![c].rv = "CONNECTION_LOST"]
    /\ UNCHANGED <<params, node, curseqno, outlock, connected, fd, wire, order, passed>>

(* bw2_appendPO and bw2_appendRO only read the lists of the application. *)
Objects(c) == params[c].pos \o params[c].ros

(* Mutant: frames are written without outlock. *)
Lock_notTaken(c) ==
    /\ call[c].pc = "lock"
    /\ call' = [call EXCEPT ![c].pc = "length", ![c].kv = call[c].hdrs,
                            ![c].rest = Objects(c), ![c].framelen = 4]
    /\ order' = Append(order, c)
    /\ UNCHANGED <<params, node, curseqno, outlock, connected, fd, wire, passed>>

Lock(c) ==
    /\ call[c].pc = "lock" /\ outlock = NULL
    /\ outlock' = c
    /\ call' = [call EXCEPT ![c].pc = "length", ![c].kv = call[c].hdrs,
                            ![c].rest = Objects(c), ![c].framelen = 4]
    /\ order' = Append(order, c)
    /\ UNCHANGED <<params, node, curseqno, connected, fd, wire, passed>>

(* The header, payload or routing object that a loop over the frame is at. *)
AtEnd(c) == call[c].kv = NULL /\ call[c].rest = <<>>
Current(c) ==
    LET n == node[call[c].kv]
    IN IF call[c].kv # NULL THEN KvObject(n.key, KeyLen[n.key], n.len, n.blob)
       ELSE Head(call[c].rest)
Advance(s, next) ==
    IF s.kv # NULL THEN [s EXCEPT !.kv = next] ELSE [s EXCEPT !.rest = Tail(@)]
NextHeader(c) == IF call[c].kv # NULL THEN node[call[c].kv].next ELSE NULL

num_digits[x \in Nat] == IF x >= 10 THEN 1 + num_digits[x \div 10] ELSE 1

KV_len(o) == 3 + KeyLen[o.key] + 1 + num_digits[o.len] + 1 + o.len + 1
PO_len(o) == 3 + 1 + num_digits[o.num] + 1 + num_digits[o.len] + 1 + o.len + 1
RO_len(o) == 3 + num_digits[o.num] + 1 + num_digits[o.len] + 1 + o.len + 1
Length(o) == CASE o.kind = "kv" -> KV_len(o)
               [] o.kind = "po" -> PO_len(o)
               [] o.kind = "ro" -> RO_len(o)

(* bw2_frameLength, one object at a time *)
FrameLength(c) ==
    /\ call[c].pc = "length"
    /\ call' = [call EXCEPT ![c] =
          IF AtEnd(c)
          THEN [@ EXCEPT !.pc = "frhdr", !.written = 0,
                         !.kv = call[c].hdrs, !.rest = Objects(c)]
          ELSE [Advance(@, NextHeader(c)) EXCEPT
                         !.framelen = call[c].framelen + Length(Current(c))]]
    /\ UNCHANGED <<params, node, curseqno, outlock, connected, fd, wire, order, passed>>

(* The arrays bw2_writeFrame sends *)
Parts == {"frhdr", "local", "value", "newline", "end"}
FrameHeader(c) ==
    [t |-> "hdr", o |-> Object("hdr", Command(c), 0, "none", <<0>>, call[c].seqno,
                               call[c].framelen, "none")]
Arr(c) ==
    CASE call[c].pc = "frhdr" -> <<FrameHeader(c)>>
      [] call[c].pc = "local" -> LocalHeader(Current(c))
      [] call[c].pc = "value" -> Value(Current(c))
      [] call[c].pc = "newline" -> <<Sym("nl")>>
      [] call[c].pc = "end" -> <<Sym("end"), Sym("nl")>>
ToSend(c) == Len(Arr(c)) - call[c].written

(* bw2_write_full_array: whatever has been sent before, from arr *)
Send(c) ==
    /\ call[c].pc \in Parts /\ ToSend(c) > 0 /\ fd = "open"
    /\ \E n \in 1..ToSend(c) :
          /\ ShortSend \/ n = ToSend(c)
          /\ wire' = wire \o SubSeq(Arr(c), 1, n)
          /\ call' = [call EXCEPT ![c].written = @ + n]
    /\ UNCHANGED <<params, node, curseqno, outlock, connected, fd, order, passed>>

(* The array is written, and the next one follows. *)
ArrayDone(c) ==
    /\ call[c].pc \in Parts \ {"end"} /\ ToSend(c) = 0
    /\ LET s == [call[c] EXCEPT !.written = 0]
           t == IF s.pc = "newline" THEN Advance(s, NextHeader(c)) ELSE s
           finished == t.kv = NULL /\ t.rest = <<>>
       IN call' = [call EXCEPT ![c] =
             [t EXCEPT !.pc = CASE s.pc = "local" -> "value"
                                [] s.pc = "value" -> "newline"
                                [] OTHER -> IF finished THEN "end" ELSE "local"]]
    /\ UNCHANGED <<params, node, curseqno, outlock, connected, fd, wire, order, passed>>

FrameDone(c) ==
    /\ call[c].pc = "end" /\ ToSend(c) = 0
    /\ outlock' = NULL
    /\ call' = [call EXCEPT ![c].pc = "sent", ![c].rv = "0"]
    /\ UNCHANGED <<params, node, curseqno, connected, fd, wire, order, passed>>

(* Mutant: the error path leaves without giving outlock back. *)
SendFails_keepsLock(c) ==
    /\ call[c].pc \in Parts /\ ToSend(c) > 0
    /\ (fd = "closed" \/ "listed" \in Errors)
    /\ fd' = "closed" /\ connected' = FALSE
    /\ call' = [call EXCEPT ![c].pc = "returned", ![c].rv = "CONNECTION_LOST"]
    /\ UNCHANGED <<params, node, curseqno, outlock, wire, order, passed>>

(* Mutant: an error does not reach the caller. *)
SendFails_returns0(c) ==
    /\ call[c].pc \in Parts /\ ToSend(c) > 0
    /\ (fd = "closed" \/ "listed" \in Errors)
    /\ outlock' = NULL /\ fd' = "closed" /\ connected' = FALSE
    /\ call' = [call EXCEPT ![c].pc = "sent", ![c].rv = "0"]
    /\ UNCHANGED <<params, node, curseqno, wire, order, passed>>

(* send fails: with EBADF (a listed errno) on a closed descriptor.  The     *)
(* listed errno values close the connection; the others are passed over,    *)
(* and the call goes on to wait although its frame is not out.              *)
SendFails(c) ==
    /\ call[c].pc \in Parts /\ ToSend(c) > 0
    /\ outlock' = NULL
    /\ \/ /\ fd = "closed" \/ "listed" \in Errors
          /\ fd' = "closed" /\ connected' = FALSE
          /\ call' = [call EXCEPT ![c].pc = "returned", ![c].rv = "CONNECTION_LOST"]
          /\ UNCHANGED passed
       \/ /\ fd = "open" /\ "unlisted" \in Errors
          /\ call' = [call EXCEPT ![c].pc = "unsent", ![c].rv = "0"]
          /\ passed' = TRUE
          /\ UNCHANGED <<fd, connected>>
    /\ UNCHANGED <<params, node, curseqno, wire, order>>

(* bw2_reqctxWait returns, and the API function with it: the agent has      *)
(* answered a frame that went out, or the BOSSWAVE thread wakes the call at  *)
(* the end of the connection.  Neither is owed: a call whose frame is not    *)
(* out, or whose connection was closed, may wait for ever.                  *)
Answered(c) ==
    /\ call[c].pc = "sent" \/ (call[c].pc = "unsent" /\ fd = "closed")
    /\ call' = [call EXCEPT ![c].pc = "returned"]
    /\ UNCHANGED <<params, node, curseqno, outlock, connected, fd, wire, order, passed>>

(* bw2_disconnect; bw2_daemon does the same when reading fails. *)
disconnect ==
    /\ outlock = NULL /\ connected
    /\ connected' = FALSE /\ fd' = "closed"
    /\ UNCHANGED <<params, call, node, curseqno, outlock, wire, order, passed>>

Finished == (\A c \in Calls : ~Active(c) /\ call[c].pc # "idle") /\ UNCHANGED writerVars

(* What a call does on its own, once begun, until bw2_transact returns *)
TransactStep(c) ==
    \/ AddHeader(c) \/ AppendKV(c) \/ Refuse(c)
    \/ Check(c) \/ Lock(c) \/ FrameLength(c)
    \/ Send(c) \/ ArrayDone(c) \/ FrameDone(c) \/ SendFails(c)

CallStep(c) == Start(c) \/ TransactStep(c) \/ Answered(c)

Next == (\E c \in Calls : CallStep(c)) \/ disconnect \/ Finished

Spec == Init /\ [][Next]_writerVars

(* Threads run, and send does not block forever.  Nothing is owed from the  *)
(* outside: no call, no answer, no disconnect.                              *)
FairSpec == Spec /\ \A c \in Calls : WF_writerVars(TransactStep(c))

-----------------------------------------------------------------------------
Pcs == {"idle", "build", "append", "lock", "length", "sent", "unsent", "returned"}
         \cup Parts

(* Every variable has the values the code gives it: _bw2_getSeqNo never      *)
(* yields a negative number, and no list of headers leads to Wild memory.   *)
TypeOK ==
    /\ params \in Programs
    /\ \A c \in Calls :
          /\ call[c].pc \in Pcs
          /\ {call[c].hdrs, call[c].lasthdr, call[c].kv} \subseteq Nodes \cup {NULL}
          /\ {call[c].framelen, call[c].written} \subseteq Nat
          /\ call[c].seqno \in 0..(SeqnoMax - 1)
          /\ call[c].rv \in {"none", "0", "CONNECTION_LOST", "NOT_SUPPORTED"}
    /\ \A n \in Nodes : /\ node[n].next \in Nodes \cup {NULL, Wild}
                        /\ node[n].len \in Nat
    /\ curseqno \in 0..(SeqnoMax - 1) /\ outlock \in Calls \cup {NULL}
    /\ connected \in BOOLEAN /\ passed \in BOOLEAN /\ fd \in {"open", "closed"}

(* The frame the application asks for: its parameters, each with its        *)
(* length, whatever the headers in memory have become.                      *)
Asked(h) == KvObject(h.key, KeyLen[h.key],
                     IF h.value.blob \in Hashes THEN h.value.size ELSE h.value.strlen,
                     h.value.blob)
Intended(c) ==
    LET hs == Headers(c)
    IN Frame(Command(c), call[c].seqno, [i \in DOMAIN hs |-> Asked(hs[i])] \o Objects(c))
InOrder == [i \in DOMAIN order |-> Intended(order[i])]

(* What reaches the agent is a sequence of well-formed frames, one per      *)
(* request, never mixed, each with the length it states and with every      *)
(* header its caller asked for; only the last one may be cut off.  (An      *)
(* errno that bw2_transact does not list ends this.)                        *)
WireIsFrames == ~passed => IsPrefix(wire, EncodeFrames(InOrder))

(* A call that goes on to wait for an answer has sent its whole frame.      *)
SentIsWritten ==
    \A i \in DOMAIN order :
        call[order[i]].rv = "0" /\ ~passed =>
            Len(wire) >= Len(EncodeFrames(SubSeq(InOrder, 1, i)))

(* No header is followed that lies in the stack frame of a call that has    *)
(* returned, although the structures of the application still point there.  *)
OnlyLiveHeaders ==
    \A c \in Calls :
        Active(c) => call[c].kv \in {NULL} \cup Hashes
                        \cup UNION {Stack(d) : d \in {e \in Calls : Active(e)}}

(* outlock is handed on, whatever fails: a call that asks for it gets it    *)
(* and leaves bw2_transact, on each of its ways out, and bw2_disconnect and  *)
(* bw2_isConnected find it free again and again.  (Whether the call then     *)
(* gets an answer is another matter, see Client.)                           *)
OutlockHandedOn ==
    /\ \A c \in Calls :
          call[c].pc = "lock" ~> call[c].pc \in {"sent", "unsent", "returned"}
    /\ []<>(outlock = NULL)
=============================================================================
