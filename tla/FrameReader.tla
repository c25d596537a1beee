----------------------------- MODULE FrameReader -----------------------------
(***************************************************************************)
(* The reading half of frame.c and utils.c: bw2_readFrame takes OOB frames  *)
(* off the socket, recv by recv, and stores their headers (kv), payload     *)
(* objects (po) and routing objects (ro) in the frame heap or in malloc'd   *)
(* memory.  bw2_connect reads the first frame, the hello, and starts the    *)
(* BOSSWAVE thread, which hands each further frame on and releases it.      *)
(*                                                                         *)
(* The bytes of a stream are symbols [t, o]: what kind of byte (or, for the *)
(* 27 byte frame header and the 3 byte tags, run of bytes) it is, and the   *)
(* object whose text or payload it belongs to.  How the agent lays a frame  *)
(* out in symbols is the business of OobFormat: nothing here relies on it.  *)
(***************************************************************************)
EXTENDS Naturals, Sequences, FiniteSets, SequencesExt

CONSTANTS
    Objects,     \* the objects (and frame headers) whose text may arrive
    NoObject,    \* the text of an empty token
    Streams,     \* [sent, wire, complete, valid]: what the agent may send
    Endings,     \* how recv reports the end of the stream: eof, error
    Settings,    \* [heap, size, malloc, leave, thread]: see below
    SizeMax,     \* 2^w for a size_t of w bits
    Octet,       \* the values of an octet: 256
    UllMax,      \* the values of an unsigned long long: 2^64
    StructSize,  \* sizeof(struct bw2_header), bw2_payloadobj, bw2_routingobj
    DargsSize,   \* sizeof(struct bw2_daemon_info)
    MaxId,       \* BW2_FRAME_MAX_KEY_LENGTH, PONUM_LENGTH, RONUM_LENGTH
    MaxDigits    \* BW2_FRAME_MAX_LENGTH_DIGITS

Kinds == {"kv", "po", "ro"}
Text == Objects \cup {NoObject}
WireSymbols == [t : Kinds \cup {"hdr", "end", "ch", "sp", "nl", "by", "bad"}, o : Text]

(* A setting is what the application and the system do in one connection:   *)
(* whether bw2_connect is given a frame heap, and of which size; whether    *)
(* malloc, or the creation of a thread, may fail; and whether the client    *)
(* may be disconnected when a frame is complete.                            *)
ASSUME FrameAssumption ==
    /\ \A o \in Text : o.len \in Nat /\ o.fields \in Seq(Nat) \ {<<>>}
    /\ \A s \in Streams : s.wire \in Seq(WireSymbols)
    /\ SizeMax \in Nat \ {0} /\ Octet \in Nat \ {0} /\ UllMax \in Nat \ {0}
    /\ Settings \subseteq [heap : BOOLEAN, size : 0..(SizeMax - 1),
                           malloc : BOOLEAN, leave : BOOLEAN, thread : BOOLEAN]
    /\ StructSize \in [Kinds -> Nat \ {0}]
    /\ MaxId \in [Kinds -> Nat \ {0}] /\ MaxDigits \in Nat \ {0}
    \* three words against the four of a header
    /\ DargsSize \in 1..StructSize["kv"]
    \* the fixed part of an object is far from overflowing a size_t
    /\ \A k \in Kinds : StructSize[k] + MaxId[k] + 1 < SizeMax
    /\ Endings \subseteq {"eof", "error"}

VARIABLES
    setting,   \* the setting of this connection
    stream,    \* its stream (for the properties)
    wire,      \* the bytes recv has not returned yet
    ending,    \* what recv returns after them
    phase,     \* who reads: bw2_connect ("hello") or bw2_daemon ("daemon")
    pc,        \* where bw2_readFrame or its caller is
    cur,       \* the object being read: its kind, its two tokens, its block
    got,       \* characters of the token, then bytes of the value, read
    from,      \* the objects whose bytes went into the value (for checking)
    heapused,  \* heapused
    blocks,    \* the blocks of the frame heap given out for this frame
    live,      \* malloc'd blocks that have not been freed
    cmd,       \* frame->cmd and seqno, as the header they came from
    frame,     \* frame->hdrs, pos and ros
    delivered, \* the frames handed on so far
    rv         \* what bw2_readFrame, or bw2_connect, returned

readerVars == <<setting, stream, wire, ending, phase, pc, cur, got, from,
                heapused, blocks, live, cmd, frame, delivered, rv>>

UseHeap == setting.heap      \* frameheap # NULL
HeapSize == setting.size     \* heapsize

NoBlock == [off |-> 0, size |-> 0]     \* NULL: no block has size 0
EmptyFrame == [k \in Kinds |-> <<>>]
NoCur == [kind |-> "kv", id |-> NoObject, idlen |-> 0, num |-> 0,
          length |-> NoObject, block |-> NoBlock]

Init ==
    /\ setting \in Settings
    /\ stream \in Streams /\ wire = stream.wire /\ ending \in Endings
    /\ phase = "hello" /\ pc = "header" /\ cur = NoCur /\ got = 0 /\ from = {}
    /\ heapused = 0 /\ blocks = <<>> /\ live = 0
    /\ cmd = NoObject /\ frame = EmptyFrame /\ delivered = <<>> /\ rv = "0"

(* bw2_readFrame returns an error code, upon which its caller returns. *)
Return(code) == pc' = "exited" /\ rv' = code

(* A write through a NULL pointer: the process ends here. *)
Crash == pc' = "crash" /\ UNCHANGED rv

Goto(label) == pc' = label /\ UNCHANGED rv

(* recv of one byte, or of a run of bytes of fixed length. *)
Next1 == Head(wire)
Consume(n) == wire' = SubSeq(wire, n + 1, Len(wire))
Ended == wire = <<>>

vallen == cur.length.len % SizeMax     \* (size_t) strtoull(length)

-----------------------------------------------------------------------------
(* The frame header, and the tag of each object. *)

ReadHeader ==
    /\ pc = "header" /\ ~Ended
    /\ Consume(1)
    /\ heapused' = 0 /\ blocks' = <<>>
    /\ cmd' = Next1.o /\ frame' = EmptyFrame
    /\ IF Next1.t = "hdr" THEN Goto("tag") ELSE Return("MALFORMED_FRAME")
    /\ UNCHANGED <<setting, stream, ending, phase, cur, got, from, live,
                   delivered>>

HeaderLost ==
    /\ pc = "header" /\ Ended
    /\ Return(IF ending = "eof" THEN "MALFORMED_FRAME" ELSE "CONNECTION_LOST")
    /\ UNCHANGED <<setting, stream, wire, ending, phase, cur, got, from,
                   heapused, blocks, live, cmd, frame, delivered>>

ReadTag ==
    /\ pc = "tag" /\ ~Ended
    /\ Consume(1)
    /\ \/ /\ Next1.t \in Kinds
          /\ cur' = [NoCur EXCEPT !.kind = Next1.t] /\ got' = 0
          /\ Goto("id")
       \/ /\ Next1.t = "end" /\ Goto("end")
          /\ UNCHANGED <<cur, got>>
       \/ /\ Next1.t \notin Kinds \cup {"end"} /\ Return("MALFORMED_FRAME")
          /\ UNCHANGED <<cur, got>>
    /\ UNCHANGED <<setting, stream, ending, phase, from, heapused, blocks, live,
                   cmd, frame, delivered>>

(* Of a value, a tag, the newline after either: any failure is the same. *)
BodyLost ==
    /\ Ended
    /\ \/ pc \in {"tag", "end", "newline"}
       \/ pc \in {"value", "skip"} /\ got # vallen
    /\ Return("MALFORMED_FRAME")
    /\ UNCHANGED <<setting, stream, wire, ending, phase, cur, got, from,
                   heapused, blocks, live, cmd, frame, delivered>>

-----------------------------------------------------------------------------
(* _bw2_frame_read_token: the key or number up to a space, then the length  *)
(* up to a newline, into buffers of MaxId and MaxDigits characters.         *)

Delimiter == IF pc = "id" THEN "sp" ELSE "nl"
Room == IF pc = "id" THEN MaxId[cur.kind] ELSE MaxDigits

TokenChar ==
    /\ pc \in {"id", "length"} /\ ~Ended /\ got < Room
    /\ Next1.t # Delimiter
    /\ Consume(1) /\ got' = got + 1
    /\ cur' = IF got # 0 THEN cur
              ELSE IF pc = "id" THEN [cur EXCEPT !.id = Next1.o]
              ELSE [cur EXCEPT !.length = Next1.o]
    /\ UNCHANGED <<setting, stream, ending, phase, pc, from, heapused, blocks,
                   live, cmd, frame, delivered, rv>>

TokenEnd ==
    /\ pc \in {"id", "length"} /\ ~Ended /\ got < Room
    /\ Next1.t = Delimiter
    /\ Consume(1) /\ got' = 0
    /\ cur' = IF pc = "id" THEN [cur EXCEPT !.idlen = got] ELSE cur
    /\ Goto(IF pc = "id" THEN "length" ELSE "parse")
    /\ UNCHANGED <<setting, stream, ending, phase, from, heapused, blocks, live,
                   cmd, frame, delivered>>

(* The buffer is full before the delimiter: bw2_drop_until_char receives    *)
(* another byte and counts it in *bytesread, which is NULL.                 *)
TokenFull ==
    /\ pc \in {"id", "length"} /\ ~Ended /\ got = Room
    /\ Consume(1) /\ Crash
    /\ UNCHANGED <<setting, stream, ending, phase, cur, got, from, heapused,
                   blocks, live, cmd, frame, delivered>>

TokenLost ==
    /\ pc \in {"id", "length"} /\ Ended
    /\ Return(IF ending = "eof" THEN "MALFORMED_FRAME" ELSE "-1")
    /\ UNCHANGED <<setting, stream, wire, ending, phase, cur, got, from,
                   heapused, blocks, live, cmd, frame, delivered>>

(* bw2_ponum_from_dot_form: four octets; a field without digits is 0. *)
ponum_from_dot_form_swapped(f) ==
    ((f[4] * Octet + f[3]) * Octet + f[2]) * Octet + f[1]
ponum_from_dot_form(f) ==
    ((f[1] * Octet + f[2]) * Octet + f[3]) * Octet + f[4]
DotForm(f) == Len(f) = 4 /\ \A i \in 1..4 : f[i] < Octet

(* strtoull and the cast to uint32_t, uint8_t *)
CutTo(bits, n) == n % bits
PoMax == Octet * Octet * Octet * Octet

(* A PO number is a number after a colon, or a dot form before one; without *)
(* a colon, strchr's NULL is written through.                               *)
ParseNumber ==
    /\ pc = "parse"
    /\ LET f == cur.id.fields IN
       \/ /\ cur.kind = "kv" /\ Goto("alloc") /\ UNCHANGED cur
       \/ /\ cur.kind = "ro" /\ Goto("alloc")
          /\ cur' = [cur EXCEPT !.num = CutTo(Octet, f[1])]
       \/ /\ cur.kind = "po" /\ cur.id.colon = "first" /\ f[1] < UllMax
          /\ cur' = [cur EXCEPT !.num = CutTo(PoMax, f[1])] /\ Goto("alloc")
       \/ /\ cur.kind = "po" /\ cur.id.colon = "later" /\ DotForm(f)
          /\ cur' = [cur EXCEPT !.num = ponum_from_dot_form(f)] /\ Goto("alloc")
       \/ /\ cur.kind = "po"
          /\ \/ cur.id.colon = "first" /\ f[1] >= UllMax
             \/ cur.id.colon = "later" /\ ~DotForm(f)
          /\ Return("MALFORMED_FRAME") /\ UNCHANGED cur
       \/ /\ cur.kind = "po" /\ cur.id.colon = "none" /\ Crash /\ UNCHANGED cur
    /\ UNCHANGED <<setting, stream, wire, ending, phase, got, from, heapused,
                   blocks, live, cmd, frame, delivered>>

-----------------------------------------------------------------------------
(* The block of an object, and its value. *)

(* What precedes the value: the structure and, in a header, the key. *)
Overhead == StructSize[cur.kind] + (IF cur.kind = "kv" THEN cur.idlen + 1 ELSE 0)

ObjectSize == (Overhead + vallen) % SizeMax

(* Mutant: hdrlen is not compared with vallen. *)
NoOverflow_unchecked == TRUE
NoOverflow == ObjectSize >= vallen

(* _bw2_frame_heap_alloc *)
Fits_offByOne == HeapSize - heapused + 1 >= ObjectSize
Fits == HeapSize - heapused >= ObjectSize

Allocate ==
    /\ pc = "alloc" /\ NoOverflow
    /\ \/ /\ UseHeap /\ Fits
          /\ cur' = [cur EXCEPT !.block = [off |-> heapused, size |-> ObjectSize]]
          /\ blocks' = Append(blocks, cur'.block)
          /\ heapused' = heapused + ObjectSize
          /\ UNCHANGED live
       \/ /\ ~UseHeap
          /\ cur' = [cur EXCEPT !.block = [off |-> 0, size |-> ObjectSize]]
          /\ live' = live + 1
          /\ UNCHANGED <<blocks, heapused>>
    /\ got' = 0 /\ from' = {} /\ Goto("value")
    /\ UNCHANGED <<setting, stream, wire, ending, phase, cmd, frame, delivered>>

(* No space: the value is dropped. *)
NoSpace ==
    /\ pc = "alloc"
    /\ ~NoOverflow \/ (UseHeap /\ ~Fits) \/ (~UseHeap /\ setting.malloc)
    /\ got' = 0 /\ Goto("skip")
    /\ UNCHANGED <<setting, stream, wire, ending, phase, cur, from, heapused,
                   blocks, live, cmd, frame, delivered>>

Received(n) == {wire[i].o : i \in 1..n}

(* Mutant: one recv is taken to fill the array. *)
ReadValue_once ==
    /\ pc = "value" /\ ~Ended /\ got # vallen
    /\ \E n \in 1..Len(wire) :
          /\ n <= vallen - got
          /\ Consume(n) /\ got' = vallen /\ from' = from \cup Received(n)
    /\ UNCHANGED <<setting, stream, ending, phase, pc, cur, heapused, blocks,
                   live, cmd, frame, delivered, rv>>

(* bw2_read_until_full: recv returns as many bytes as it pleases. *)
ReadValue ==
    /\ pc = "value" /\ ~Ended /\ got # vallen
    /\ \E n \in 1..Len(wire) :
          /\ n <= vallen - got
          /\ Consume(n) /\ got' = got + n /\ from' = from \cup Received(n)
    /\ UNCHANGED <<setting, stream, ending, phase, pc, cur, heapused, blocks,
                   live, cmd, frame, delivered, rv>>

(* bw2_drop_full_array *)
SkipValue ==
    /\ pc = "skip" /\ ~Ended /\ got # vallen
    /\ Consume(1) /\ got' = got + 1
    /\ UNCHANGED <<setting, stream, ending, phase, pc, cur, from, heapused,
                   blocks, live, cmd, frame, delivered, rv>>

ValueDone ==
    /\ pc \in {"value", "skip"} /\ got = vallen
    /\ Goto("newline")
    /\ UNCHANGED <<setting, stream, wire, ending, phase, cur, got, from,
                   heapused, blocks, live, cmd, frame, delivered>>

-----------------------------------------------------------------------------
(* The newline after the value, and the object joins its list. *)

ReadObject == [id |-> cur.id, num |-> cur.num, len |-> vallen, from |-> from]

AppendObject == [frame EXCEPT ![cur.kind] = Append(@, ReadObject)]

(* _bw2_frame_read_KV, PO or RO returned 0 also when there was no space,    *)
(* with no object, whose next pointer is then set.                          *)
ConsumeNewline ==
    /\ pc = "newline" /\ ~Ended
    /\ Consume(1)
    /\ \/ /\ Next1.t # "nl" /\ Return("MALFORMED_FRAME") /\ UNCHANGED frame
       \/ /\ Next1.t = "nl" /\ cur.block # NoBlock
          /\ frame' = AppendObject /\ Goto("tag")
       \/ /\ Next1.t = "nl" /\ cur.block = NoBlock
          /\ Crash /\ UNCHANGED frame
    /\ UNCHANGED <<setting, stream, ending, phase, cur, got, from, heapused,
                   blocks, live, cmd, delivered>>

ReadEnd ==
    /\ pc = "end" /\ ~Ended
    /\ Consume(1)
    /\ IF Next1.t = "nl" THEN Goto("ready") ELSE Return("MALFORMED_FRAME")
    /\ UNCHANGED <<setting, stream, ending, phase, cur, got, from, heapused,
                   blocks, live, cmd, frame, delivered>>

-----------------------------------------------------------------------------
(* The caller of bw2_readFrame *)

(* bw2_frameFreeResources *)
Count(k) == Len(frame[k])
Freed_noRouting == Count("kv") + Count("po")
Freed == Count("kv") + Count("po") + Count("ro")

(* bw2_getFirstHeader finds a header. *)
HasHeader(key) == \E i \in 1..Count("kv") : frame["kv"][i].id.key = key

(* Mutant: any hello frame will do. *)
Hello_anyVersion ==
    /\ pc = "ready" /\ phase = "hello"
    /\ IF cmd.key = "helo"
       THEN Goto("dargs") /\ live' = IF UseHeap THEN live ELSE live - Freed
       ELSE Return("UNEXPECTED_FRAME") /\ UNCHANGED live
    /\ UNCHANGED <<setting, stream, wire, ending, phase, cur, got, from,
                   heapused, blocks, cmd, frame, delivered>>

(* bw2_connect looks at the first frame, and releases it only if it is a   *)
(* hello with a version.                                                    *)
Hello ==
    /\ pc = "ready" /\ phase = "hello"
    /\ \/ /\ cmd.key # "helo"
          /\ Return("UNEXPECTED_FRAME") /\ UNCHANGED live
       \/ /\ cmd.key = "helo" /\ ~HasHeader("version")
          /\ Return("MISSING_HEADER") /\ UNCHANGED live
       \/ /\ cmd.key = "helo" /\ HasHeader("version")
          /\ live' = IF UseHeap THEN live ELSE live - Freed
          /\ Goto("dargs")
    /\ UNCHANGED <<setting, stream, wire, ending, phase, cur, got, from,
                   heapused, blocks, cmd, frame, delivered>>

(* bw2_connect writes the arguments of the thread to the start of the frame *)
(* heap, whatever its size, or to malloc'd memory; then the thread starts,  *)
(* or cannot be created.                                                    *)
StartDaemon ==
    /\ pc = "dargs"
    /\ \/ /\ ~UseHeap /\ setting.malloc /\ Crash /\ UNCHANGED live
       \/ /\ live' = IF UseHeap THEN live ELSE live + 1
          /\ Goto("trampoline")
       \/ /\ setting.thread
          /\ live' = IF UseHeap THEN live ELSE live + 1
          /\ Return("THREAD")
    /\ UNCHANGED <<setting, stream, wire, ending, phase, cur, got, from,
                   heapused, blocks, cmd, frame, delivered>>

(* Mutant: the arguments are not freed. *)
Trampoline_keeps ==
    /\ pc = "trampoline"
    /\ phase' = "daemon" /\ Goto("header")
    /\ UNCHANGED <<setting, stream, wire, ending, cur, got, from, heapused,
                   blocks, live, cmd, frame, delivered>>

(* _bw2_daemon_trampoline takes over its arguments and enters bw2_daemon. *)
Trampoline ==
    /\ pc = "trampoline"
    /\ live' = IF UseHeap THEN live ELSE live - 1
    /\ phase' = "daemon" /\ Goto("header")
    /\ UNCHANGED <<setting, stream, wire, ending, cur, got, from, heapused,
                   blocks, cmd, frame, delivered>>

(* bw2_daemon: the frame goes to the callbacks and is released. *)
HandOn ==
    /\ pc = "ready" /\ phase = "daemon"
    /\ delivered' = Append(delivered, [cmd |-> cmd, lists |-> frame])
    /\ live' = IF UseHeap THEN live ELSE live - Freed
    /\ Goto("header")
    /\ UNCHANGED <<setting, stream, wire, ending, phase, cur, got, from,
                   heapused, blocks, cmd, frame>>

(* bw2_daemon: the client is no longer connected, and the thread returns. *)
NotConnected ==
    /\ pc = "ready" /\ phase = "daemon" /\ setting.leave
    /\ Goto("exited")
    /\ UNCHANGED <<setting, stream, wire, ending, phase, cur, got, from,
                   heapused, blocks, live, cmd, frame, delivered>>

Stopped == pc \in {"exited", "crash"} /\ UNCHANGED readerVars

Next == \/ ReadHeader \/ HeaderLost \/ ReadTag \/ BodyLost
        \/ TokenChar \/ TokenEnd \/ TokenFull \/ TokenLost \/ ParseNumber
        \/ Allocate \/ NoSpace \/ ReadValue \/ SkipValue \/ ValueDone
        \/ ConsumeNewline \/ ReadEnd
        \/ Hello \/ StartDaemon \/ Trampoline \/ HandOn \/ NotConnected \/ Stopped

Spec == Init /\ [][Next]_readerVars

(* The thread that reads runs; recv returns, with bytes, end or error. *)
FairSpec == Spec /\ WF_readerVars(Next)

-----------------------------------------------------------------------------
Blocks == [off : Nat, size : Nat]
Lists == [Kinds -> Seq([id : Text, num : Nat, len : Nat, from : SUBSET Text])]
Curs == [kind : Kinds, id : Text, idlen : Nat, num : Nat, length : Text,
         block : Blocks]

(* Every variable of bw2_readFrame and its callers has the values the code   *)
(* gives it: heapused never passes heapsize, a token never its buffer.      *)
TypeOK ==
    /\ setting \in Settings
    /\ wire \in Seq(WireSymbols) /\ ending \in {"eof", "error"}
    /\ phase \in {"hello", "daemon"}
    /\ pc \in {"header", "tag", "id", "length", "parse", "alloc", "value",
               "skip", "newline", "end", "ready", "dargs", "trampoline",
               "exited", "crash"}
    /\ cur \in Curs /\ cur.idlen < MaxId[cur.kind]
    /\ got \in Nat /\ from \subseteq Text
    /\ heapused \in 0..HeapSize /\ blocks \in Seq(Blocks)
    /\ live \in Nat
    /\ cmd \in Text /\ frame \in Lists
    /\ delivered \in Seq([cmd : Text, lists : Lists])
    /\ rv \in {"0", "-1", "MALFORMED_FRAME", "CONNECTION_LOST",
               "UNEXPECTED_FRAME", "MISSING_HEADER", "THREAD"}

(* Two objects of a frame never share a byte of the frame heap, and none    *)
(* reaches past its end, whatever lengths the agent states and however      *)
(* size_t wraps around.                                                     *)
BlocksApart ==
    /\ \A i, j \in 1..Len(blocks) :
          i < j => blocks[i].off + blocks[i].size <= blocks[j].off
    /\ \A i \in 1..Len(blocks) : blocks[i].off + blocks[i].size <= HeapSize

(* The structure, the key with its NUL and all the bytes recv may still     *)
(* store lie in the block: it was allocated for the length that bounds the  *)
(* reads, although size_t may have wrapped in between.                      *)
WritesInBlock ==
    pc = "value" =>
      /\ got <= vallen
      /\ StructSize[cur.kind] + vallen
           + (IF cur.kind = "kv" THEN cur.idlen + 1 ELSE 0) <= cur.block.size

(* The arguments of the BOSSWAVE thread fit the frame heap, although         *)
(* bw2_connect does not compare the sizes: the version header of the hello  *)
(* frame has been stored in that heap before, and is larger.                *)
DargsInHeap == pc = "dargs" /\ UseHeap => DargsSize <= HeapSize

(* What a frame becomes when every object has been stored: each joins the  *)
(* list of its kind.                                                        *)
StoredObject(o) ==
    [id |-> o, num |-> o.num, len |-> o.len, from |-> IF o.len = 0 THEN {} ELSE {o}]
OfKind(k, objs) ==
    [i \in DOMAIN objs |-> IF objs[i].kind = k THEN <<StoredObject(objs[i])>> ELSE <<>>]
Stored(f) ==
    [cmd |-> f.cmd, lists |-> [k \in Kinds |-> FlattenSeq(OfKind(k, f.objs))]]

(* The frames handed on are the frames sent after the hello, in order, each *)
(* with all of its objects, in order, with their own bytes and the numbers  *)
(* the agent gave them, however recv cut the stream.                        *)
DeliveredAsSent ==
    /\ Len(delivered) < Len(stream.sent) \/ delivered = <<>>
    /\ \A i \in DOMAIN delivered : delivered[i] = Stored(stream.sent[i + 1])

(* Reading a well-formed stream is given up only at its end: bw2_readFrame  *)
(* never loses its place in the stream.                                     *)
FailsAtEnd == stream.valid /\ rv \notin {"0", "THREAD"} => Ended

(* No NULL pointer is written through. *)
NoCrash == pc # "crash"

(* With malloc, nothing of a frame, or of the start of the thread, is left  *)
(* when the next frame is read.                                             *)
FreedBetweenFrames == pc = "header" => live = 0

(* A connection that ends with an error in the middle of a frame, or of     *)
(* bw2_connect, leaves allocated what it had read of that one frame, or the *)
(* arguments of the thread, and no more.                                    *)
LeaksOneFrame ==
    pc = "exited" => live <= Count("kv") + Count("po") + Count("ro") + 1

(* An object that fits the buffers for its tokens, and a size_t. *)
Storable(o) ==
    /\ o.idlen < MaxId[o.kind]
    /\ StructSize[o.kind] + o.idlen + 1 + o.len < SizeMax

(* With malloc that succeeds, every frame that arrived completely is handed *)
(* on, and the thread returns when the stream ends.                         *)
EveryFrameDelivered ==
    /\ ~UseHeap /\ ~setting.malloc /\ ~setting.leave /\ ~setting.thread
    /\ stream.valid
    /\ \A f \in DOMAIN stream.sent : \A i \in DOMAIN stream.sent[f].objs :
           Storable(stream.sent[f].objs[i])
    => <>(pc = "exited" /\ Len(delivered) = stream.complete)
=============================================================================
