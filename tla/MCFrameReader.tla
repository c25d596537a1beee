--------------------------- MODULE MCFrameReader ----------------------------
(***************************************************************************)
(* FrameReader for TLC: the streams of the runs, cut off after any number   *)
(* of bytes.  Sizes and limits are scaled down: a size_t of 5 bits, octets  *)
(* of 2 bits, structures of 2 bytes.                                        *)
(***************************************************************************)
EXTENDS FrameReader, Functions

Oob == INSTANCE OobFormat

(* A payload object whose number is written in one of the three forms. *)
Po(idlen, colon, fields, num, len) ==
    Oob!Object("po", "none", idlen, colon, fields, num, len, "none")
Empty == Oob!Nothing
Kv(key, keylen, len) == Oob!KvObject(key, keylen, len, "none")
Ro(num, idlen, len) ==
    Oob!Object("ro", "none", idlen, "none", <<num>>, num, len, "none")

Version == Kv("version", 1, 1)
Key     == Kv("key", 1, 2)
Key2    == Kv("key", 2, 0)
Wide    == Kv("key", 1, 5)
LongKey == Kv("key", 3, 1)
Routing == Ro(1, 1, 1)
RoFull  == Ro(1, 2, 1)

(* The dot form of n: its octets, highest first. *)
OctetsOf(n) == <<n \div 64, (n \div 16) % 4, (n \div 4) % 4, n % 4>>
Payload == Po(2, "later", OctetsOf(228), 228, 3)
Number  == Po(2, "first", <<57>>, 57, 0)
Wrapped == Po(2, "first", <<300>>, 44, 0)
Huge    == Po(1, "first", <<7>>, 7, 31)
Dotless == Po(2, "none", <<0>>, 0, 1)
BadForms == {Po(2, "later", f, 0, 1) : f \in {<<1, 4, 0, 1>>, <<1, 2, 3>>, <<1, 2, 3, 0, 1>>}}
TooBig  == Po(2, "first", <<512>>, 0, 1)

Good == {Version, Key, Key2, Routing, Payload, Number, Wrapped}
Bad  == {Dotless, TooBig} \cup BadForms

Hello0     == Oob!Frame("helo", 0, <<Version>>)
NoVersion  == Oob!Frame("helo", 0, <<>>)
NotHello   == Oob!Frame("resp", 0, <<Key, Version>>)
F(seqno, objs) == Oob!Frame("resp", seqno, objs)

GoodFrames == <<Hello0, F(1, <<Key, Payload, Routing>>), F(2, <<>>),
                F(1, <<Routing, Number, Key2, Wrapped>>)>>

(* Frame sequences that a conforming agent may send, and others. *)
Valid == {GoodFrames,
          <<Hello0, F(1, <<Huge>>)>>,
          <<Hello0, F(1, <<Key, Wide>>), F(2, <<Key>>)>>,
          <<Hello0, F(1, <<Key2, LongKey>>)>>,
          <<Hello0, F(1, <<RoFull>>)>>}
Invalid == {<<NoVersion, F(1, <<>>)>>, <<NotHello, F(1, <<>>)>>}
             \cup {<<Hello0, F(1, <<Key, o>>), F(2, <<>>)>> : o \in Bad}

AllFrames == UNION {Range(fs) : fs \in Valid \cup Invalid}
AllObjects == {f.cmd : f \in AllFrames} \cup UNION {Range(f.objs) : f \in AllFrames}

Sizes == [k \in Kinds |-> 2]
Limits == [k \in Kinds |-> IF k = "ro" THEN 2 ELSE 3]

-----------------------------------------------------------------------------
(* The symbols of fs, cut off after n of them. *)
Cut(fs, valid, n) ==
    [sent |-> fs, valid |-> valid, wire |-> SubSeq(Oob!EncodeFrames(fs), 1, n),
     complete |-> Cardinality({k \in 2..Len(fs) :
                     Len(Oob!EncodeFrames(SubSeq(fs, 1, k))) <= n})]
Cuts(fs, valid) == {Cut(fs, valid, n) : n \in 0..Len(Oob!EncodeFrames(fs))}

(* A stray byte where a frame header, a tag, a token or a value belongs. *)
Stray(fs, n) ==
    [Cut(fs, FALSE, n) EXCEPT !.wire = @ \o <<Oob!Sym("bad"), Oob!Sym("nl")>>]

AnyStreams ==
    UNION {Cuts(fs, TRUE) : fs \in Valid} \cup UNION {Cuts(fs, FALSE) : fs \in Invalid}
      \cup {Stray(<<Hello0, F(1, <<Key>>), F(2, <<Routing>>)>>, n) : n \in 0..20}

FullHeapStreams == Cuts(<<Hello0, F(1, <<Key, Wide>>)>>, TRUE)

-----------------------------------------------------------------------------
Plain(heap, size) ==
    [heap |-> heap, size |-> size, malloc |-> FALSE, leave |-> FALSE, thread |-> FALSE]

(* malloc in order; malloc with every fault; a heap that holds some of the  *)
(* frames, and one that is far too small.                                   *)
AllSettings ==
    {Plain(FALSE, 0),
     [Plain(FALSE, 0) EXCEPT !.malloc = TRUE, !.leave = TRUE, !.thread = TRUE],
     [Plain(TRUE, 14) EXCEPT !.leave = TRUE, !.thread = TRUE],
     Plain(TRUE, 1)}

HeapSetting == {Plain(TRUE, 14)}
=============================================================================
