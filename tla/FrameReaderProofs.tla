-------------------------- MODULE FrameReaderProofs --------------------------
(* Theorems about bw2_readFrame, for every stream, frame heap and size_t.   *)
EXTENDS FrameReader, FormatProofs

-----------------------------------------------------------------------------
(* The facts about lengths and sequences the steps rest on. *)

(* A sum of two size_t's that is not smaller than one of them did not wrap. *)
LEMMA WrapDetected ==
    ASSUME NEW M \in Nat \ {0}, NEW a \in Nat, NEW b \in Nat, a < M, b < M
    PROVE  /\ (a + b) % M \in 0..(M - 1)
           /\ (a + b) % M >= b => (a + b) % M = a + b
<1>1. CASE a + b < M
  BY <1>1
<1>2. CASE a + b >= M
  <2>1. (a + b) % M = a + b - M
    BY <1>2
  <2> QED BY <2>1, <1>2
<1> QED BY <1>1, <1>2

(* recv of n bytes leaves a stream of symbols. *)
LEMMA ConsumeType ==
    ASSUME TypeOK, NEW n \in Nat, Consume(n)
    PROVE  wire' \in Seq(WireSymbols)
<1>1. \A i \in (n + 1)..Len(wire) : wire[i] \in WireSymbols
  BY DEF TypeOK
<1> QED BY <1>1, SubSeqProperties DEF Consume, TypeOK

(* The byte recv returns is a symbol. *)
LEMMA NextSymbol ==
    ASSUME TypeOK, ~Ended
    PROVE  Next1 \in WireSymbols /\ Len(wire) \in Nat \ {0}
BY DEF TypeOK, Ended, Next1

(* The sizes of the object being read. *)
LEMMA ObjectSizes ==
    ASSUME TypeOK
    PROVE  /\ vallen \in 0..(SizeMax - 1)
           /\ Overhead \in 1..(SizeMax - 1)
           /\ ObjectSize \in 0..(SizeMax - 1)
           /\ NoOverflow => ObjectSize = Overhead + vallen
<1>1. cur.length.len \in Nat /\ SizeMax \in Nat \ {0}
  BY FrameAssumption DEF TypeOK, Curs
<1>2. vallen \in 0..(SizeMax - 1)
  BY <1>1 DEF vallen
<1>3. Overhead \in 1..(SizeMax - 1)
  <2>1. /\ cur.kind \in Kinds /\ cur.idlen \in Nat
        /\ cur.idlen < MaxId[cur.kind]
    BY DEF TypeOK, Curs
  <2>2. /\ StructSize[cur.kind] \in Nat \ {0} /\ MaxId[cur.kind] \in Nat
        /\ StructSize[cur.kind] + MaxId[cur.kind] + 1 < SizeMax
    BY <2>1, FrameAssumption
  <2> QED BY <1>1, <2>1, <2>2 DEF Overhead
<1>4. /\ Overhead \in Nat /\ Overhead < SizeMax
      /\ vallen \in Nat /\ vallen < SizeMax
  BY <1>1, <1>2, <1>3
<1>5. /\ (Overhead + vallen) % SizeMax \in 0..(SizeMax - 1)
      /\ (Overhead + vallen) % SizeMax >= vallen
            => (Overhead + vallen) % SizeMax = Overhead + vallen
  <2> HIDE DEF Overhead, vallen
  <2> QED BY <1>1, <1>4, WrapDetected
<1> QED
  BY <1>2, <1>3, <1>5 DEF ObjectSize, NoOverflow

(* The number of objects bw2_frameFreeResources frees. *)
LEMMA FreedIsNat ==
    ASSUME TypeOK
    PROVE  Freed \in Nat
<1>1. \A k \in Kinds : Count(k) \in Nat
  BY DEF TypeOK, Lists, Count
<1>2. "kv" \in Kinds /\ "po" \in Kinds /\ "ro" \in Kinds
  BY DEF Kinds
<1> QED BY <1>1, <1>2 DEF Freed

(* What bw2_readFrame makes of the number of an object is a number. *)
LEMMA NumbersAreNat ==
    ASSUME NEW f \in Seq(Nat)
    PROVE  /\ DotForm(f) => ponum_from_dot_form(f) \in Nat
           /\ f # <<>> => CutTo(Octet, f[1]) \in Nat /\ CutTo(PoMax, f[1]) \in Nat
<1>p. ASSUME NEW a \in Nat, NEW b \in Nat, NEW c \in Nat PROVE a * b + c \in Nat
  OBVIOUS
<1>o. Octet \in Nat \ {0}
  BY FrameAssumption
<1>1. ASSUME DotForm(f) PROVE ponum_from_dot_form(f) \in Nat
  <2>0. Len(f) = 4 /\ \A i \in 1..4 : f[i] \in Nat
    <3>1. Len(f) = 4
      BY <1>1 DEF DotForm
    <3>2. \A i \in 1..Len(f) : f[i] \in Nat
      OBVIOUS
    <3> QED BY <3>1, <3>2
  <2>e. 1 \in 1..4 /\ 2 \in 1..4 /\ 3 \in 1..4 /\ 4 \in 1..4
    OBVIOUS
  <2>1. f[1] \in Nat /\ f[2] \in Nat /\ f[3] \in Nat /\ f[4] \in Nat
    BY <2>0, <2>e
  <2>2. f[1] * Octet + f[2] \in Nat
    BY <2>1, <1>p, <1>o
  <2>3. (f[1] * Octet + f[2]) * Octet + f[3] \in Nat
    BY <2>1, <2>2, <1>p, <1>o
  <2> QED BY <2>1, <2>3, <1>p, <1>o DEF ponum_from_dot_form
<1>2. ASSUME f # <<>> PROVE CutTo(Octet, f[1]) \in Nat /\ CutTo(PoMax, f[1]) \in Nat
  <2>1. f[1] \in Nat
    BY <1>2
  <2>p. ASSUME NEW a \in Nat \ {0}, NEW b \in Nat \ {0} PROVE a * b \in Nat \ {0}
    OBVIOUS
  <2>2. Octet * Octet * Octet * Octet \in Nat \ {0}
    <3>1. Octet * Octet \in Nat \ {0}
      BY <1>o, <2>p
    <3>2. Octet * Octet * Octet \in Nat \ {0}
      BY <1>o, <2>p, <3>1
    <3> QED BY <1>o, <2>p, <3>2
  <2>m. ASSUME NEW a \in Nat, NEW b \in Nat \ {0} PROVE a % b \in Nat
    OBVIOUS
  <2> QED BY <2>1, <2>2, <2>m, <1>o DEF CutTo, PoMax
<1> QED BY <1>1, <1>2

(* Nothing changes the setting of a connection. *)
LEMMA SettingFixed ==
    [Next]_readerVars => UNCHANGED <<setting, UseHeap, HeapSize>>
<1> SUFFICES ASSUME [Next]_readerVars PROVE setting' = setting
  BY DEF UseHeap, HeapSize
<1> QED
  BY DEF Next, ReadHeader, HeaderLost, ReadTag, BodyLost, TokenChar, TokenEnd,
         TokenFull, TokenLost, ParseNumber, Allocate, NoSpace, ReadValue,
         SkipValue, ValueDone, ConsumeNewline, ReadEnd, Hello, StartDaemon,
         Trampoline, HandOn, NotConnected, Stopped, readerVars

(* The heap of a setting. *)
LEMMA HeapTypes ==
    ASSUME TypeOK
    PROVE  UseHeap \in BOOLEAN /\ HeapSize \in Nat
<1>1. setting \in [heap : BOOLEAN, size : 0..(SizeMax - 1), malloc : BOOLEAN,
                  leave : BOOLEAN, thread : BOOLEAN]
  BY FrameAssumption DEF TypeOK
<1> QED BY <1>1 DEF UseHeap, HeapSize

-----------------------------------------------------------------------------
(* The inductive invariant. *)

(* The blocks given out lie, in order, below heapused. *)
BelowUsed ==
    /\ \A i, j \in 1..Len(blocks) :
          i < j => blocks[i].off + blocks[i].size <= blocks[j].off
    /\ \A i \in 1..Len(blocks) : blocks[i].off + blocks[i].size <= heapused

(* What malloc gave and free has not taken back: the objects linked into    *)
(* the frame, and the one being read.                                       *)
Pending == IF cur.block # NoBlock /\ pc \in {"value", "newline"} THEN 1 ELSE 0
LiveCount ==
    /\ UseHeap => live = 0
    /\ pc \in {"header", "dargs"} => live = 0
    /\ ~UseHeap /\ pc = "trampoline" => live = 1
    /\ ~UseHeap /\ pc \notin {"header", "dargs", "trampoline", "exited", "crash"}
          => live = Freed + Pending
    /\ pc = "exited" => live <= Freed + 1

BlockOfValue == /\ pc = "value" => cur.block.size # 0
                /\ pc \in {"id", "length", "parse", "alloc", "skip"}
                      => cur.block = NoBlock

(* A header that was stored in the frame heap shows that the heap can hold  *)
(* one, and bw2_connect has found a header when it starts the thread.       *)
HeaderHeld ==
    /\ UseHeap /\ Count("kv") > 0 => StructSize["kv"] <= HeapSize
    /\ UseHeap /\ pc \in {"value", "newline"} /\ cur.block # NoBlock
          => StructSize[cur.kind] <= HeapSize
    /\ pc = "dargs" => Count("kv") > 0

ReaderInv == /\ TypeOK /\ BelowUsed /\ WritesInBlock /\ BlockOfValue /\ LiveCount
             /\ HeaderHeld

(* The reader starts in the invariant. *)
LEMMA ReaderInit == Init => ReaderInv
<1> SUFFICES ASSUME Init PROVE ReaderInv
  OBVIOUS
<1>s. setting \in [heap : BOOLEAN, size : 0..(SizeMax - 1), malloc : BOOLEAN,
                  leave : BOOLEAN, thread : BOOLEAN]
  BY FrameAssumption DEF Init
<1>h. heapused \in 0..HeapSize
  BY <1>s DEF Init, HeapSize
<1>c. cur \in Curs /\ cur.idlen < MaxId[cur.kind]
  BY FrameAssumption DEF Init, NoCur, NoBlock, Kinds, Text, Curs, Blocks
<1>1. TypeOK
  <2>1. wire \in Seq(WireSymbols) /\ ending \in {"eof", "error"} /\ setting \in Settings
    BY FrameAssumption DEF Init
  <2>2. frame \in Lists /\ cmd \in Text
    BY DEF Init, Lists, EmptyFrame, Text
  <2> QED BY <1>h, <1>c, <2>1, <2>2 DEF Init, TypeOK
<1>2. BelowUsed /\ WritesInBlock /\ BlockOfValue /\ LiveCount
  BY DEF Init, BelowUsed, WritesInBlock, BlockOfValue, LiveCount
<1>3. HeaderHeld
  <2>1. Count("kv") = 0
    BY DEF Init, EmptyFrame, Kinds, Count
  <2> QED BY <2>1 DEF Init, HeaderHeld
<1> QED BY <1>1, <1>2, <1>3 DEF ReaderInv

-----------------------------------------------------------------------------
(* Every step of bw2_readFrame and bw2_daemon keeps the types. *)
LEMMA ReaderTypeStep == ReaderInv /\ [Next]_readerVars => TypeOK'
<1> SUFFICES ASSUME ReaderInv, [Next]_readerVars PROVE TypeOK'
  OBVIOUS
<1>t. TypeOK
  BY DEF ReaderInv
<1>c. /\ cur \in Curs
      /\ cur.idlen < MaxId[cur.kind]
  BY <1>t DEF TypeOK
<1>n. NoCur \in Curs
  BY DEF NoCur, NoBlock, Kinds, Text, Blocks, Curs
<1>u. UNCHANGED <<setting, UseHeap, HeapSize>>
  BY SettingFixed
<1>s. ~Ended => Next1.o \in Text
  BY <1>t, NextSymbol DEF WireSymbols
<1>1. CASE ReadHeader
  <2>1. wire' \in Seq(WireSymbols)
    BY <1>1, <1>t, ConsumeType DEF ReadHeader
  <2>2. EmptyFrame \in Lists
    BY DEF EmptyFrame, Lists
  <2>3. 0 \in 0..HeapSize
    BY <1>t, HeapTypes
  <2>4. cmd' \in Text
    BY <1>1, <1>s DEF ReadHeader
  <2> QED BY <1>1, <1>t, <1>u, <2>1, <2>2, <2>3, <2>4
          DEF ReadHeader, TypeOK, Goto, Return
<1>2. CASE HeaderLost
  BY <1>2, <1>t, <1>u DEF HeaderLost, TypeOK, Return
<1>3. CASE ReadTag
  <2>1. wire' \in Seq(WireSymbols)
    BY <1>3, <1>t, ConsumeType DEF ReadTag
  <2>2. /\ cur' \in Curs
        /\ cur'.idlen < MaxId[cur'.kind]
        /\ got' \in Nat
    <3>1. CASE cur' = [NoCur EXCEPT !.kind = Next1.t] /\ Next1.t \in Kinds /\ got' = 0
      <4>1. cur'.kind \in Kinds /\ cur'.idlen = 0
        BY <3>1 DEF NoCur
      <4>2. MaxId[cur'.kind] \in Nat \ {0}
        BY <4>1, FrameAssumption
      <4>3. cur' \in Curs
        BY <3>1, <1>n DEF Curs
      <4> QED BY <3>1, <4>1, <4>2, <4>3
    <3> QED BY <1>3, <3>1, <1>t DEF ReadTag, TypeOK
  <2> QED BY <1>3, <1>t, <1>u, <2>1, <2>2 DEF ReadTag, TypeOK, Goto, Return
<1>4. CASE BodyLost
  BY <1>4, <1>t, <1>u DEF BodyLost, TypeOK, Return
<1>5. CASE TokenChar
  <2>1. wire' \in Seq(WireSymbols)
    BY <1>5, <1>t, ConsumeType DEF TokenChar
  <2>2. /\ cur' \in Curs
        /\ cur'.idlen < MaxId[cur'.kind]
    BY <1>5, <1>c, <1>s DEF TokenChar, Curs
  <2> QED BY <1>5, <1>t, <1>u, <2>1, <2>2 DEF TokenChar, TypeOK
<1>6. CASE TokenEnd
  <2>1. wire' \in Seq(WireSymbols)
    BY <1>6, <1>t, ConsumeType DEF TokenEnd
  <2>2. /\ cur' \in Curs
        /\ cur'.idlen < MaxId[cur'.kind]
    BY <1>6, <1>c, <1>t DEF TokenEnd, Room, TypeOK, Curs
  <2> QED BY <1>6, <1>t, <1>u, <2>1, <2>2 DEF TokenEnd, TypeOK, Goto
<1>7. CASE TokenFull
  <2>1. wire' \in Seq(WireSymbols)
    BY <1>7, <1>t, ConsumeType DEF TokenFull
  <2> QED BY <1>7, <1>t, <1>u, <2>1 DEF TokenFull, TypeOK, Crash
<1>8. CASE TokenLost
  BY <1>8, <1>t, <1>u DEF TokenLost, TypeOK, Return
<1>9. CASE ParseNumber
  <2>1. cur.id.fields \in Seq(Nat) /\ cur.id.fields # <<>>
    BY <1>c, FrameAssumption DEF Curs
  <2>2. cur' \in Curs /\ cur'.idlen < MaxId[cur'.kind]
    <3>1. CASE UNCHANGED cur
      BY <3>1, <1>c
    <3>2. ASSUME NEW n \in Nat, cur' = [cur EXCEPT !.num = n]
          PROVE  cur' \in Curs /\ cur'.idlen < MaxId[cur'.kind]
      BY <3>2, <1>c DEF Curs
    <3>3. CASE cur' = [cur EXCEPT !.num = CutTo(Octet, cur.id.fields[1])]
      BY <2>1, <3>2, <3>3, NumbersAreNat
    <3>4. CASE cur' = [cur EXCEPT !.num = CutTo(PoMax, cur.id.fields[1])]
      BY <2>1, <3>2, <3>4, NumbersAreNat
    <3>5. CASE /\ cur' = [cur EXCEPT !.num = ponum_from_dot_form(cur.id.fields)]
               /\ DotForm(cur.id.fields)
      BY <2>1, <3>2, <3>5, NumbersAreNat
    <3> QED BY <1>9, <3>1, <3>3, <3>4, <3>5 DEF ParseNumber
  <2>3. pc' \in {"alloc", "exited", "crash"} /\ rv' \in {rv, "MALFORMED_FRAME"}
    BY <1>9 DEF ParseNumber, Goto, Return, Crash
  <2> QED BY <1>9, <1>t, <1>u, <2>2, <2>3 DEF ParseNumber, TypeOK
<1>10. CASE Allocate
  <2>1. /\ ObjectSize \in Nat /\ heapused \in 0..HeapSize /\ HeapSize \in Nat
    BY <1>t, ObjectSizes, HeapTypes DEF TypeOK
  <2>2. /\ cur' \in Curs
        /\ cur'.idlen < MaxId[cur'.kind] /\ cur'.block \in Blocks
    BY <1>10, <1>c, <2>1 DEF Allocate, Blocks, Curs
  <2>3. heapused' \in 0..HeapSize
    BY <1>10, <2>1 DEF Allocate, Fits
  <2>4. blocks' \in Seq(Blocks)
    <3>1. Append(blocks, cur'.block) \in Seq(Blocks) /\ blocks \in Seq(Blocks)
      BY <1>t, <2>2, AppendProperties DEF TypeOK
    <3> QED BY <3>1, <1>10 DEF Allocate
  <2>5. live' \in Nat
    BY <1>10, <1>t, <1>u DEF Allocate, TypeOK
  <2> QED BY <1>10, <1>t, <1>u, <2>2, <2>3, <2>4, <2>5 DEF Allocate, TypeOK, Goto
<1>11. CASE NoSpace
  BY <1>11, <1>t, <1>u DEF NoSpace, TypeOK, Goto
<1>12. CASE ReadValue
  <2> PICK n \in 1..Len(wire) : Consume(n) /\ got' = got + n /\ from' = from \cup Received(n)
    BY <1>12 DEF ReadValue
  <2>1. wire' \in Seq(WireSymbols)
    BY <1>t, ConsumeType DEF TypeOK
  <2>2. Received(n) \subseteq Text
    <3>1. \A i \in 1..n : wire[i] \in WireSymbols
      BY <1>t DEF TypeOK
    <3>2. \A x \in WireSymbols : x.o \in Text
      BY DEF WireSymbols
    <3> QED BY <3>1, <3>2 DEF Received
  <2> QED BY <1>12, <1>t, <1>u, <2>1, <2>2 DEF ReadValue, TypeOK
<1>13. CASE SkipValue
  <2>1. wire' \in Seq(WireSymbols)
    BY <1>13, <1>t, ConsumeType DEF SkipValue
  <2> QED BY <1>13, <1>t, <1>u, <2>1 DEF SkipValue, TypeOK
<1>14. CASE ValueDone
  BY <1>14, <1>t, <1>u DEF ValueDone, TypeOK, Goto
<1>15. CASE ConsumeNewline
  <2>1. wire' \in Seq(WireSymbols)
    BY <1>15, <1>t, ConsumeType DEF ConsumeNewline
  <2>2. AppendObject \in Lists
    <3>1. vallen \in Nat
      BY <1>t, ObjectSizes
    <3>2. ReadObject \in [id : Text, num : Nat, len : Nat, from : SUBSET Text]
      BY <1>c, <1>t, <3>1 DEF ReadObject, TypeOK, Curs
    <3>3. /\ frame \in Lists /\ cur.kind \in Kinds
      BY <1>t DEF TypeOK, Curs
    <3>4. Append(frame[cur.kind], ReadObject) \in Seq([id : Text, num : Nat, len : Nat, from : SUBSET Text])
      BY <3>2, <3>3, AppendProperties DEF Lists
    <3> QED BY <3>3, <3>4 DEF AppendObject, Lists
  <2>3. frame' \in Lists
    BY <1>15, <1>t, <1>u, <2>2 DEF ConsumeNewline, TypeOK
  <2> QED BY <1>15, <1>t, <1>u, <2>1, <2>3 DEF ConsumeNewline, TypeOK, Goto, Return, Crash
<1>16. CASE ReadEnd
  <2>1. wire' \in Seq(WireSymbols)
    BY <1>16, <1>t, ConsumeType DEF ReadEnd
  <2> QED BY <1>16, <1>t, <1>u, <2>1 DEF ReadEnd, TypeOK, Goto, Return
<1>f. ~UseHeap /\ pc = "ready" => live - Freed \in Nat
  <2>1. ~UseHeap /\ pc = "ready" => live = Freed + 0
    BY DEF ReaderInv, LiveCount, Pending
  <2> QED BY <2>1, <1>t, FreedIsNat
<1>17. CASE HandOn
  <2>1. delivered' \in Seq([cmd : Text, lists : Lists])
    BY <1>17, <1>t, AppendProperties DEF HandOn, TypeOK
  <2>2. live' \in Nat
    BY <1>17, <1>t, <1>f DEF HandOn, TypeOK
  <2> QED BY <1>17, <1>t, <1>u, <2>1, <2>2 DEF HandOn, TypeOK, Goto
<1>18. CASE NotConnected
  BY <1>18, <1>t, <1>u DEF NotConnected, TypeOK, Goto
<1>20. CASE Hello
  <2>1. live' \in Nat
    BY <1>20, <1>t, <1>f DEF Hello, TypeOK
  <2> QED BY <1>20, <1>t, <1>u, <2>1 DEF Hello, TypeOK, Goto, Return
<1>21. CASE StartDaemon
  <2>1. live' \in Nat
    BY <1>21, <1>t DEF StartDaemon, TypeOK
  <2> QED BY <1>21, <1>t, <1>u, <2>1 DEF StartDaemon, TypeOK, Goto, Return, Crash
<1>22. CASE Trampoline
  <2>1. live' \in Nat
    BY <1>22, <1>t DEF Trampoline, TypeOK, ReaderInv, LiveCount
  <2> QED BY <1>22, <1>t, <1>u, <2>1 DEF Trampoline, TypeOK, Goto
<1>19. CASE UNCHANGED readerVars
  BY <1>19, <1>t, <1>u DEF readerVars, TypeOK
<1> QED
  BY <1>1, <1>2, <1>3, <1>4, <1>5, <1>6, <1>7, <1>8, <1>9, <1>10, <1>11, <1>12,
     <1>13, <1>14, <1>15, <1>16, <1>17, <1>18, <1>19,
     <1>20, <1>21, <1>22 DEF Next, Stopped

-----------------------------------------------------------------------------
(* Allocation gives out disjoint blocks that hold the object; no other step *)
(* gives any out.                                                           *)
LEMMA HeapStep == ReaderInv /\ [Next]_readerVars => BelowUsed'
<1> SUFFICES ASSUME ReaderInv, [Next]_readerVars PROVE BelowUsed'
  OBVIOUS
<1>t. TypeOK /\ BelowUsed
  BY DEF ReaderInv
<1>1. CASE ReadHeader
  BY <1>1 DEF ReadHeader, BelowUsed
<1>2. CASE Allocate
  <2>1. CASE ~UseHeap
    BY <1>2, <1>t, <2>1 DEF Allocate, BelowUsed
  <2>2. CASE UseHeap
    <3> DEFINE b == [off |-> heapused, size |-> ObjectSize]
    <3>1. cur'.block = b /\ blocks' = Append(blocks, b) /\ heapused' = heapused + ObjectSize
      BY <1>2, <1>t, <2>2 DEF Allocate, TypeOK, Curs
    <3>2. ObjectSize \in Nat /\ heapused \in Nat /\ b \in Blocks /\ blocks \in Seq(Blocks)
      BY <1>t, ObjectSizes, HeapTypes DEF TypeOK, Blocks
    <3>3. /\ Len(blocks') = Len(blocks) + 1
          /\ \A i \in 1..Len(blocks) : blocks'[i] = blocks[i]
          /\ blocks'[Len(blocks) + 1] = b
      BY <3>1, <3>2, AppendProperties
    <3>4. \A i \in 1..Len(blocks) : /\ blocks[i].off \in Nat /\ blocks[i].size \in Nat
                                    /\ blocks[i].off + blocks[i].size <= heapused
      <4>1. \A i \in 1..Len(blocks) : blocks[i] \in Blocks
        BY <3>2
      <4> QED BY <4>1, <1>t DEF BelowUsed, Blocks
    <3>5. \A i \in 1..Len(blocks') : blocks'[i].off + blocks'[i].size <= heapused'
      BY <3>1, <3>2, <3>3, <3>4
    <3>6. ASSUME NEW i \in 1..Len(blocks'), NEW j \in 1..Len(blocks'), i < j
          PROVE  blocks'[i].off + blocks'[i].size <= blocks'[j].off
      <4>1. CASE j <= Len(blocks)
        BY <1>t, <3>2, <3>3, <3>6, <4>1 DEF BelowUsed
      <4>2. CASE j = Len(blocks) + 1
        BY <3>2, <3>3, <3>4, <3>6, <4>2
      <4> QED BY <3>2, <3>3, <4>1, <4>2
    <3> QED BY <3>5, <3>6 DEF BelowUsed
  <2> QED BY <2>1, <2>2
<1>3. CASE UNCHANGED <<blocks, heapused>>
  BY <1>3, <1>t DEF BelowUsed
<1> QED
  BY <1>1, <1>2, <1>3
     DEF Next, HeaderLost, ReadTag, BodyLost, TokenChar, TokenEnd, TokenFull,
         TokenLost, ParseNumber, NoSpace, ReadValue, SkipValue, ValueDone,
         ConsumeNewline, ReadEnd, Hello, StartDaemon, Trampoline, HandOn,
         NotConnected, Stopped, readerVars

(* The block of the object being read holds all that is stored in it. *)
LEMMA ValueStep ==
    ReaderInv /\ [Next]_readerVars => WritesInBlock' /\ BlockOfValue'
<1> SUFFICES ASSUME ReaderInv, [Next]_readerVars
             PROVE  WritesInBlock' /\ BlockOfValue'
  OBVIOUS
<1>t. TypeOK /\ WritesInBlock /\ BlockOfValue
  BY DEF ReaderInv
<1>1. CASE ReadTag
  BY <1>1, <1>t DEF ReadTag, NoCur, Goto, Return, WritesInBlock, BlockOfValue
<1>2. CASE TokenChar
  BY <1>2, <1>t DEF TokenChar, TypeOK, Curs, WritesInBlock, BlockOfValue
<1>3. CASE TokenEnd
  BY <1>3, <1>t DEF TokenEnd, TypeOK, Curs, Goto, WritesInBlock, BlockOfValue
<1>4. CASE Allocate
  <2>1. /\ ObjectSize = Overhead + vallen /\ Overhead \in Nat \ {0} /\ vallen \in Nat
    BY <1>4, <1>t, ObjectSizes DEF Allocate
  <2>2. /\ cur'.block.size = ObjectSize /\ cur'.kind = cur.kind
        /\ cur'.idlen = cur.idlen /\ cur'.length = cur.length
        /\ got' = 0 /\ pc' = "value"
    BY <1>4, <1>t DEF Allocate, TypeOK, Curs, Goto
  <2>3. vallen' = vallen
    BY <2>2 DEF vallen
  <2>4. StructSize[cur.kind] \in Nat /\ cur.idlen \in Nat
    BY <1>t, FrameAssumption DEF TypeOK, Curs
  <2> HIDE DEF vallen
  <2>5. WritesInBlock'
    BY <2>1, <2>2, <2>3, <2>4 DEF WritesInBlock, Overhead
  <2>6. BlockOfValue'
    BY <2>1, <2>2 DEF BlockOfValue
  <2> QED BY <2>5, <2>6
<1>5. CASE ReadValue
  <2>1. PICK n \in 1..Len(wire) : n <= vallen - got /\ got' = got + n
    BY <1>5 DEF ReadValue
  <2>2. vallen \in Nat /\ got \in Nat /\ Len(wire) \in Nat
    BY <1>t, ObjectSizes DEF TypeOK
  <2>3. UNCHANGED <<pc, cur, vallen>>
    BY <1>5 DEF ReadValue, vallen
  <2>4. got' <= vallen
    BY <2>1, <2>2
  <2> HIDE DEF vallen
  <2> QED BY <1>t, <2>3, <2>4 DEF WritesInBlock, BlockOfValue
<1>6. CASE UNCHANGED <<pc, cur, got>>
  BY <1>6, <1>t DEF WritesInBlock, BlockOfValue, vallen
<1>7. CASE pc' \in {"header", "tag", "end", "newline", "ready", "dargs",
                    "trampoline", "exited", "crash"}
  BY <1>7 DEF WritesInBlock, BlockOfValue
<1>9. CASE ParseNumber
  <2>1. cur'.block = cur.block /\ pc = "parse" /\ pc' \in {"alloc", "exited", "crash"}
    BY <1>9, <1>t DEF ParseNumber, TypeOK, Curs, Goto, Return, Crash
  <2> QED BY <1>t, <2>1 DEF WritesInBlock, BlockOfValue
<1>8. CASE NoSpace \/ SkipValue
  BY <1>8, <1>t DEF NoSpace, SkipValue, Goto, Return, Crash,
                    WritesInBlock, BlockOfValue
<1> QED
  BY <1>1, <1>2, <1>3, <1>4, <1>5, <1>6, <1>7, <1>8, <1>9
     DEF Next, ReadHeader, HeaderLost, BodyLost, TokenFull, TokenLost, ValueDone,
         ConsumeNewline, ReadEnd, Hello, StartDaemon, Trampoline, HandOn,
         NotConnected, Stopped, readerVars, Goto, Return, Crash

(* malloc and bw2_frameFreeResources balance: a block is either linked into *)
(* the frame, where it will be freed, or the one being read.                *)
LEMMA LiveStep == ReaderInv /\ [Next]_readerVars => LiveCount'
<1> SUFFICES ASSUME ReaderInv, [Next]_readerVars PROVE LiveCount'
  OBVIOUS
<1>t. TypeOK /\ LiveCount /\ BlockOfValue
  BY DEF ReaderInv
<1>f. Freed \in Nat /\ live \in Nat
  BY <1>t, FreedIsNat DEF TypeOK
<1>u. UNCHANGED UseHeap /\ UseHeap \in BOOLEAN
  BY <1>t, SettingFixed, HeapTypes
<1>p. Pending \in {0, 1}
  BY DEF Pending
<1>1. CASE ReadHeader
  <2>1. pc' \in {"tag", "exited"} /\ live = 0 /\ live' = 0
    BY <1>1, <1>t DEF ReadHeader, Goto, Return, LiveCount
  <2>2. Freed' = 0
    <3>1. frame' = EmptyFrame
      BY <1>1 DEF ReadHeader
    <3>2. Count("kv")' = 0 /\ Count("po")' = 0 /\ Count("ro")' = 0
      BY <3>1 DEF EmptyFrame, Kinds, Count
    <3> QED BY <3>2 DEF Freed
  <2>3. Pending' = 0
    BY <2>1 DEF Pending
  <2> QED BY <1>u, <2>1, <2>2, <2>3 DEF LiveCount
<1>2. CASE Allocate
  <2>1. pc = "alloc" /\ pc' = "value" /\ Freed' = Freed
    BY <1>2 DEF Allocate, Goto, Freed, Count
  <2>2. Pending = 0
    BY <2>1 DEF Pending
  <2>3. Pending' = 1
    <3>1. cur'.block.size # 0
      BY <1>2, <2>1, ValueStep DEF BlockOfValue, ReaderInv
    <3> QED BY <2>1, <3>1 DEF Pending, NoBlock
  <2>4. /\ UseHeap => live' = live
        /\ ~UseHeap => live' = live + 1
    BY <1>2 DEF Allocate
  <2> QED BY <1>t, <1>f, <1>u, <2>1, <2>2, <2>3, <2>4 DEF LiveCount
<1>3. CASE ConsumeNewline
  <2>1. pc = "newline" /\ UNCHANGED live
    BY <1>3 DEF ConsumeNewline
  <2>2. CASE pc' \in {"exited", "crash"} /\ UNCHANGED frame
    <3>1. Freed' = Freed
      BY <2>2 DEF Freed, Count
    <3> QED BY <1>t, <1>f, <1>u, <1>p, <2>1, <2>2, <3>1 DEF LiveCount
  <2>3. CASE pc' = "tag" /\ cur.block # NoBlock /\ frame' = AppendObject
    <3>1. Pending = 1 /\ Pending' = 0
      BY <2>1, <2>3 DEF Pending
    <3>2. Freed' = Freed + 1
      <4>1. ReadObject \in [id : Text, num : Nat, len : Nat, from : SUBSET Text]
        BY <1>t, ObjectSizes DEF ReadObject, TypeOK, Curs
      <4>2. frame \in Lists /\ cur.kind \in Kinds
        BY <1>t DEF TypeOK, Curs
      <4>3. \A k \in Kinds : /\ Count(k) \in Nat
                             /\ k # cur.kind => Count(k)' = Count(k)
                             /\ k = cur.kind => Count(k)' = Count(k) + 1
        BY <2>3, <4>1, <4>2, AppendProperties DEF AppendObject, Lists, Count
      <4>4. "kv" \in Kinds /\ "po" \in Kinds /\ "ro" \in Kinds
        BY DEF Kinds
      <4>5. CASE cur.kind = "kv"
        BY <4>3, <4>4, <4>5 DEF Freed
      <4>6. CASE cur.kind = "po"
        BY <4>3, <4>4, <4>6 DEF Freed
      <4>7. CASE cur.kind = "ro"
        BY <4>3, <4>4, <4>7 DEF Freed
      <4> QED BY <4>2, <4>5, <4>6, <4>7 DEF Kinds
    <3> QED BY <1>t, <1>f, <1>u, <2>1, <2>3, <3>1, <3>2 DEF LiveCount
  <2> QED BY <1>3, <2>2, <2>3 DEF ConsumeNewline, Goto, Return, Crash
<1>4. CASE HandOn
  <2>1. pc = "ready" /\ pc' = "header"
    BY <1>4 DEF HandOn, Goto
  <2>2. ~UseHeap => live = Freed + 0
    BY <1>t, <2>1 DEF LiveCount, Pending
  <2>3. /\ UseHeap => live' = live
        /\ ~UseHeap => live' = live - Freed
    BY <1>4 DEF HandOn
  <2>4. live' = 0
    BY <1>t, <1>f, <1>u, <2>2, <2>3 DEF LiveCount
  <2> QED BY <1>u, <2>1, <2>4 DEF LiveCount
<1>9. CASE Hello
  <2>1. pc = "ready" /\ pc' \in {"dargs", "exited"} /\ UNCHANGED frame
    BY <1>9 DEF Hello, Goto, Return
  <2>2. Freed' = Freed
    BY <2>1 DEF Freed, Count
  <2>3. ~UseHeap => live = Freed + 0
    BY <1>t, <2>1 DEF LiveCount, Pending
  <2>4. CASE pc' = "exited" /\ UNCHANGED live
    BY <1>t, <1>f, <1>u, <2>2, <2>3, <2>4 DEF LiveCount
  <2>5. CASE pc' = "dargs" /\ live' = IF UseHeap THEN live ELSE live - Freed
    <3>1. live' = 0
      BY <1>t, <1>f, <1>u, <2>3, <2>5 DEF LiveCount
    <3> QED BY <1>u, <2>5, <3>1 DEF LiveCount
  <2> QED BY <1>9, <2>4, <2>5 DEF Hello, Goto, Return
<1>10. CASE StartDaemon
  <2>1. pc = "dargs" /\ pc' \in {"trampoline", "exited", "crash"} /\ UNCHANGED frame
    BY <1>10 DEF StartDaemon, Goto, Return, Crash
  <2>2. Freed' = Freed
    BY <2>1 DEF Freed, Count
  <2>3. live = 0 /\ (UseHeap => live' = 0) /\ live' \in {0, 1}
    BY <1>t, <1>10, <2>1 DEF StartDaemon, LiveCount
  <2>4. ~UseHeap /\ pc' = "trampoline" => live' = 1
    BY <1>10, <2>3 DEF StartDaemon, Goto, Return, Crash
  <2>5. live' <= Freed' + 1
    BY <1>f, <2>2, <2>3
  <2> QED BY <2>5, <1>u, <2>1, <2>2, <2>3, <2>4 DEF LiveCount
<1>11. CASE Trampoline
  <2>1. pc = "trampoline" /\ pc' = "header"
    BY <1>11 DEF Trampoline, Goto
  <2>2. live' = 0
    BY <1>t, <1>u, <1>11, <2>1 DEF Trampoline, LiveCount
  <2> QED BY <1>u, <2>1, <2>2 DEF LiveCount
<1>5. CASE /\ UNCHANGED <<live, frame>> /\ pc' \in {"exited", "crash"}
           /\ pc \notin {"dargs", "trampoline", "exited", "crash"}
  <2>1. Freed' = Freed
    BY <1>5 DEF Freed, Count
  <2> QED BY <1>5, <1>t, <1>f, <1>u, <1>p, <2>1 DEF LiveCount
<1>6. CASE /\ UNCHANGED <<live, frame>>
           /\ \/ pc' = pc
              \/ pc' # "exited" /\ {pc, pc'} \cap {"header", "dargs", "trampoline", "exited", "crash"} = {}
           /\ Pending' = Pending
  <2>1. Freed' = Freed
    BY <1>6 DEF Freed, Count
  <2> QED BY <1>6, <1>t, <1>u, <2>1 DEF LiveCount
<1>7. ASSUME ReadTag \/ TokenChar \/ TokenEnd \/ ParseNumber \/ NoSpace \/ ValueDone
      PROVE  Pending' = Pending
  BY <1>7, <1>t
     DEF ReadTag, TokenChar, TokenEnd, ParseNumber, NoSpace, ValueDone, Goto,
         Return, Crash, Pending, BlockOfValue, TypeOK, Curs, NoCur
<1>8. ASSUME ReadValue \/ SkipValue \/ ReadEnd \/ UNCHANGED readerVars
      PROVE  Pending' = Pending
  BY <1>8 DEF ReadValue, SkipValue, ReadEnd, readerVars, Goto, Return, Pending
<1> QED
  BY <1>1, <1>2, <1>3, <1>4, <1>5, <1>6, <1>7, <1>8, <1>9, <1>10, <1>11
     DEF Next, HeaderLost, ReadTag, BodyLost, TokenChar, TokenEnd, TokenFull,
         TokenLost, ParseNumber, NoSpace, ReadValue, SkipValue, ValueDone,
         ReadEnd, NotConnected, Stopped, readerVars, Goto, Return, Crash

(* A header is stored only in a heap that can hold it. *)
LEMMA HeldStep == ReaderInv /\ [Next]_readerVars => HeaderHeld'
<1> SUFFICES ASSUME ReaderInv, [Next]_readerVars PROVE HeaderHeld'
  OBVIOUS
<1>t. TypeOK /\ HeaderHeld /\ BlockOfValue
  BY DEF ReaderInv
<1>u. UNCHANGED <<UseHeap, HeapSize>> /\ HeapSize \in Nat
  BY <1>t, SettingFixed, HeapTypes
<1>1. CASE ReadHeader
  <2>1. Count("kv")' = 0
    BY <1>1 DEF ReadHeader, EmptyFrame, Kinds, Count
  <2>2. pc' \in {"tag", "exited"}
    BY <1>1 DEF ReadHeader, Goto, Return
  <2> QED BY <2>1, <2>2 DEF HeaderHeld
<1>2. CASE Allocate
  <2>1. pc' = "value" /\ UNCHANGED Count("kv") /\ cur'.kind = cur.kind
    BY <1>2, <1>t DEF Allocate, Goto, Count, TypeOK, Curs
  <2>2. UseHeap => StructSize[cur.kind] <= HeapSize
    <3>1. /\ ObjectSize = Overhead + vallen /\ vallen \in Nat
          /\ heapused \in Nat /\ cur.kind \in Kinds /\ cur.idlen \in Nat
      BY <1>2, <1>t, ObjectSizes DEF Allocate, TypeOK, Curs
    <3>2. StructSize[cur.kind] \in Nat /\ StructSize[cur.kind] <= Overhead /\ Overhead \in Nat
      <4>1. StructSize[cur.kind] \in Nat
        BY <3>1, FrameAssumption
      <4> QED BY <3>1, <4>1 DEF Overhead
    <3>3. UseHeap => HeapSize - heapused >= ObjectSize
      BY <1>2 DEF Allocate, Fits
    <3> HIDE DEF vallen, Overhead
    <3> QED BY <1>u, <3>1, <3>2, <3>3
  <2> QED BY <1>t, <1>u, <2>1, <2>2 DEF HeaderHeld
<1>3. CASE ConsumeNewline
  <2>1. pc = "newline" /\ pc' \in {"tag", "exited", "crash"}
    BY <1>3 DEF ConsumeNewline, Goto, Return, Crash
  <2>2. CASE UNCHANGED frame
    BY <1>t, <1>u, <2>1, <2>2 DEF HeaderHeld, Count
  <2>3. CASE cur.block # NoBlock /\ frame' = AppendObject
    <3>1. CASE cur.kind = "kv"
      BY <1>t, <1>u, <2>1, <2>3, <3>1 DEF HeaderHeld
    <3>2. CASE cur.kind # "kv"
      <4>1. frame'["kv"] = frame["kv"]
        BY <1>t, <2>3, <3>2 DEF AppendObject, TypeOK, Lists, Kinds
      <4> QED BY <1>t, <1>u, <2>1, <4>1 DEF HeaderHeld, Count
    <3> QED BY <3>1, <3>2
  <2> QED BY <1>3, <2>2, <2>3 DEF ConsumeNewline
<1>4. CASE Hello
  <2>1. UNCHANGED frame /\ pc' \in {"dargs", "exited"}
    BY <1>4 DEF Hello, Goto, Return
  <2>2. pc' = "dargs" => Count("kv") > 0
    <3>1. Count("kv") \in Nat
      BY <1>t DEF TypeOK, Lists, Count, Kinds
    <3>2. pc' = "dargs" => HasHeader("version")
      BY <1>4 DEF Hello, Goto, Return
    <3> QED BY <3>1, <3>2 DEF HasHeader
  <2> QED BY <1>t, <1>u, <2>1, <2>2 DEF HeaderHeld, Count
<1>5. CASE /\ UNCHANGED frame
           /\ pc' # "dargs" /\ pc' \notin {"value", "newline"}
  BY <1>5, <1>t, <1>u DEF HeaderHeld, Count
<1>6. CASE UNCHANGED <<frame, pc, cur>>
  BY <1>6, <1>t, <1>u DEF HeaderHeld, Count
<1>7. CASE ValueDone
  <2>1. UNCHANGED <<frame, cur>> /\ pc \in {"value", "skip"} /\ pc' = "newline"
    BY <1>7 DEF ValueDone, Goto
  <2> QED BY <1>t, <1>u, <2>1 DEF HeaderHeld, BlockOfValue, Count
<1>8. ASSUME ReadTag \/ TokenChar \/ TokenEnd \/ ParseNumber \/ NoSpace
      PROVE  UNCHANGED frame /\ pc' \notin {"dargs", "value", "newline"}
  BY <1>8 DEF ReadTag, TokenChar, TokenEnd, ParseNumber, NoSpace, Goto, Return, Crash
<1> QED
  BY <1>1, <1>2, <1>3, <1>4, <1>5, <1>6, <1>7, <1>8
     DEF Next, HeaderLost, BodyLost, TokenFull, TokenLost, ReadValue, SkipValue,
         ReadEnd, StartDaemon, Trampoline, HandOn, NotConnected, Stopped,
         readerVars, Goto, Return, Crash

-----------------------------------------------------------------------------
(* The inductive invariant holds in every reachable state. *)
LEMMA ReaderInvariant == Spec => []ReaderInv
<1>1. ReaderInv /\ [Next]_readerVars => ReaderInv'
  BY ReaderTypeStep, HeapStep, ValueStep, LiveStep, HeldStep DEF ReaderInv
<1> QED BY <1>1, ReaderInit, PTL DEF Spec

(* The reader is type-correct; in particular heapused stays within the      *)
(* frame heap.                                                              *)
THEOREM ReaderTypeCorrect == Spec => []TypeOK
<1>1. ReaderInv => TypeOK
  BY DEF ReaderInv
<1> QED BY <1>1, ReaderInvariant, PTL

(* Whatever arrives, _bw2_frame_heap_alloc gives each object of a frame a   *)
(* part of the frame heap of its own.                                       *)
THEOREM HeapBlocksApart == Spec => []BlocksApart
<1>1. ReaderInv => BlocksApart
  <2> SUFFICES ASSUME ReaderInv PROVE BlocksApart
    OBVIOUS
  <2>1. heapused \in Nat /\ HeapSize \in Nat /\ heapused <= HeapSize
    BY HeapTypes DEF ReaderInv, TypeOK
  <2>2. \A i \in 1..Len(blocks) : blocks[i].off \in Nat /\ blocks[i].size \in Nat
    <3>1. \A i \in 1..Len(blocks) : blocks[i] \in Blocks
      BY DEF ReaderInv, TypeOK
    <3> QED BY <3>1 DEF Blocks
  <2> QED BY <2>1, <2>2 DEF ReaderInv, BelowUsed, BlocksApart
<1> QED BY <1>1, ReaderInvariant, PTL

(* Whatever length the agent states, the value is read into a block that    *)
(* was allocated for it.                                                    *)
THEOREM ValueFitsItsBlock == Spec => []WritesInBlock
<1>1. ReaderInv => WritesInBlock
  BY DEF ReaderInv
<1> QED BY <1>1, ReaderInvariant, PTL

(* With malloc, a frame that was handed on leaves nothing behind. *)
THEOREM FramesAreFreed == Spec => []FreedBetweenFrames
<1>1. ReaderInv => FreedBetweenFrames
  BY DEF ReaderInv, LiveCount, FreedBetweenFrames
<1> QED BY <1>1, ReaderInvariant, PTL

(* When a connection ends, at most one frame, or the arguments of the       *)
(* thread, remain allocated.                                                *)
THEOREM LeakIsBounded == Spec => []LeaksOneFrame
<1>1. ReaderInv => LeaksOneFrame
  BY DEF ReaderInv, LiveCount, LeaksOneFrame, Freed
<1> QED BY <1>1, ReaderInvariant, PTL

(* bw2_connect never writes the arguments of the thread past the end of the *)
(* frame heap.                                                              *)
THEOREM ThreadArgumentsFit == Spec => []DargsInHeap
<1>1. ReaderInv => DargsInHeap
  <2> SUFFICES ASSUME ReaderInv, pc = "dargs", UseHeap PROVE DargsSize <= HeapSize
    BY DEF DargsInHeap
  <2>1. StructSize["kv"] <= HeapSize /\ HeapSize \in Nat
    BY HeapTypes DEF ReaderInv, HeaderHeld
  <2>2. DargsSize \in 1..StructSize["kv"] /\ StructSize["kv"] \in Nat
    BY FrameAssumption DEF Kinds
  <2> QED BY <2>1, <2>2
<1> QED BY <1>1, ReaderInvariant, PTL

-----------------------------------------------------------------------------
(* What an agent sends: the encoding of frames, cut off anywhere. *)

(* The number of an object is what its text says, in the octets it has. *)
NumberRight(o) ==
    LET f == o.fields IN
    /\ o.kind = "kv" => o.num = 0
    /\ o.kind = "ro" => o.num = f[1] % Octet
    /\ o.kind = "po" /\ o.colon = "first" => o.num = f[1] % (Octet * Octet * Octet * Octet)
    /\ o.kind = "po" /\ o.colon = "later" /\ DotForm(f) =>
          o.num = Octet * Octet * Octet * f[1] + Octet * Octet * f[2] + Octet * f[3] + f[4]

(* The text of a key or number is not empty, a length is a size_t. *)
Readable(o) ==
    /\ o.kind \in Kinds /\ o.idlen \in Nat \ {0} /\ o.len \in 0..(SizeMax - 1)
    /\ NumberRight(o)

AgentFrames(fs) ==
    /\ fs \in Seq([cmd : Objects, objs : Seq(Objects)])
    /\ \A k \in 1..Len(fs) : \A i \in 1..Len(fs[k].objs) : Readable(fs[k].objs[i])

FromAgent(s) == AgentFrames(s.sent) /\ IsPrefix(s.wire, EncodeFrames(s.sent))

(* The numbers are in a form that bw2_readFrame accepts, and the first      *)
(* frame is a hello with a version.                                         *)
Parses(o) ==
    o.kind = "po" => \/ o.colon = "first" /\ o.fields[1] < UllMax
                     \/ o.colon = "later" /\ DotForm(o.fields)
IsHello(f) ==
    /\ f.cmd.key = "helo"
    /\ \E i \in 1..Len(f.objs) : f.objs[i].kind = "kv" /\ f.objs[i].key = "version"
Conforming(fs) ==
    /\ \A k \in 1..Len(fs) : \A i \in 1..Len(fs[k].objs) : Parses(fs[k].objs[i])
    /\ Len(fs) # 0 => IsHello(fs[1])

-----------------------------------------------------------------------------
(* Where bw2_readFrame is in the stream *)

ReadSoFar == Len(stream.wire) - Len(wire)

(* What is still to come is E from there on, up to where it is cut off. *)
Follows(E) ==
    /\ Len(stream.wire) \in Nat /\ ReadSoFar \in Nat /\ ReadSoFar + Len(wire) <= Len(E)
    /\ \A i \in 1..Len(wire) : wire[i] = E[ReadSoFar + i]

(* The lists of a frame after n of its objects *)
FirstStored(objs, n) == [kind \in Kinds |-> FlattenSeq(Take(OfKind(kind, objs), n))]

(* In a frame, n objects have been stored; in an object, its tag was read. *)
InFrame(fs, k, n) ==
    /\ k < Len(fs) /\ n \in 0..Len(fs[k + 1].objs)
    /\ cmd = fs[k + 1].cmd /\ frame = FirstStored(fs[k + 1].objs, n)
InObject(fs, k, n) ==
    /\ InFrame(fs, k, n) /\ n < Len(fs[k + 1].objs)
    /\ cur.kind = fs[k + 1].objs[n + 1].kind

(* The value begins behind tag, key or number, length and delimiters. *)
ValueAt(fs, k, n) ==
    Place(fs, k, n) + fs[k + 1].objs[n + 1].idlen + Digits(fs[k + 1].objs[n + 1].len) + 3

InTokens(fs, k, n) ==
    LET o == fs[k + 1].objs[n + 1] IN
    /\ pc \in {"id", "length", "parse"} => cur.num = 0
    /\ pc = "id" =>
          /\ InObject(fs, k, n)
          /\ ReadSoFar = Place(fs, k, n) + 1 + got /\ got <= o.idlen
          /\ got # 0 => cur.id = o
    /\ pc = "length" =>
          /\ InObject(fs, k, n) /\ cur.id = o /\ cur.idlen = o.idlen
          /\ ReadSoFar = Place(fs, k, n) + o.idlen + 2 + got /\ got <= Digits(o.len)
          /\ got # 0 => cur.length = o
InValue(fs, k, n) ==
    LET o == fs[k + 1].objs[n + 1] IN
    /\ pc \in {"parse", "alloc", "value", "skip", "newline"} =>
          /\ InObject(fs, k, n)
          /\ cur.id = o /\ cur.idlen = o.idlen /\ cur.length = o
    /\ pc \in {"parse", "alloc"} => ReadSoFar = ValueAt(fs, k, n)
    /\ pc \in {"alloc", "value", "skip", "newline"} => cur.num = o.num
    /\ pc \in {"value", "skip"} => ReadSoFar = ValueAt(fs, k, n) + got /\ got <= o.len
    /\ pc = "value" => from = IF got = 0 THEN {} ELSE {o}
    /\ pc = "newline" =>
          /\ ReadSoFar = ValueAt(fs, k, n) + o.len
          /\ cur.block # NoBlock => from = IF o.len = 0 THEN {} ELSE {o}
Between(fs, k, n) ==
    /\ pc = "header" => ReadSoFar = FrameAt(fs, k)
    /\ pc = "tag" => InFrame(fs, k, n) /\ ReadSoFar = Place(fs, k, n)
    /\ pc \in {"end", "ready"} =>
          /\ InFrame(fs, k, n) /\ n = Len(fs[k + 1].objs)
          /\ ReadSoFar = Place(fs, k, n) + (IF pc = "end" THEN 1 ELSE 2)
    /\ pc \in {"dargs", "trampoline"} => k = 0 /\ 0 < Len(fs) /\ ReadSoFar = FrameAt(fs, 1)

(* All frames but the hello and the one being read have been handed on. *)
HandedOn(fs, k) ==
    /\ pc \notin {"exited", "crash"} => (phase = "hello" <=> k = 0)
    /\ Len(delivered) = IF k = 0 THEN 0 ELSE k - 1
    /\ \A i \in 1..Len(delivered) : delivered[i] = Stored(fs[i + 1])

At(fs, k, n) ==
    HandedOn(fs, k) /\ Between(fs, k, n) /\ InTokens(fs, k, n) /\ InValue(fs, k, n)

(* bw2_readFrame has read k frames, and n objects of the next one. *)
Reading(fs, k, n) ==
    /\ AgentFrames(fs) /\ Follows(EncodeFrames(fs))
    /\ k \in 0..Len(fs) /\ n \in Nat /\ At(fs, k, n)

ReadingOn(fs) == \E k \in 0..Len(fs), n \in Nat : Reading(fs, k, n)

(* bw2_readFrame has not returned yet, or it has returned at the end. *)
Outcome ==
    /\ pc # "exited" => rv = "0"
    /\ rv \notin {"0", "THREAD"} => wire = <<>>

-----------------------------------------------------------------------------
(* The stream of an agent, symbol by symbol *)

(* The objects an agent sends can be encoded. *)
LEMMA AgentObjects ==
    ASSUME NEW fs, AgentFrames(fs)
    PROVE  /\ fs \in Seq([cmd : Text \cup {Nothing}, objs : Seq(Text \cup {Nothing})])
           /\ Len(fs) \in Nat
           /\ \A k \in 1..Len(fs) : /\ fs[k].objs \in Seq(Objects) /\ fs[k].cmd \in Objects
                                    /\ Len(fs[k].objs) \in Nat
           /\ \A k \in 1..Len(fs) : \A i \in 1..Len(fs[k].objs) :
                 /\ fs[k].objs[i] \in Objects /\ fs[k].objs[i] \in Text \cup {Nothing}
                 /\ Readable(fs[k].objs[i]) /\ Encodable(fs[k].objs[i])
<1> DEFINE OO == Text \cup {Nothing}
           S == [cmd : Objects, objs : Seq(Objects)]
           T == [cmd : OO, objs : Seq(OO)]
<1>0. \A U : \A s \in Seq(U) : Len(s) \in Nat /\ \A i \in 1..Len(s) : s[i] \in U
  OBVIOUS
<1>1. fs \in Seq(S) /\ \A k \in 1..Len(fs) : \A i \in 1..Len(fs[k].objs) : Readable(fs[k].objs[i])
  BY Zenon DEF AgentFrames
<1>2. Objects \subseteq OO
  BY DEF Text
<1>3. Seq(Objects) \subseteq Seq(OO)
  <2> HIDE DEF OO
  <2> QED BY <1>2
<1>4. S \subseteq T
  <2> HIDE DEF OO
  <2> QED BY <1>2, <1>3
<1>5. \A k \in 1..Len(fs) : fs[k] \in S
  BY <1>0, <1>1, Zenon
<1>6. \A k \in 1..Len(fs) : fs[k].objs \in Seq(Objects) /\ fs[k].cmd \in Objects
  BY <1>5
<1>7. fs \in Seq(T)
  <2> HIDE DEF S, T
  <2> QED BY <1>1, <1>4
<1>8. \A k \in 1..Len(fs) : \A i \in 1..Len(fs[k].objs) :
          fs[k].objs[i] \in Objects /\ fs[k].objs[i] \in OO
  BY <1>0, <1>2, <1>6, Zenon
<1>9. \A o : Readable(o) => Encodable(o)
  BY DEF Readable, Encodable, Kinds
<1> QED BY <1>0, <1>1, <1>6, <1>7, <1>8, <1>9, Zenon

(* A sequence of one symbol *)
LEMMA SitsOne ==
    ASSUME NEW E, NEW p \in Nat, NEW x, Sits(<<x>>, E, p)
    PROVE  E[p + 1] = x
<1>1. Len(<<x>>) = 1 /\ <<x>>[1] = x /\ 1 \in 1..1
  OBVIOUS
<1> QED BY <1>1 DEF Sits

(* ... of two *)
LEMMA SitsTwo ==
    ASSUME NEW E, NEW p \in Nat, NEW x, NEW y, Sits(<<x, y>>, E, p)
    PROVE  E[p + 1] = x /\ E[p + 2] = y
<1>1. Len(<<x, y>>) = 2 /\ <<x, y>>[1] = x /\ <<x, y>>[2] = y /\ 1 \in 1..2 /\ 2 \in 1..2
  OBVIOUS
<1> QED BY <1>1 DEF Sits

(* m equal symbols behind position p *)
Equal(E, p, m, t, o) == \A i \in 1..m : E[p + i] = [t |-> t, o |-> o]

(* ... of equal ones *)
LEMMA SitsRun ==
    ASSUME NEW E, NEW p \in Nat, NEW m \in Nat, NEW t, NEW o, Sits(Run(m, t, o), E, p)
    PROVE  Equal(E, p, m, t, o)
<1> SUFFICES ASSUME NEW i \in 1..m PROVE E[p + i] = [t |-> t, o |-> o]
  BY DEF Equal
<1>1. Len(Run(m, t, o)) = m /\ Run(m, t, o)[i] = [t |-> t, o |-> o]
  BY DEF Run
<1> QED BY <1>1 DEF Sits

(* The lengths of the stream, and where its frames begin and end *)
LEMMA FramesKnown ==
    ASSUME NEW fs, AgentFrames(fs)
    PROVE  /\ EncodeFrames(fs) \in Seq(Symbols(Text \cup {Nothing})) /\ Len(EncodeFrames(fs)) \in Nat
           /\ FrameAt(fs, 0) = 0 /\ FrameAt(fs, Len(fs)) = Len(EncodeFrames(fs))
           /\ \A k \in 0..Len(fs) : FrameAt(fs, k) \in Nat
<1>1. /\ EncodeFrames(fs) \in Seq(Symbols(Text \cup {Nothing}))
      /\ FrameAt(fs, 0) = 0 /\ FrameAt(fs, Len(fs)) = Len(EncodeFrames(fs))
      /\ \A k \in 0..Len(fs) : FrameAt(fs, k) \in Nat
  BY AgentObjects, StreamLayout
<1>2. Len(EncodeFrames(fs)) \in Nat
  BY <1>1
<1> QED BY <1>1, <1>2

(* A frame begins with its header, and ends with "end" and a newline. *)
LEMMA FrameKnown ==
    ASSUME NEW fs, AgentFrames(fs), NEW k \in 0..Len(fs), k < Len(fs)
    PROVE  LET E == EncodeFrames(fs)
               l == Len(fs[k + 1].objs)
           IN /\ l \in Nat /\ Place(fs, k, l) \in Nat
              /\ E[FrameAt(fs, k) + 1] = [t |-> "hdr", o |-> fs[k + 1].cmd]
              /\ Place(fs, k, 0) = FrameAt(fs, k) + 1
              /\ E[Place(fs, k, l) + 1].t = "end" /\ E[Place(fs, k, l) + 2].t = "nl"
              /\ FrameAt(fs, k + 1) = Place(fs, k, l) + 2
<1> DEFINE E == EncodeFrames(fs)
           l == Len(fs[k + 1].objs)
<1>1. /\ l \in Nat /\ Sits(<<[t |-> "hdr", o |-> fs[k + 1].cmd]>>, E, FrameAt(fs, k))
      /\ Place(fs, k, 0) = FrameAt(fs, k) + 1
      /\ \A n \in 0..l : Place(fs, k, n) \in Nat
      /\ Sits(EndSyms, E, Place(fs, k, l))
      /\ FrameAt(fs, k + 1) = Place(fs, k, l) + 2
  <2> DEFINE OO == Text \cup {Nothing}
             m == Len(fs)
  <2>1. Nothing \in OO
    OBVIOUS
  <2>2. /\ fs \in Seq([cmd : OO, objs : Seq(OO)])
        /\ \A j \in 1..Len(fs) : \A i \in 1..Len(fs[j].objs) : Encodable(fs[j].objs[i])
    BY AgentObjects
  <2> HIDE DEF OO
  <2>3. \A j \in 0..m : j < m =>
           /\ Len(fs[j + 1].objs) \in Nat
           /\ Sits(<<[t |-> "hdr", o |-> fs[j + 1].cmd]>>, E, FrameAt(fs, j))
           /\ Place(fs, j, 0) = FrameAt(fs, j) + 1
           /\ \A n \in 0..Len(fs[j + 1].objs) : Place(fs, j, n) \in Nat
           /\ Sits(EndSyms, E, Place(fs, j, Len(fs[j + 1].objs)))
           /\ FrameAt(fs, j + 1) = Place(fs, j, Len(fs[j + 1].objs)) + 2
    <3> HIDE DEF E
    <3> QED BY <2>1, <2>2, StreamLayout, Zenon DEF E
  <2> QED BY <2>3, Zenon
<1>f. FrameAt(fs, k) \in Nat
  BY FramesKnown
<1> HIDE DEF E, l
<1>2. Place(fs, k, l) \in Nat
  BY <1>1
<1>3. E[FrameAt(fs, k) + 1] = [t |-> "hdr", o |-> fs[k + 1].cmd]
  BY <1>1, <1>f, SitsOne
<1>4. Sits(<<Sym("end"), Sym("nl")>>, E, Place(fs, k, l))
  BY <1>1, Zenon DEF EndSyms
<1>5. E[Place(fs, k, l) + 1] = Sym("end") /\ E[Place(fs, k, l) + 2] = Sym("nl")
  BY <1>2, <1>4, SitsTwo
<1>6. Sym("end").t = "end" /\ Sym("nl").t = "nl"
  BY DEF Sym
<1> QED BY <1>1, <1>2, <1>3, <1>5, <1>6, Zenon DEF E, l

(* At p begins an object: its tag, the key or number, the length, the value. *)
Spells(E, p, o) ==
    LET D == Digits(o.len)
        v == p + o.idlen + D + 3
    IN /\ E[p + 1].t = o.kind
       /\ \A i \in 1..o.idlen : E[p + 1 + i] = [t |-> "ch", o |-> o]
       /\ E[p + o.idlen + 2].t = "sp"
       /\ \A i \in 1..D : E[p + o.idlen + 2 + i] = [t |-> "ch", o |-> o]
       /\ E[p + o.idlen + D + 3].t = "nl"
       /\ \A i \in 1..o.len : E[v + i] = [t |-> "by", o |-> o]
       /\ E[v + o.len + 1].t = "nl"

(* Where the objects of a stream begin and end, and what stands there *)
LEMMA ObjectKnown ==
    ASSUME NEW fs, AgentFrames(fs), NEW k \in 0..Len(fs), k < Len(fs),
           NEW n \in 0..Len(fs[k + 1].objs), n < Len(fs[k + 1].objs)
    PROVE  LET E == EncodeFrames(fs)
               o == fs[k + 1].objs[n + 1]
               D == Digits(o.len)
               p == Place(fs, k, n)
               v == ValueAt(fs, k, n)
           IN /\ o \in Objects /\ Readable(o) /\ p \in Nat /\ D \in Nat \ {0}
              /\ o.idlen \in Nat \ {0} /\ o.len \in Nat /\ v = p + o.idlen + D + 3
              /\ Spells(E, p, o)
              /\ Place(fs, k, n + 1) = v + o.len + 1
<1> DEFINE OO == Text \cup {Nothing}
           A == Symbols(OO)
           E == EncodeFrames(fs)
           l == Len(fs[k + 1].objs)
<1>1. /\ l \in Nat
      /\ \A i \in 0..l : Place(fs, k, i) \in Nat
      /\ \A i \in 0..l : i < l =>
            /\ Place(fs, k, i + 1) = Place(fs, k, i) + Len(EncodeObject(fs[k + 1].objs[i + 1]))
            /\ Sits(EncodeObject(fs[k + 1].objs[i + 1]), E, Place(fs, k, i))
      /\ E \in Seq(A)
  BY AgentObjects, StreamLayout
<1>0. k + 1 \in 1..Len(fs) /\ n + 1 \in 1..l
  BY <1>1, AgentObjects
<1>2. PICK o \in OO : o = fs[k + 1].objs[n + 1] /\ o \in Objects /\ Readable(o) /\ Encodable(o)
  BY <1>0, AgentObjects
<1> DEFINE D == Digits(o.len)
           X == EncodeObject(o)
<1>3. /\ Nothing \in OO
  OBVIOUS
<1> HIDE DEF OO, E, l
<1>4. /\ X \in Seq(A) /\ D \in Nat \ {0}
      /\ Len(X) = o.idlen + D + o.len + 4
      /\ Sits(<<Sym(o.kind)>>, X, 0)
      /\ Sits(Run(o.idlen, "ch", o), X, 1)
      /\ Sits(<<Sym("sp")>>, X, o.idlen + 1)
      /\ Sits(Run(D, "ch", o), X, o.idlen + 2)
      /\ Sits(<<Sym("nl")>>, X, o.idlen + D + 2)
      /\ Sits(Run(o.len, "by", o), X, o.idlen + D + 3)
      /\ Sits(<<Sym("nl")>>, X, o.idlen + D + o.len + 3)
  BY <1>2, <1>3, ObjectLayout
<1> HIDE DEF A, D, X
<1>5. PICK a \in Nat, d \in Nat \ {0}, w \in Nat : a = o.idlen /\ a # 0 /\ d = D /\ w = o.len
  <2>1. o.idlen \in Nat \ {0} /\ o.len \in Nat
    BY <1>2, FrameAssumption DEF Readable
  <2> QED BY <1>4, <2>1, Zenon
<1>s. /\ Sits(<<Sym(o.kind)>>, X, 0)
      /\ Sits(Run(a, "ch", o), X, 1)
      /\ Sits(<<Sym("sp")>>, X, a + 1)
      /\ Sits(Run(d, "ch", o), X, a + 2)
      /\ Sits(<<Sym("nl")>>, X, a + d + 2)
      /\ Sits(Run(w, "by", o), X, a + d + 3)
      /\ Sits(<<Sym("nl")>>, X, a + d + w + 3)
  BY <1>4, <1>5, Zenon
<1>6. PICK p \in Nat : p = Place(fs, k, n)
  BY <1>1 DEF l
<1>7. Sits(X, E, p) /\ Place(fs, k, n + 1) = p + Len(X)
  BY <1>1, <1>2, <1>6 DEF l, X
<1>8. \A i \in 1..Len(X) : E[p + i] = X[i]
  BY <1>7 DEF Sits
<1>9. /\ Len(X) = a + d + w + 4
      /\ X[1] = Sym(o.kind) /\ X[a + 2] = Sym("sp") /\ X[a + d + 3] = Sym("nl")
      /\ X[a + d + w + 4] = Sym("nl")
  <2>1. Len(X) = a + d + w + 4
    BY <1>4, <1>5
  <2>2. X[0 + 1] = Sym(o.kind) /\ X[(a + 1) + 1] = Sym("sp")
    <3>1. 0 \in Nat /\ a + 1 \in Nat
      OBVIOUS
    <3> QED BY <1>s, <3>1, SitsOne, Zenon
  <2>3. a + d + 2 \in Nat /\ a + d + w + 3 \in Nat
    OBVIOUS
  <2>4. X[(a + d + 2) + 1] = Sym("nl") /\ X[(a + d + w + 3) + 1] = Sym("nl")
    BY <1>s, <2>3, SitsOne, Zenon
  <2>5. /\ 0 + 1 = 1 /\ (a + 1) + 1 = a + 2 /\ (a + d + 2) + 1 = a + d + 3
        /\ (a + d + w + 3) + 1 = a + d + w + 4
    OBVIOUS
  <2> QED BY <2>1, <2>2, <2>4, <2>5, Zenon
<1>10. /\ \A i \in 1..a : X[1 + i] = [t |-> "ch", o |-> o]
       /\ \A i \in 1..d : X[a + 2 + i] = [t |-> "ch", o |-> o]
       /\ \A i \in 1..w : X[a + d + 3 + i] = [t |-> "by", o |-> o]
  <2>1. 1 \in Nat /\ a + 2 \in Nat /\ a + d + 3 \in Nat /\ d \in Nat
    OBVIOUS
  <2>2. Equal(X, 1, a, "ch", o)
    BY <1>s, <2>1, SitsRun, Zenon
  <2>3. Equal(X, a + 2, d, "ch", o)
    BY <1>s, <2>1, SitsRun, Zenon
  <2>4. Equal(X, a + d + 3, w, "by", o)
    BY <1>s, <2>1, SitsRun, Zenon
  <2> QED BY <2>2, <2>3, <2>4, Zenon DEF Equal
<1>11. /\ Sym(o.kind).t = o.kind /\ Sym("sp").t = "sp" /\ Sym("nl").t = "nl"
  BY DEF Sym
<1>12. /\ 1 \in 1..Len(X) /\ a + 2 \in 1..Len(X) /\ a + d + 3 \in 1..Len(X)
       /\ a + d + w + 4 \in 1..Len(X)
       /\ \A i \in 1..a : 1 + i \in 1..Len(X)
       /\ \A i \in 1..d : a + 2 + i \in 1..Len(X)
       /\ \A i \in 1..w : a + d + 3 + i \in 1..Len(X)
  <2>1. Len(X) = a + d + w + 4
    BY <1>9
  <2> QED BY <2>1
<1>13. /\ E[p + 1].t = o.kind /\ E[p + (a + 2)].t = "sp" /\ E[p + (a + d + 3)].t = "nl"
       /\ E[p + (a + d + w + 4)].t = "nl"
  BY <1>8, <1>9, <1>11, <1>12, Zenon
<1>14. /\ \A i \in 1..a : E[p + (1 + i)] = [t |-> "ch", o |-> o]
       /\ \A i \in 1..d : E[p + (a + 2 + i)] = [t |-> "ch", o |-> o]
       /\ \A i \in 1..w : E[p + (a + d + 3 + i)] = [t |-> "by", o |-> o]
  BY <1>8, <1>10, <1>12, Zenon
<1>15. ValueAt(fs, k, n) = p + a + d + 3
  BY <1>2, <1>5, <1>6, Zenon DEF ValueAt, D
<1>16. /\ p + (a + 2) = p + a + 2 /\ p + (a + d + 3) = p + a + d + 3
       /\ p + (a + d + w + 4) = (p + a + d + 3) + w + 1
       /\ \A i \in 1..a : p + (1 + i) = p + 1 + i
       /\ \A i \in 1..d : p + (a + 2 + i) = p + a + 2 + i
       /\ \A i \in 1..w : p + (a + d + 3 + i) = (p + a + d + 3) + i
  OBVIOUS
<1>17. Place(fs, k, n + 1) = (p + a + d + 3) + w + 1
  BY <1>7, <1>9, <1>16, Zenon
<1>18. /\ E[p + a + 2].t = "sp" /\ E[p + a + d + 3].t = "nl" /\ E[(p + a + d + 3) + w + 1].t = "nl"
       /\ \A i \in 1..a : E[p + 1 + i] = [t |-> "ch", o |-> o]
       /\ \A i \in 1..d : E[p + a + 2 + i] = [t |-> "ch", o |-> o]
       /\ \A i \in 1..w : E[(p + a + d + 3) + i] = [t |-> "by", o |-> o]
  BY <1>13, <1>14, <1>16, Zenon
<1>19. o.idlen \in Nat \ {0} /\ o.len \in Nat /\ D \in Nat \ {0}
  BY <1>5
<1>20. /\ E[p + o.idlen + 2].t = "sp" /\ E[p + o.idlen + D + 3].t = "nl"
       /\ E[(p + o.idlen + D + 3) + o.len + 1].t = "nl"
       /\ \A i \in 1..o.idlen : E[p + 1 + i] = [t |-> "ch", o |-> o]
       /\ \A i \in 1..D : E[p + o.idlen + 2 + i] = [t |-> "ch", o |-> o]
       /\ \A i \in 1..o.len : E[(p + o.idlen + D + 3) + i] = [t |-> "by", o |-> o]
       /\ Place(fs, k, n + 1) = (p + o.idlen + D + 3) + o.len + 1
       /\ ValueAt(fs, k, n) = p + o.idlen + D + 3
  BY <1>5, <1>15, <1>17, <1>18, Zenon
<1>21. Spells(E, p, o)
  BY <1>13, <1>20, Zenon DEF Spells, D
<1> QED BY <1>2, <1>6, <1>19, <1>20, <1>21, Zenon DEF E, D

-----------------------------------------------------------------------------
(* The lists of a frame *)

(* The pieces of a list: each object is in the list of its kind alone. *)
LEMMA PieceTypes ==
    ASSUME NEW OO, NEW objs \in Seq(OO), NEW kd
    PROVE  LET R == {StoredObject(objs[i]) : i \in 1..Len(objs)}
           IN /\ Len(objs) \in Nat /\ OfKind(kd, objs) \in [1..Len(objs) -> Seq(R)]
              /\ \A i \in 1..Len(objs) :
                    /\ objs[i].kind = kd => OfKind(kd, objs)[i] = <<StoredObject(objs[i])>>
                    /\ objs[i].kind # kd => OfKind(kd, objs)[i] = <<>>
<1> DEFINE R == {StoredObject(objs[i]) : i \in 1..Len(objs)}
<1>1. Len(objs) \in Nat /\ DOMAIN objs = 1..Len(objs)
  OBVIOUS
<1>2. \A i \in 1..Len(objs) : StoredObject(objs[i]) \in R
  OBVIOUS
<1> HIDE DEF R
<1>3. \A i \in 1..Len(objs) : <<StoredObject(objs[i])>> \in Seq(R) /\ <<>> \in Seq(R)
  BY <1>2
<1>4. OfKind(kd, objs) = [i \in 1..Len(objs) |->
                             IF objs[i].kind = kd THEN <<StoredObject(objs[i])>> ELSE <<>>]
  BY <1>1, Zenon DEF OfKind
<1> QED BY <1>1, <1>3, <1>4 DEF R

(* Before the first object all lists are empty; the next object of a frame  *)
(* goes to the end of the list of its kind.                                 *)
LEMMA FirstStoredStep ==
    ASSUME NEW OO, NEW objs \in Seq(OO)
    PROVE  /\ FirstStored(objs, 0) = EmptyFrame
           /\ \A n \in 0..Len(objs) : n < Len(objs) /\ objs[n + 1].kind \in Kinds =>
                 FirstStored(objs, n + 1) =
                   [FirstStored(objs, n) EXCEPT
                      ![objs[n + 1].kind] = Append(@, StoredObject(objs[n + 1]))]
<1> DEFINE R == {StoredObject(objs[i]) : i \in 1..Len(objs)}
           m == Len(objs)
           F(kd, n) == FlattenSeq(Take(OfKind(kd, objs), n))
<1>1. /\ m \in Nat
      /\ \A kd : OfKind(kd, objs) \in [1..m -> Seq(R)]
      /\ \A kd : \A i \in 1..m : objs[i].kind = kd => OfKind(kd, objs)[i] = <<StoredObject(objs[i])>>
      /\ \A kd : \A i \in 1..m : objs[i].kind # kd => OfKind(kd, objs)[i] = <<>>
  BY PieceTypes
<1> HIDE DEF R, m
<1>2. \A kd : F(kd, 0) = <<>>
  BY <1>1, FlattenTake
<1>3. \A kd : \A n \in 0..m : F(kd, n) \in Seq(R)
  BY <1>1, FlattenTake
<1>4. \A kd : \A n \in 0..m : n < m => F(kd, n + 1) = F(kd, n) \o OfKind(kd, objs)[n + 1]
  <2> SUFFICES ASSUME NEW kd, NEW n \in 0..m, n < m
               PROVE  F(kd, n + 1) = F(kd, n) \o OfKind(kd, objs)[n + 1]
    BY Zenon
  <2> DEFINE g == OfKind(kd, objs)
  <2>1. g \in [1..m -> Seq(R)]
    BY <1>1
  <2> HIDE DEF g
  <2>2. FlattenSeq(Take(g, n + 1)) = FlattenSeq(Take(g, n)) \o g[n + 1]
    BY <1>1, <2>1, FlattenTake
  <2> QED BY <2>2, Zenon DEF g
<1>5. \A n : FirstStored(objs, n) = [kd \in Kinds |-> F(kd, n)]
  BY Zenon DEF FirstStored
<1>6. FirstStored(objs, 0) = EmptyFrame
  <2> HIDE DEF F
  <2> QED BY <1>2, <1>5, Zenon DEF EmptyFrame
<1>7. ASSUME NEW n \in 0..m, n < m, objs[n + 1].kind \in Kinds
      PROVE  FirstStored(objs, n + 1) =
               [FirstStored(objs, n) EXCEPT
                  ![objs[n + 1].kind] = Append(@, StoredObject(objs[n + 1]))]
  <2> DEFINE e == StoredObject(objs[n + 1])
             c == objs[n + 1].kind
  <2>0. n + 1 \in 1..m
    BY <1>1, <1>7
  <2>e. e \in R
    BY <2>0 DEF R, m
  <2> HIDE DEF F, e
  <2>1. F(c, n + 1) = Append(F(c, n), e)
    <3>0. OfKind(c, objs)[n + 1] = <<e>>
      BY <1>1, <2>0, Zenon DEF e
    <3>1. F(c, n + 1) = F(c, n) \o <<e>>
      BY <1>4, <1>7, <3>0, Zenon
    <3>2. F(c, n) \in Seq(R)
      BY <1>3
    <3>3. F(c, n) \o <<e>> = Append(F(c, n), e)
      BY <2>e, <3>2
    <3> QED BY <3>1, <3>3, Zenon
  <2>2. \A kd : kd # c => F(kd, n + 1) = F(kd, n)
    <3> SUFFICES ASSUME NEW kd, kd # c PROVE F(kd, n + 1) = F(kd, n)
      OBVIOUS
    <3>1. F(kd, n + 1) = F(kd, n) \o <<>>
      BY <1>1, <1>4, <1>7, <2>0, Zenon
    <3>2. F(kd, n) \o <<>> = F(kd, n)
      BY <1>3
    <3> QED BY <3>1, <3>2, Zenon
  <2>3. [kd \in Kinds |-> F(kd, n + 1)] = [[kd \in Kinds |-> F(kd, n)] EXCEPT ![c] = Append(@, e)]
    BY <1>7, <2>1, <2>2
  <2> QED BY <1>5, <2>3, Zenon DEF e
<1> QED BY <1>6, <1>7, Zenon DEF m

(* The lists after the last object are those of the frame. *)
LEMMA FirstStoredAll ==
    ASSUME NEW OO, NEW f, f.objs \in Seq(OO)
    PROVE  [cmd |-> f.cmd, lists |-> FirstStored(f.objs, Len(f.objs))] = Stored(f)
<1> DEFINE m == Len(f.objs)
<1>1. \A kd : OfKind(kd, f.objs) = [i \in 1..m |-> OfKind(kd, f.objs)[i]]
  <2>1. DOMAIN f.objs = 1..m
    OBVIOUS
  <2> QED BY <2>1 DEF OfKind
<1>2. \A kd : Take(OfKind(kd, f.objs), m) = OfKind(kd, f.objs)
  BY <1>1, Zenon DEF Take
<1>3. FirstStored(f.objs, m) = [kd \in Kinds |-> FlattenSeq(OfKind(kd, f.objs))]
  BY <1>2, Zenon DEF FirstStored
<1> QED BY <1>3, Zenon DEF Stored

(* A header of the frame is found in its list. *)
LEMMA HeaderIsFound ==
    ASSUME NEW OO, NEW objs \in Seq(OO), NEW j \in 1..Len(objs), objs[j].kind = "kv",
           frame = FirstStored(objs, Len(objs))
    PROVE  HasHeader(objs[j].key)
<1> DEFINE R == {StoredObject(objs[i]) : i \in 1..Len(objs)}
           m == Len(objs)
           g == OfKind("kv", objs)
<1>1. m \in Nat /\ g \in [1..m -> Seq(R)] /\ g[j] = <<StoredObject(objs[j])>>
  BY PieceTypes
<1> HIDE DEF R, m, g
<1>2. PICK n \in 0..m : n < m /\ n + 1 = j
  <2>1. j - 1 \in 0..m /\ j - 1 < m /\ (j - 1) + 1 = j
    BY <1>1 DEF m
  <2> QED BY <2>1
<1> DEFINE L == FlattenSeq(Take(g, m))
           q == Len(FlattenSeq(Take(g, n)))
<1>3. L \in Seq(R) /\ FlattenSeq(Take(g, n)) \in Seq(R)
  <2>1. m \in 0..m
    BY <1>1
  <2> QED BY <1>1, <2>1, FlattenTake
<1>4. Sits(<<StoredObject(objs[j])>>, L, q)
  <2>1. Sits(g[n + 1], L, q)
    BY <1>1, <1>2, FlattenSits
  <2> QED BY <1>1, <1>2, <2>1, Zenon
<1>5. frame["kv"] = L
  BY Zenon DEF FirstStored, Kinds, g, m
<1> HIDE DEF L, q
<1>6. q \in Nat
  BY <1>3 DEF q
<1>7. L[q + 1] = StoredObject(objs[j])
  BY <1>4, <1>6, SitsOne
<1>8. q + 1 \in 1..Len(L)
  <2>1. Len(<<StoredObject(objs[j])>>) = 1 /\ Len(L) \in Nat
    BY <1>3
  <2> QED BY <1>4, <1>6, <2>1 DEF Sits
<1>9. StoredObject(objs[j]).id = objs[j]
  BY DEF StoredObject
<1> QED BY <1>5, <1>7, <1>8, <1>9, Zenon DEF HasHeader, Count

-----------------------------------------------------------------------------
(* The stream *)

(* recv of n bytes takes them from the front of what is to come. *)
LEMMA Recv ==
    ASSUME NEW E, TypeOK, Follows(E), NEW n \in 1..Len(wire), Consume(n), stream' = stream
    PROVE  /\ Follows(E)' /\ ReadSoFar' = ReadSoFar + n /\ ReadSoFar \in Nat
           /\ \A i \in 1..n : wire[i] = E[ReadSoFar + i]
           /\ Next1 = E[ReadSoFar + 1]
<1>1. /\ wire \in Seq(WireSymbols) /\ Len(wire) \in Nat
      /\ wire' = SubSeq(wire, n + 1, Len(wire))
  BY DEF TypeOK, Consume
<1>2. /\ Len(wire') = Len(wire) - n
      /\ \A i \in 1..(Len(wire) - n) : wire'[i] = wire[n + i]
  <2>1. \A i \in (n + 1)..Len(wire) : wire[i] \in WireSymbols
    BY <1>1
  <2> QED BY <1>1, <2>1, SubSeqProperties
<1>n. n \in Nat /\ Len(wire) \in Nat
  BY <1>1
<1>3. Len(stream.wire) \in Nat /\ ReadSoFar \in Nat /\ ReadSoFar + Len(wire) <= Len(E)
  BY DEF Follows
<1>4. \A i \in 1..Len(wire) : wire[i] = E[ReadSoFar + i]
  BY DEF Follows
<1>5. ReadSoFar' = ReadSoFar + n
  <2>1. \A a, b, c \in Nat : b - c \in Int /\ a - (b - c) = (a - b) + c
    OBVIOUS
  <2>2. ReadSoFar' = Len(stream.wire) - Len(wire')
    BY Zenon DEF ReadSoFar
  <2>3. ReadSoFar' = Len(stream.wire) - (Len(wire) - n)
    BY <1>2, <2>2, Zenon
  <2> QED BY <1>n, <1>3, <2>1, <2>3, Zenon DEF ReadSoFar
<1>6. Next1 = wire[1]
  BY <1>1 DEF Next1
<1>7. Follows(E)'
  <2>1. ReadSoFar' \in Nat /\ ReadSoFar' + Len(wire') <= Len(E)
    <3>1. ReadSoFar' \in Nat /\ ReadSoFar' + Len(wire') = ReadSoFar + Len(wire)
      <4>1. \A a, b, c \in Nat : a + c \in Nat /\ (a + c) + (b - c) = a + b
        OBVIOUS
      <4>2. Len(wire') = Len(wire) - n
        BY <1>2
      <4>3. ReadSoFar \in Nat
        BY <1>3
      <4>4. ReadSoFar' \in Nat
        BY <1>5, <1>n, <4>1, <4>3, Zenon
      <4>5. ReadSoFar' + Len(wire') = (ReadSoFar + n) + (Len(wire) - n)
        BY <1>5, <4>2, Zenon
      <4> QED BY <1>n, <4>1, <4>3, <4>4, <4>5, Zenon
    <3> QED BY <1>3, <3>1, Zenon
  <2>0. Len(stream.wire)' \in Nat
    BY <1>3
  <2>2. ASSUME NEW i \in 1..Len(wire') PROVE wire'[i] = E[ReadSoFar' + i]
    <3>1. n + i \in 1..Len(wire) /\ ReadSoFar + (n + i) = ReadSoFar' + i
      BY <1>1, <1>2, <1>3, <1>5
    <3>2. wire'[i] = wire[n + i]
      BY <1>1, <1>2
    <3> QED BY <1>4, <3>1, <3>2, Zenon
  <2> QED BY <2>0, <2>1, <2>2 DEF Follows
<1>8. 1 \in 1..Len(wire) /\ \A i \in 1..n : i \in 1..Len(wire)
  BY <1>1
<1> QED BY <1>3, <1>4, <1>5, <1>6, <1>7, <1>8, Zenon

(* Without recv, the place in the stream is the same. *)
LEMMA Stay ==
    ASSUME NEW E, Follows(E), UNCHANGED <<wire, stream>>
    PROVE  Follows(E)' /\ ReadSoFar' = ReadSoFar
BY DEF Follows, ReadSoFar

-----------------------------------------------------------------------------
(* The steps of the reader, and its place in the stream *)

(* Where bw2_readFrame or its caller has returned, only what was handed on  *)
(* matters.                                                                 *)
LEMMA AtReturn ==
    ASSUME NEW fs, NEW k, NEW n, At(fs, k, n), pc' \in {"exited", "crash"},
           UNCHANGED delivered
    PROVE  At(fs, k, n)'
<1>1. HandedOn(fs, k)'
  BY DEF At, HandedOn
<1>2. Between(fs, k, n)' /\ InTokens(fs, k, n)' /\ InValue(fs, k, n)'
  BY DEF Between, InTokens, InValue
<1> QED BY <1>1, <1>2 DEF At

(* Nothing is read, and the call has returned or will return. *)
LEMMA ReturnStep ==
    ASSUME NEW fs, NEW k, NEW n, Reading(fs, k, n), pc' \in {"exited", "crash"},
           UNCHANGED <<delivered, stream, wire>>
    PROVE  Reading(fs, k, n)'
<1>1. Follows(EncodeFrames(fs))'
  BY Stay DEF Reading
<1>2. At(fs, k, n)'
  BY AtReturn DEF Reading
<1> QED BY <1>1, <1>2 DEF Reading

(* What was handed on stays as it is while a frame is read. *)
LEMMA HandedOnStays ==
    ASSUME NEW fs, NEW k, HandedOn(fs, k), UNCHANGED <<phase, delivered>>,
           pc \notin {"exited", "crash"}
    PROVE  HandedOn(fs, k)'
BY DEF HandedOn

(* The header of a frame *)
LEMMA ReadHeaderStep ==
    ASSUME TypeOK, NEW fs, NEW k, NEW n, Reading(fs, k, n), ReadHeader
    PROVE  Reading(fs, k, 0)' /\ pc' # "exited" /\ rv' = rv
<1> DEFINE E == EncodeFrames(fs)
<1>1. /\ AgentFrames(fs) /\ Follows(E) /\ k \in 0..Len(fs) /\ n \in Nat
      /\ HandedOn(fs, k) /\ Between(fs, k, n)
  BY DEF Reading, At
<1>2. /\ pc = "header" /\ ~Ended /\ Consume(1) /\ stream' = stream
      /\ UNCHANGED <<phase, delivered>> /\ cmd' = Next1.o /\ frame' = EmptyFrame
  BY DEF ReadHeader
<1>3. ReadSoFar = FrameAt(fs, k)
  BY <1>1, <1>2 DEF Between
<1>w. 1 \in 1..Len(wire) /\ Len(wire) \in Nat
  BY <1>2, NextSymbol
<1>4. Follows(E)' /\ ReadSoFar' = ReadSoFar + 1 /\ Next1 = E[ReadSoFar + 1]
  BY <1>1, <1>2, <1>w, Recv
<1>5. k < Len(fs)
  <2>1. FrameAt(fs, Len(fs)) = Len(E) /\ Len(E) \in Nat
    BY <1>1, FramesKnown
  <2>2. ReadSoFar \in Nat /\ ReadSoFar + Len(wire) <= Len(E)
    BY <1>1 DEF Follows
  <2>3. ReadSoFar # Len(E)
    BY <1>w, <2>1, <2>2
  <2>4. k # Len(fs) /\ Len(fs) \in Nat
    BY <1>1, <1>3, <2>1, <2>3, AgentObjects
  <2> QED BY <1>1, <2>4
<1>6. E[FrameAt(fs, k) + 1] = [t |-> "hdr", o |-> fs[k + 1].cmd] /\ Place(fs, k, 0) = FrameAt(fs, k) + 1
  BY <1>1, <1>5, FrameKnown
<1>7. Next1.t = "hdr" /\ Next1.o = fs[k + 1].cmd
  BY <1>3, <1>4, <1>6
<1>8. pc' = "tag" /\ rv' = rv
  BY <1>7 DEF ReadHeader, Goto
<1>9. InFrame(fs, k, 0)'
  <2>1. k + 1 \in 1..Len(fs)
    BY <1>1, <1>5, AgentObjects
  <2>2. fs[k + 1].objs \in Seq(Objects) /\ Len(fs[k + 1].objs) \in Nat
    BY <1>1, <2>1, AgentObjects
  <2>3. FirstStored(fs[k + 1].objs, 0) = EmptyFrame
    BY <2>2, FirstStoredStep
  <2>4. 0 \in 0..Len(fs[k + 1].objs)
    BY <2>2
  <2> QED BY <1>2, <1>5, <1>7, <2>3, <2>4 DEF InFrame
<1>10. HandedOn(fs, k)'
  BY <1>1, <1>2, HandedOnStays
<1>11. ReadSoFar' = Place(fs, k, 0)
  BY <1>3, <1>4, <1>6
<1>12. At(fs, k, 0)'
  <2>1. Between(fs, k, 0)'
    BY <1>8, <1>9, <1>11 DEF Between
  <2>2. InTokens(fs, k, 0)' /\ InValue(fs, k, 0)'
    BY <1>8 DEF InTokens, InValue
  <2> QED BY <1>10, <2>1, <2>2 DEF At
<1> QED BY <1>1, <1>4, <1>8, <1>12 DEF Reading

(* A tag, or the end of the frame *)
LEMMA ReadTagStep ==
    ASSUME TypeOK, NEW fs, NEW k, NEW n, Reading(fs, k, n), ReadTag
    PROVE  Reading(fs, k, n)' /\ pc' # "exited" /\ rv' = rv
<1> DEFINE E == EncodeFrames(fs)
           l == Len(fs[k + 1].objs)
<1>1. /\ AgentFrames(fs) /\ Follows(E) /\ k \in 0..Len(fs) /\ n \in Nat
      /\ HandedOn(fs, k) /\ Between(fs, k, n)
  BY DEF Reading, At
<1>2. /\ pc = "tag" /\ ~Ended /\ Consume(1) /\ stream' = stream
      /\ UNCHANGED <<phase, delivered, cmd, frame>>
  BY DEF ReadTag
<1>3. ReadSoFar = Place(fs, k, n) /\ InFrame(fs, k, n)
  BY <1>1, <1>2 DEF Between
<1>w. 1 \in 1..Len(wire)
  BY <1>2, NextSymbol
<1>4. Follows(E)' /\ ReadSoFar' = ReadSoFar + 1 /\ Next1 = E[ReadSoFar + 1]
  BY <1>1, <1>2, <1>w, Recv
<1>5. k < Len(fs) /\ n \in 0..l /\ cmd = fs[k + 1].cmd /\ frame = FirstStored(fs[k + 1].objs, n)
  BY <1>3 DEF InFrame
<1>6. InFrame(fs, k, n)' /\ ReadSoFar' = Place(fs, k, n) + 1 /\ Next1.t = E[Place(fs, k, n) + 1].t
  BY <1>2, <1>3, <1>4 DEF InFrame
<1>7. HandedOn(fs, k)'
  BY <1>1, <1>2, HandedOnStays
<1>8. CASE n < l
  <2> DEFINE o == fs[k + 1].objs[n + 1]
  <2>1. o.kind \in Kinds /\ E[Place(fs, k, n) + 1].t = o.kind /\ Place(fs, k, n) \in Nat
    <3>1. Readable(o) /\ Place(fs, k, n) \in Nat
      BY <1>1, <1>5, <1>8, ObjectKnown
    <3>2. Spells(E, Place(fs, k, n), o)
      BY <1>1, <1>5, <1>8, ObjectKnown
    <3> HIDE DEF E, o
    <3>3. E[Place(fs, k, n) + 1].t = o.kind
      BY <3>2, Zenon DEF Spells
    <3> QED BY <3>1, <3>3 DEF Readable
  <2> HIDE DEF E
  <2>2. Next1.t \in Kinds /\ Next1.t = o.kind
    BY <1>6, <2>1
  <2>3. pc' = "id" /\ rv' = rv /\ got' = 0 /\ cur' = [NoCur EXCEPT !.kind = Next1.t]
    BY <2>2 DEF ReadTag, Goto, Kinds
  <2>4. cur'.kind = o.kind /\ cur'.num = 0
    BY <2>2, <2>3 DEF NoCur
  <2>5. InObject(fs, k, n)'
    BY <1>6, <1>8, <2>4 DEF InObject
  <2>6. o.idlen \in Nat /\ ReadSoFar' = Place(fs, k, n) + 1 + got'
    <3>1. o.idlen \in Nat
      BY <1>1, <1>5, <1>8, ObjectKnown
    <3> QED BY <1>6, <2>1, <2>3, <3>1
  <2>7. InTokens(fs, k, n)'
    BY <2>3, <2>4, <2>5, <2>6 DEF InTokens
  <2>8. Between(fs, k, n)' /\ InValue(fs, k, n)'
    BY <2>3 DEF Between, InValue
  <2>9. At(fs, k, n)'
    BY <1>7, <2>7, <2>8 DEF At
  <2> QED BY <1>1, <1>4, <2>3, <2>9 DEF Reading, E
<1>9. CASE n = l
  <2>1. E[Place(fs, k, n) + 1].t = "end"
    BY <1>1, <1>5, <1>9, FrameKnown
  <2>2. Next1.t = "end"
    BY <1>6, <2>1
  <2>3. pc' = "end" /\ rv' = rv
    BY <2>2 DEF ReadTag, Goto, Kinds
  <2>4. Between(fs, k, n)'
    BY <1>6, <1>9, <2>3 DEF Between
  <2>5. InTokens(fs, k, n)' /\ InValue(fs, k, n)'
    BY <2>3 DEF InTokens, InValue
  <2>6. At(fs, k, n)'
    BY <1>7, <2>4, <2>5 DEF At
  <2> QED BY <1>1, <1>4, <2>3, <2>6 DEF Reading
<1>10. l \in Nat
  BY <1>1, <1>5, FrameKnown
<1> QED BY <1>5, <1>8, <1>9, <1>10

(* A character of the key, number or length *)
LEMMA TokenCharStep ==
    ASSUME TypeOK, NEW fs, NEW k, NEW n, Reading(fs, k, n), TokenChar
    PROVE  Reading(fs, k, n)' /\ pc' # "exited" /\ rv' = rv
<1> DEFINE E == EncodeFrames(fs)
           l == Len(fs[k + 1].objs)
           o == fs[k + 1].objs[n + 1]
           D == Digits(o.len)
<1>1. /\ AgentFrames(fs) /\ Follows(E) /\ k \in 0..Len(fs) /\ n \in Nat
      /\ HandedOn(fs, k) /\ InTokens(fs, k, n)
  BY DEF Reading, At
<1>2. /\ pc \in {"id", "length"} /\ ~Ended /\ Consume(1) /\ stream' = stream
      /\ UNCHANGED <<phase, delivered, cmd, frame, pc, rv>>
      /\ got' = got + 1 /\ Next1.t # Delimiter
  BY DEF TokenChar
<1>3. InObject(fs, k, n) /\ cur.num = 0 /\ cur.kind = o.kind
  BY <1>1, <1>2 DEF InTokens, InObject
<1>4. InFrame(fs, k, n) /\ k < Len(fs) /\ n \in 0..l /\ n < l
  BY <1>3 DEF InObject, InFrame
<1>w. 1 \in 1..Len(wire)
  BY <1>2, NextSymbol
<1>5. Follows(E)' /\ ReadSoFar' = ReadSoFar + 1 /\ Next1 = E[ReadSoFar + 1]
  BY <1>1, <1>2, <1>w, Recv
<1>6. HandedOn(fs, k)'
  BY <1>1, <1>2, HandedOnStays
<1>7. /\ cur' = IF got # 0 THEN cur
                ELSE IF pc = "id" THEN [cur EXCEPT !.id = Next1.o]
                ELSE [cur EXCEPT !.length = Next1.o]
      /\ cur \in Curs /\ got \in Nat
  BY DEF TokenChar, TypeOK
<1>8. cur'.kind = cur.kind /\ cur'.num = cur.num /\ cur'.idlen = cur.idlen
  BY <1>7 DEF Curs
<1>9. InObject(fs, k, n)' /\ cur'.num = 0
  BY <1>2, <1>3, <1>4, <1>8 DEF InObject, InFrame
<1>10. PICK p \in Nat : p = Place(fs, k, n)
  BY <1>1, <1>4, ObjectKnown
<1>11. PICK a \in Nat, d \in Nat : a = o.idlen /\ d = D
  <2>1. o.idlen \in Nat /\ D \in Nat
    BY <1>1, <1>4, ObjectKnown
  <2> QED BY <2>1
<1>s. Spells(E, p, o)
  <2>1. Spells(E, Place(fs, k, n), o)
    BY <1>1, <1>4, ObjectKnown
  <2> HIDE DEF E, o
  <2> QED BY <1>10, <2>1, Zenon
<1>12. CASE pc = "id"
  <2>1. ReadSoFar = p + 1 + got /\ got <= a /\ (got # 0 => cur.id = o)
    BY <1>1, <1>10, <1>11, <1>12 DEF InTokens
  <2>2. E[p + a + 2].t = "sp"
    <3> HIDE DEF E, o
    <3> QED BY <1>s, <1>11, Zenon DEF Spells, D
  <2>3. \A i \in 1..a : E[p + 1 + i] = [t |-> "ch", o |-> o]
    <3> HIDE DEF E, o
    <3> QED BY <1>s, <1>11, Zenon DEF Spells, D
  <2> HIDE DEF E, o, D
  <2>4. Next1.t # "sp" /\ Next1 = E[p + 1 + got + 1]
    BY <1>2, <1>5, <1>12, <2>1 DEF Delimiter
  <2>5. got < a
    <3>1. got = a => p + 1 + got + 1 = p + a + 2
      BY <1>7
    <3>2. got # a
      BY <2>2, <2>4, <3>1
    <3> QED BY <1>7, <2>1, <3>2
  <2>6. Next1.o = o
    <3>1. got + 1 \in 1..a /\ p + 1 + got + 1 = p + 1 + (got + 1)
      BY <1>7, <2>5
    <3>2. Next1 = [t |-> "ch", o |-> o]
      BY <2>3, <2>4, <3>1, Zenon
    <3> QED BY <3>2
  <2>7. cur'.id = o
    BY <1>7, <1>12, <2>1, <2>6 DEF Curs
  <2>8. ReadSoFar' = p + 1 + got' /\ got' <= a /\ pc' = "id"
    BY <1>2, <1>5, <1>7, <1>12, <2>1, <2>5
  <2>9. InTokens(fs, k, n)'
    BY <1>9, <1>10, <1>11, <2>7, <2>8 DEF InTokens, o
  <2>10. Between(fs, k, n)' /\ InValue(fs, k, n)'
    BY <2>8 DEF Between, InValue
  <2>11. At(fs, k, n)'
    BY <1>6, <2>9, <2>10 DEF At
  <2> QED BY <1>1, <1>2, <1>5, <2>8, <2>11 DEF Reading, E
<1>13. CASE pc = "length"
  <2>1. /\ ReadSoFar = p + a + 2 + got /\ got <= d /\ (got # 0 => cur.length = o)
        /\ cur.id = o /\ cur.idlen = o.idlen
    BY <1>1, <1>10, <1>11, <1>13 DEF InTokens
  <2>2. E[p + a + d + 3].t = "nl"
    <3> HIDE DEF E, o
    <3> QED BY <1>s, <1>11, Zenon DEF Spells, D
  <2>3. \A i \in 1..d : E[p + a + 2 + i] = [t |-> "ch", o |-> o]
    <3> HIDE DEF E, o
    <3> QED BY <1>s, <1>11, Zenon DEF Spells, D
  <2> HIDE DEF E, o, D
  <2>4. Next1.t # "nl" /\ Next1 = E[p + a + 2 + got + 1]
    BY <1>2, <1>5, <1>13, <2>1 DEF Delimiter
  <2>5. got < d
    <3>1. got = d => p + a + 2 + got + 1 = p + a + d + 3
      BY <1>7
    <3>2. got # d
      BY <2>2, <2>4, <3>1
    <3> QED BY <1>7, <2>1, <3>2
  <2>6. Next1.o = o
    <3>1. got + 1 \in 1..d /\ p + a + 2 + got + 1 = p + a + 2 + (got + 1)
      BY <1>7, <2>5
    <3>2. Next1 = [t |-> "ch", o |-> o]
      BY <2>3, <2>4, <3>1, Zenon
    <3> QED BY <3>2
  <2>7. cur'.length = o /\ cur'.id = o /\ cur'.idlen = o.idlen
    BY <1>7, <1>13, <2>1, <2>6 DEF Curs
  <2>8. ReadSoFar' = p + a + 2 + got' /\ got' <= d /\ pc' = "length"
    BY <1>2, <1>5, <1>7, <1>13, <2>1, <2>5
  <2>9. InTokens(fs, k, n)'
    BY <1>9, <1>10, <1>11, <2>7, <2>8 DEF InTokens, o, D
  <2>10. Between(fs, k, n)' /\ InValue(fs, k, n)'
    BY <2>8 DEF Between, InValue
  <2>11. At(fs, k, n)'
    BY <1>6, <2>9, <2>10 DEF At
  <2> QED BY <1>1, <1>2, <1>5, <2>8, <2>11 DEF Reading, E
<1> QED BY <1>2, <1>12, <1>13

(* The delimiter of a token *)
LEMMA TokenEndStep ==
    ASSUME TypeOK, NEW fs, NEW k, NEW n, Reading(fs, k, n), TokenEnd
    PROVE  Reading(fs, k, n)' /\ pc' # "exited" /\ rv' = rv
<1> DEFINE E == EncodeFrames(fs)
           l == Len(fs[k + 1].objs)
           o == fs[k + 1].objs[n + 1]
           D == Digits(o.len)
<1>1. /\ AgentFrames(fs) /\ Follows(E) /\ k \in 0..Len(fs) /\ n \in Nat
      /\ HandedOn(fs, k) /\ InTokens(fs, k, n)
  BY DEF Reading, At
<1>2. /\ pc \in {"id", "length"} /\ ~Ended /\ Consume(1) /\ stream' = stream
      /\ UNCHANGED <<phase, delivered, cmd, frame, rv>>
      /\ got' = 0 /\ Next1.t = Delimiter
      /\ pc' = IF pc = "id" THEN "length" ELSE "parse"
  BY DEF TokenEnd, Goto
<1>3. InObject(fs, k, n) /\ cur.num = 0 /\ cur.kind = o.kind
  BY <1>1, <1>2 DEF InTokens, InObject
<1>4. InFrame(fs, k, n) /\ k < Len(fs) /\ n \in 0..l /\ n < l
  BY <1>3 DEF InObject, InFrame
<1>w. 1 \in 1..Len(wire)
  BY <1>2, NextSymbol
<1>5. Follows(E)' /\ ReadSoFar' = ReadSoFar + 1 /\ Next1 = E[ReadSoFar + 1]
  BY <1>1, <1>2, <1>w, Recv
<1>6. HandedOn(fs, k)'
  BY <1>1, <1>2, HandedOnStays
<1>7. /\ cur' = IF pc = "id" THEN [cur EXCEPT !.idlen = got] ELSE cur
      /\ cur \in Curs /\ got \in Nat
  BY DEF TokenEnd, TypeOK
<1>8. /\ cur'.kind = cur.kind /\ cur'.num = cur.num /\ cur'.id = cur.id
      /\ cur'.length = cur.length
  BY <1>7 DEF Curs
<1>9. InObject(fs, k, n)' /\ cur'.num = 0
  BY <1>2, <1>3, <1>4, <1>8 DEF InObject, InFrame
<1>10. PICK p \in Nat : p = Place(fs, k, n)
  BY <1>1, <1>4, ObjectKnown
<1>11. PICK a \in Nat \ {0}, d \in Nat \ {0} : a = o.idlen /\ d = D
  <2>1. o.idlen \in Nat \ {0} /\ D \in Nat \ {0}
    BY <1>1, <1>4, ObjectKnown
  <2> QED BY <2>1, Zenon
<1>s. Spells(E, p, o)
  <2>1. Spells(E, Place(fs, k, n), o)
    BY <1>1, <1>4, ObjectKnown
  <2> HIDE DEF E, o
  <2> QED BY <1>10, <2>1, Zenon
<1>12. CASE pc = "id"
  <2>1. ReadSoFar = p + 1 + got /\ got <= a /\ (got # 0 => cur.id = o)
    BY <1>1, <1>10, <1>11, <1>12 DEF InTokens
  <2>3. \A i \in 1..a : E[p + 1 + i] = [t |-> "ch", o |-> o]
    <3> HIDE DEF E, o
    <3> QED BY <1>s, <1>11, Zenon DEF Spells, D
  <2> HIDE DEF E, o, D
  <2>4. Next1.t = "sp" /\ Next1 = E[p + 1 + got + 1]
    BY <1>2, <1>5, <1>12, <2>1 DEF Delimiter
  <2>5. got = a
    <3> SUFFICES ASSUME got # a PROVE FALSE
      OBVIOUS
    <3>1. got + 1 \in 1..a /\ p + 1 + got + 1 = p + 1 + (got + 1)
      BY <1>7, <2>1
    <3>2. Next1 = [t |-> "ch", o |-> o]
      BY <2>3, <2>4, <3>1, Zenon
    <3> QED BY <2>4, <3>2
  <2>7. cur'.id = o /\ cur'.idlen = o.idlen
    BY <1>7, <1>8, <1>11, <1>12, <2>1, <2>5 DEF Curs
  <2>8. ReadSoFar' = p + a + 2 + got' /\ got' = 0 /\ pc' = "length"
    BY <1>2, <1>5, <1>7, <1>12, <2>1, <2>5
  <2>9. InTokens(fs, k, n)'
    BY <1>9, <1>10, <1>11, <2>7, <2>8 DEF InTokens, o, D
  <2>10. Between(fs, k, n)' /\ InValue(fs, k, n)'
    BY <2>8 DEF Between, InValue
  <2>11. At(fs, k, n)'
    BY <1>6, <2>9, <2>10 DEF At
  <2> QED BY <1>1, <1>2, <1>5, <2>8, <2>11 DEF Reading, E
<1>13. CASE pc = "length"
  <2>1. /\ ReadSoFar = p + a + 2 + got /\ got <= d /\ (got # 0 => cur.length = o)
        /\ cur.id = o /\ cur.idlen = o.idlen
    BY <1>1, <1>10, <1>11, <1>13 DEF InTokens
  <2>3. \A i \in 1..d : E[p + a + 2 + i] = [t |-> "ch", o |-> o]
    <3> HIDE DEF E, o
    <3> QED BY <1>s, <1>11, Zenon DEF Spells, D
  <2> HIDE DEF E, o, D
  <2>4. Next1.t = "nl" /\ Next1 = E[p + a + 2 + got + 1]
    BY <1>2, <1>5, <1>13, <2>1 DEF Delimiter
  <2>5. got = d
    <3> SUFFICES ASSUME got # d PROVE FALSE
      OBVIOUS
    <3>1. got + 1 \in 1..d /\ p + a + 2 + got + 1 = p + a + 2 + (got + 1)
      BY <1>7, <2>1
    <3>2. Next1 = [t |-> "ch", o |-> o]
      BY <2>3, <2>4, <3>1, Zenon
    <3> QED BY <2>4, <3>2
  <2>7. cur'.id = o /\ cur'.idlen = o.idlen /\ cur'.length = o
    BY <1>7, <1>13, <2>1, <2>5, <1>11
  <2>8. ReadSoFar' = p + a + d + 3 /\ pc' = "parse"
    BY <1>2, <1>5, <1>7, <1>13, <2>1, <2>5
  <2>9. ReadSoFar' = ValueAt(fs, k, n)
    BY <1>10, <1>11, <2>8, Zenon DEF ValueAt, o, D
  <2>10. InTokens(fs, k, n)' /\ Between(fs, k, n)'
    BY <1>9, <2>8 DEF Between, InTokens
  <2>11. InValue(fs, k, n)'
    BY <1>9, <2>7, <2>8, <2>9 DEF InValue, o
  <2>12. At(fs, k, n)'
    BY <1>6, <2>10, <2>11 DEF At
  <2> QED BY <1>1, <1>2, <1>5, <2>8, <2>12 DEF Reading, E
<1> QED BY <1>2, <1>12, <1>13

(* What bw2_readFrame computes from the text of a number is the number. *)
LEMMA NumberRead ==
    ASSUME NEW o \in Objects, Readable(o)
    PROVE  /\ o.kind = "kv" => o.num = 0
           /\ o.kind = "ro" => CutTo(Octet, o.fields[1]) = o.num
           /\ o.kind = "po" /\ o.colon = "first" => CutTo(PoMax, o.fields[1]) = o.num
           /\ o.kind = "po" /\ o.colon = "later" /\ DotForm(o.fields) =>
                 ponum_from_dot_form(o.fields) = o.num
<1>1. NumberRight(o)
  BY DEF Readable
<1>2. /\ o.kind = "kv" => o.num = 0
      /\ o.kind = "ro" => CutTo(Octet, o.fields[1]) = o.num
      /\ o.kind = "po" /\ o.colon = "first" => CutTo(PoMax, o.fields[1]) = o.num
  BY <1>1, Zenon DEF NumberRight, CutTo, PoMax
<1>3. ASSUME o.kind = "po", o.colon = "later", DotForm(o.fields)
      PROVE  ponum_from_dot_form(o.fields) = o.num
  <2>1. o.num = Octet * Octet * Octet * o.fields[1] + Octet * Octet * o.fields[2]
                  + Octet * o.fields[3] + o.fields[4]
    BY <1>1, <1>3, Zenon DEF NumberRight
  <2>2. Octet \in Nat /\ \A i \in 1..4 : o.fields[i] \in Nat
    <3>1. o.fields \in Seq(Nat) /\ Len(o.fields) = 4
      BY <1>3, FrameAssumption DEF DotForm, Text
    <3>2. \A s \in Seq(Nat) : \A i \in 1..Len(s) : s[i] \in Nat
      OBVIOUS
    <3>3. \A i \in 1..4 : o.fields[i] \in Nat
      BY <3>1, <3>2, Zenon
    <3> QED BY <3>3, FrameAssumption
  <2>3. PICK a \in Nat, b \in Nat, c \in Nat, d \in Nat, q \in Nat :
           /\ a = o.fields[1] /\ b = o.fields[2] /\ c = o.fields[3] /\ d = o.fields[4]
           /\ q = Octet
    BY <2>2
  <2>4. ((a * q + b) * q + c) * q + d = q * q * q * a + q * q * b + q * c + d
    OBVIOUS
  <2> QED BY <2>1, <2>3, <2>4, Zenon DEF ponum_from_dot_form
<1> QED BY <1>2, <1>3, Zenon

(* While an object is read, its frame and kind stay the same. *)
LEMMA InObjectStays ==
    ASSUME NEW fs, NEW k, NEW n, InObject(fs, k, n), UNCHANGED <<cmd, frame>>,
           cur'.kind = cur.kind
    PROVE  InObject(fs, k, n)'
BY DEF InObject, InFrame

(* A length that is a size_t is not cut off. *)
LEMMA LengthRead ==
    ASSUME NEW o, Readable(o), cur.length = o
    PROVE  vallen = o.len
<1>1. o.len \in 0..(SizeMax - 1) /\ SizeMax \in Nat \ {0}
  BY FrameAssumption DEF Readable
<1>2. o.len % SizeMax = o.len
  BY <1>1
<1> QED BY <1>2, Zenon DEF vallen

(* The number of an object *)
LEMMA ParseNumberStep ==
    ASSUME TypeOK, NEW fs, NEW k, NEW n, Reading(fs, k, n), ParseNumber
    PROVE  /\ Reading(fs, k, n)'
           /\ Conforming(fs) => pc' # "exited" /\ rv' = rv
<1> DEFINE o == fs[k + 1].objs[n + 1]
<1>1. /\ AgentFrames(fs) /\ Follows(EncodeFrames(fs)) /\ k \in 0..Len(fs) /\ n \in Nat
      /\ HandedOn(fs, k) /\ InTokens(fs, k, n) /\ InValue(fs, k, n)
  BY DEF Reading, At
<1>2. /\ pc = "parse" /\ UNCHANGED <<stream, wire, phase, delivered, cmd, frame>>
  BY DEF ParseNumber
<1>3. /\ InObject(fs, k, n) /\ cur.id = o /\ cur.idlen = o.idlen /\ cur.length = o
      /\ cur.num = 0 /\ ReadSoFar = ValueAt(fs, k, n)
  BY <1>1, <1>2 DEF InTokens, InValue
<1>4. k < Len(fs) /\ n \in 0..Len(fs[k + 1].objs) /\ n < Len(fs[k + 1].objs) /\ cur.kind = o.kind
  BY <1>3 DEF InObject, InFrame
<1>5. o \in Objects /\ Readable(o)
  BY <1>1, <1>4, ObjectKnown
<1>6. HandedOn(fs, k)'
  BY <1>1, <1>2, HandedOnStays
<1>7. Follows(EncodeFrames(fs))' /\ ReadSoFar' = ReadSoFar
  BY <1>1, <1>2, Stay
<1>8. Conforming(fs) => Parses(o)
  <2>1. k + 1 \in 1..Len(fs) /\ n + 1 \in 1..Len(fs[k + 1].objs)
    BY <1>1, <1>4, AgentObjects
  <2> QED BY <2>1, Zenon DEF Conforming
<1>9. cur \in Curs
  BY DEF TypeOK
<1>10. o.kind \in Kinds
  BY <1>5 DEF Readable
<1> HIDE DEF o
<1>11. ASSUME pc' = "alloc", rv' = rv,
              (cur' = cur /\ cur.num = o.num) \/ cur' = [cur EXCEPT !.num = o.num]
       PROVE  Reading(fs, k, n)'
  <2>1. /\ cur'.kind = cur.kind /\ cur'.id = o /\ cur'.idlen = o.idlen /\ cur'.length = o
        /\ cur'.num = o.num
    BY <1>3, <1>9, <1>11 DEF Curs
  <2>2. InObject(fs, k, n)'
    BY <1>2, <1>3, <2>1, InObjectStays
  <2>3. Between(fs, k, n)' /\ InTokens(fs, k, n)'
    BY <1>11 DEF Between, InTokens
  <2>4. InValue(fs, k, n)'
    BY <1>3, <1>7, <1>11, <2>1, <2>2 DEF InValue, o
  <2>5. At(fs, k, n)'
    BY <1>6, <2>3, <2>4 DEF At
  <2> QED BY <1>1, <1>7, <2>5 DEF Reading
<1>12. CASE cur.kind = "kv"
  <2>1. pc' = "alloc" /\ rv' = rv /\ cur' = cur
    BY <1>12 DEF ParseNumber, Goto
  <2>2. cur.num = o.num
    BY <1>3, <1>4, <1>5, <1>12, NumberRead
  <2> QED BY <1>11, <2>1, <2>2
<1>13. CASE cur.kind = "ro"
  <2>1. pc' = "alloc" /\ rv' = rv /\ cur' = [cur EXCEPT !.num = CutTo(Octet, o.fields[1])]
    BY <1>3, <1>13 DEF ParseNumber, Goto
  <2>2. CutTo(Octet, o.fields[1]) = o.num
    BY <1>4, <1>5, <1>13, NumberRead
  <2> QED BY <1>11, <2>1, <2>2
<1>14. CASE cur.kind = "po"
  <2>0. \/ /\ o.colon = "first" /\ o.fields[1] < UllMax
           /\ cur' = [cur EXCEPT !.num = CutTo(PoMax, o.fields[1])] /\ Goto("alloc")
        \/ /\ o.colon = "later" /\ DotForm(o.fields)
           /\ cur' = [cur EXCEPT !.num = ponum_from_dot_form(o.fields)] /\ Goto("alloc")
        \/ /\ \/ o.colon = "first" /\ o.fields[1] >= UllMax
              \/ o.colon = "later" /\ ~DotForm(o.fields)
           /\ Return("MALFORMED_FRAME")
        \/ o.colon = "none" /\ Crash
    BY <1>3, <1>14 DEF ParseNumber
  <2>1. CASE /\ o.colon = "first" /\ o.fields[1] < UllMax
             /\ cur' = [cur EXCEPT !.num = CutTo(PoMax, o.fields[1])] /\ Goto("alloc")
    <3>1. CutTo(PoMax, o.fields[1]) = o.num
      BY <1>4, <1>5, <1>14, <2>1, NumberRead
    <3> QED BY <1>11, <2>1, <3>1 DEF Goto
  <2>2. CASE /\ o.colon = "later" /\ DotForm(o.fields)
             /\ cur' = [cur EXCEPT !.num = ponum_from_dot_form(o.fields)] /\ Goto("alloc")
    <3>1. ponum_from_dot_form(o.fields) = o.num
      BY <1>4, <1>5, <1>14, <2>2, NumberRead
    <3> QED BY <1>11, <2>2, <3>1 DEF Goto
  <2>3. CASE /\ \/ o.colon = "first" /\ o.fields[1] >= UllMax
                \/ o.colon = "later" /\ ~DotForm(o.fields)
             /\ Return("MALFORMED_FRAME")
    <3>1. Reading(fs, k, n)'
      BY <1>2, <2>3, ReturnStep DEF Return
    <3>2. ~Conforming(fs)
      <4>1. ~Parses(o)
        <5>1. o.fields[1] \in Nat /\ UllMax \in Nat
          <6>1. o.fields \in Seq(Nat) /\ o.fields # <<>> /\ UllMax \in Nat
            BY <1>5, FrameAssumption DEF Text
          <6>2. \A s \in Seq(Nat) : s # <<>> => s[1] \in Nat
            OBVIOUS
          <6> QED BY <6>1, <6>2, Zenon
        <5>2. ~(o.fields[1] >= UllMax /\ o.fields[1] < UllMax)
          BY <5>1
        <5> QED BY <1>4, <1>14, <2>3, <5>2 DEF Parses
      <4> QED BY <1>8, <4>1
    <3> QED BY <3>1, <3>2
  <2>4. CASE o.colon = "none" /\ Crash
    <3>1. Reading(fs, k, n)'
      BY <1>2, <2>4, ReturnStep DEF Crash
    <3> QED BY <2>4, <3>1 DEF Crash
  <2> QED BY <2>0, <2>1, <2>2, <2>3, <2>4
<1> QED BY <1>4, <1>10, <1>12, <1>13, <1>14 DEF Kinds

(* The block of an object, or none, and the end of its value *)
LEMMA AllocateStep ==
    ASSUME TypeOK, BlockOfValue, NEW fs, NEW k, NEW n, Reading(fs, k, n),
           Allocate \/ NoSpace \/ ValueDone
    PROVE  Reading(fs, k, n)' /\ pc' # "exited" /\ rv' = rv
<1> DEFINE o == fs[k + 1].objs[n + 1]
<1>1. /\ AgentFrames(fs) /\ Follows(EncodeFrames(fs)) /\ k \in 0..Len(fs) /\ n \in Nat
      /\ HandedOn(fs, k) /\ InValue(fs, k, n)
  BY DEF Reading, At
<1>2. /\ pc \in {"alloc", "value", "skip"}
      /\ UNCHANGED <<stream, wire, phase, delivered, cmd, frame, rv>>
  BY DEF Allocate, NoSpace, ValueDone, Goto
<1>c. cur \in Curs
  BY DEF TypeOK
<1>3. /\ InObject(fs, k, n) /\ cur.id = o /\ cur.idlen = o.idlen /\ cur.length = o
      /\ cur.num = o.num
  BY <1>1, <1>2 DEF InValue
<1>4. k < Len(fs) /\ n \in 0..Len(fs[k + 1].objs) /\ n < Len(fs[k + 1].objs)
  BY <1>3 DEF InObject, InFrame
<1>5. Readable(o) /\ o.len \in Nat
  BY <1>1, <1>4, ObjectKnown
<1>6. HandedOn(fs, k)'
  BY <1>1, <1>2, HandedOnStays
<1>7. Follows(EncodeFrames(fs))' /\ ReadSoFar' = ReadSoFar
  BY <1>1, <1>2, Stay
<1>8. /\ cur'.kind = cur.kind /\ cur'.id = cur.id /\ cur'.idlen = cur.idlen
      /\ cur'.length = cur.length /\ cur'.num = cur.num
  BY <1>c DEF Allocate, NoSpace, ValueDone, Curs
<1>9. InObject(fs, k, n)'
  BY <1>2, <1>3, <1>8, InObjectStays
<1>10. ValueAt(fs, k, n) \in Nat
  <2>1. Place(fs, k, n) \in Nat /\ Digits(o.len) \in Nat /\ o.idlen \in Nat
    BY <1>1, <1>4, ObjectKnown
  <2> QED BY <2>1 DEF ValueAt
<1> HIDE DEF o
<1>11. InValue(fs, k, n)' /\ pc' \in {"value", "skip", "newline"}
  <2>1. CASE Allocate
    <3>1. pc' = "value" /\ got' = 0 /\ from' = {} /\ pc = "alloc"
      BY <2>1 DEF Allocate, Goto
    <3>2. ReadSoFar' = ValueAt(fs, k, n) + got' /\ got' <= o.len
      BY <1>1, <1>5, <1>7, <1>10, <3>1 DEF InValue
    <3> QED BY <1>3, <1>8, <1>9, <3>1, <3>2 DEF InValue, o
  <2>2. CASE NoSpace
    <3>1. pc' = "skip" /\ got' = 0 /\ pc = "alloc"
      BY <2>2 DEF NoSpace, Goto
    <3>2. ReadSoFar' = ValueAt(fs, k, n) + got' /\ got' <= o.len
      BY <1>1, <1>5, <1>7, <1>10, <3>1 DEF InValue
    <3> QED BY <1>3, <1>8, <1>9, <3>1, <3>2 DEF InValue, o
  <2>3. CASE ValueDone
    <3>1. pc' = "newline" /\ pc \in {"value", "skip"} /\ got = vallen /\ UNCHANGED <<from, cur>>
      BY <2>3 DEF ValueDone, Goto
    <3>2. got = o.len
      BY <1>3, <1>5, <3>1, LengthRead
    <3>3. ReadSoFar' = ValueAt(fs, k, n) + o.len
      BY <1>1, <1>7, <3>1, <3>2 DEF InValue
    <3>4. cur.block # NoBlock => from = IF o.len = 0 THEN {} ELSE {o}
      <4>1. pc = "skip" => cur.block = NoBlock
        BY DEF BlockOfValue
      <4>2. pc = "value" => from = IF got = 0 THEN {} ELSE {o}
        BY <1>1 DEF InValue, o
      <4> QED BY <3>1, <3>2, <4>1, <4>2
    <3> QED BY <1>3, <1>8, <1>9, <3>1, <3>3, <3>4 DEF InValue, o
  <2> QED BY <2>1, <2>2, <2>3
<1>12. Between(fs, k, n)' /\ InTokens(fs, k, n)'
  BY <1>11 DEF Between, InTokens
<1>13. At(fs, k, n)'
  BY <1>6, <1>11, <1>12 DEF At
<1> QED BY <1>1, <1>2, <1>7, <1>11, <1>13 DEF Reading

(* Bytes of the value, as many as recv returns, or dropped one by one *)
LEMMA ReadValueStep ==
    ASSUME TypeOK, NEW fs, NEW k, NEW n, Reading(fs, k, n), ReadValue \/ SkipValue
    PROVE  Reading(fs, k, n)' /\ pc' # "exited" /\ rv' = rv
<1> DEFINE E == EncodeFrames(fs)
           o == fs[k + 1].objs[n + 1]
<1>1. /\ AgentFrames(fs) /\ Follows(E) /\ k \in 0..Len(fs) /\ n \in Nat
      /\ HandedOn(fs, k) /\ InValue(fs, k, n)
  BY DEF Reading, At
<1>2. /\ pc \in {"value", "skip"} /\ ~Ended /\ got # vallen
      /\ UNCHANGED <<stream, phase, delivered, cmd, frame, rv, pc, cur>>
  BY DEF ReadValue, SkipValue
<1>3. /\ InObject(fs, k, n) /\ cur.id = o /\ cur.idlen = o.idlen /\ cur.length = o
      /\ cur.num = o.num /\ ReadSoFar = ValueAt(fs, k, n) + got /\ got <= o.len
      /\ pc = "value" => from = IF got = 0 THEN {} ELSE {o}
  BY <1>1, <1>2 DEF InValue
<1>4. k < Len(fs) /\ n \in 0..Len(fs[k + 1].objs) /\ n < Len(fs[k + 1].objs)
  BY <1>3 DEF InObject, InFrame
<1>5. Readable(o) /\ o.len \in Nat /\ got \in Nat
  BY <1>1, <1>4, ObjectKnown DEF TypeOK
<1>6. HandedOn(fs, k)'
  BY <1>1, <1>2, HandedOnStays
<1>7. PICK p \in Nat, a \in Nat, d \in Nat, w \in Nat, v \in Nat :
         /\ p = Place(fs, k, n) /\ a = o.idlen /\ d = Digits(o.len) /\ w = o.len
         /\ v = p + a + d + 3 /\ v = ValueAt(fs, k, n)
  <2>1. Place(fs, k, n) \in Nat /\ o.idlen \in Nat /\ Digits(o.len) \in Nat
    BY <1>1, <1>4, ObjectKnown
  <2>2. PICK p \in Nat, a \in Nat, d \in Nat, w \in Nat :
           p = Place(fs, k, n) /\ a = o.idlen /\ d = Digits(o.len) /\ w = o.len
    BY <1>5, <2>1, Zenon
  <2>3. p + a + d + 3 \in Nat
    OBVIOUS
  <2>4. p + a + d + 3 = ValueAt(fs, k, n)
    BY <2>2, Zenon DEF ValueAt
  <2> QED BY <2>2, <2>3, <2>4, Zenon
<1>8. \A i \in 1..w : E[v + i] = [t |-> "by", o |-> o]
  <2>1. Spells(E, Place(fs, k, n), o)
    BY <1>1, <1>4, ObjectKnown
  <2> HIDE DEF E, o
  <2> QED BY <1>7, <2>1, Zenon DEF Spells
<1>9. vallen = w
  BY <1>3, <1>5, <1>7, LengthRead
<1>10. PICK m \in 1..Len(wire) :
          /\ Consume(m) /\ got' = got + m /\ m <= w - got
          /\ pc = "value" => from' = from \cup Received(m)
  <2>1. CASE ReadValue
    BY <1>9, <2>1 DEF ReadValue
  <2>2. CASE SkipValue
    <3>1. Consume(1) /\ got' = got + 1 /\ pc # "value"
      BY <2>2 DEF SkipValue
    <3>2. 1 \in 1..Len(wire)
      BY <1>2, NextSymbol
    <3>3. 1 <= w - got
      <4>1. got # w /\ got <= w /\ got \in Nat
        BY <1>2, <1>3, <1>5, <1>7, <1>9, Zenon
      <4> QED BY <4>1
    <3> QED BY <3>1, <3>2, <3>3
  <2> QED BY <2>1, <2>2
<1>11. /\ Follows(E)' /\ ReadSoFar' = ReadSoFar + m
       /\ \A i \in 1..m : wire[i] = E[ReadSoFar + i]
  BY <1>1, <1>2, <1>10, Recv
<1>12. m \in Nat \ {0} /\ got + m <= w /\ Len(wire) \in Nat
  <2>1. Len(wire) \in Nat
    BY DEF TypeOK
  <2> QED BY <1>5, <1>10, <2>1
<1> HIDE DEF E, o
<1>13. Received(m) = {o}
  <2>1. ASSUME NEW i \in 1..m PROVE wire[i].o = o
    <3>1. got + i \in 1..w /\ (v + got) + i = v + (got + i)
      BY <1>5, <1>12
    <3>2. wire[i] = E[(v + got) + i]
      BY <1>3, <1>7, <1>11, Zenon
    <3>3. wire[i] = [t |-> "by", o |-> o]
      BY <1>8, <3>1, <3>2, Zenon
    <3> QED BY <3>3
  <2>2. 1 \in 1..m
    BY <1>12
  <2> QED BY <2>1, <2>2 DEF Received
<1>14. pc = "value" => from' = {o}
  BY <1>3, <1>10, <1>13
<1>15. got' \in Nat \ {0} /\ got' <= w /\ ReadSoFar' = v + got'
  <2>1. ReadSoFar = v + got
    BY <1>3, <1>7
  <2> QED BY <1>5, <1>10, <1>11, <1>12, <2>1
<1>16. InObject(fs, k, n)'
  BY <1>2, <1>3, InObjectStays
<1>17. InValue(fs, k, n)'
  BY <1>2, <1>3, <1>7, <1>14, <1>15, <1>16 DEF InValue, o
<1>18. Between(fs, k, n)' /\ InTokens(fs, k, n)'
  BY <1>2 DEF Between, InTokens
<1>19. At(fs, k, n)'
  BY <1>6, <1>17, <1>18 DEF At
<1> QED BY <1>1, <1>2, <1>11, <1>19 DEF Reading, E

(* The newline behind the value, and the object joins its list. *)
LEMMA NewlineStep ==
    ASSUME TypeOK, NEW fs, NEW k, NEW n, Reading(fs, k, n), ConsumeNewline
    PROVE  (\E n2 \in Nat : Reading(fs, k, n2)') /\ pc' # "exited" /\ rv' = rv
<1> DEFINE E == EncodeFrames(fs)
           objs == fs[k + 1].objs
           o == fs[k + 1].objs[n + 1]
<1>1. /\ AgentFrames(fs) /\ Follows(E) /\ k \in 0..Len(fs) /\ n \in Nat
      /\ HandedOn(fs, k) /\ InValue(fs, k, n)
  BY DEF Reading, At
<1>2. /\ pc = "newline" /\ ~Ended /\ Consume(1)
      /\ UNCHANGED <<stream, phase, delivered, cmd>>
  BY DEF ConsumeNewline
<1>3. /\ InObject(fs, k, n) /\ cur.id = o /\ cur.length = o /\ cur.num = o.num
      /\ ReadSoFar = ValueAt(fs, k, n) + o.len
      /\ cur.block # NoBlock => from = IF o.len = 0 THEN {} ELSE {o}
  BY <1>1, <1>2 DEF InValue
<1>4. /\ k < Len(fs) /\ n \in 0..Len(objs) /\ n < Len(objs) /\ cur.kind = o.kind
      /\ cmd = fs[k + 1].cmd /\ frame = FirstStored(objs, n)
  BY <1>3 DEF InObject, InFrame
<1>5. Readable(o) /\ o.len \in Nat /\ o.kind \in Kinds
  <2>1. Readable(o) /\ o.len \in Nat
    BY <1>1, <1>4, ObjectKnown
  <2> QED BY <2>1 DEF Readable
<1>6. HandedOn(fs, k)'
  BY <1>1, <1>2, HandedOnStays
<1>w. 1 \in 1..Len(wire)
  BY <1>2, NextSymbol
<1>7. Follows(E)' /\ ReadSoFar' = ReadSoFar + 1 /\ Next1 = E[ReadSoFar + 1]
  BY <1>1, <1>2, <1>w, Recv
<1>8. Next1.t = "nl" /\ ReadSoFar' = Place(fs, k, n + 1)
  <2>1. Spells(E, Place(fs, k, n), o) /\ Place(fs, k, n + 1) = ValueAt(fs, k, n) + o.len + 1
    BY <1>1, <1>4, ObjectKnown
  <2>2. ValueAt(fs, k, n) = Place(fs, k, n) + o.idlen + Digits(o.len) + 3
    BY Zenon DEF ValueAt
  <2> HIDE DEF E, o
  <2>3. E[ValueAt(fs, k, n) + o.len + 1].t = "nl"
    BY <2>1, <2>2, Zenon DEF Spells
  <2> QED BY <1>3, <1>7, <2>1, <2>3, Zenon
<1>9. CASE cur.block = NoBlock
  <2>1. pc' = "crash" /\ rv' = rv
    BY <1>8, <1>9 DEF ConsumeNewline, Crash
  <2>2. At(fs, k, n)'
    BY <1>2, <2>1, AtReturn DEF Reading
  <2>3. Reading(fs, k, n)'
    BY <1>1, <1>7, <2>2 DEF Reading
  <2> QED BY <1>1, <2>1, <2>3
<1>10. CASE cur.block # NoBlock
  <2>1. pc' = "tag" /\ rv' = rv /\ frame' = AppendObject
    BY <1>8, <1>10 DEF ConsumeNewline, Goto
  <2>2. ReadObject = StoredObject(o)
    <3>1. vallen = o.len
      BY <1>3, <1>5, LengthRead
    <3> QED BY <1>3, <1>10, <3>1 DEF ReadObject, StoredObject
  <2>3. objs \in Seq(Objects)
    <3>1. k + 1 \in 1..Len(fs)
      BY <1>1, <1>4, AgentObjects
    <3> QED BY <1>1, <3>1, AgentObjects
  <2>4. frame' = FirstStored(objs, n + 1)
    <3>1. FirstStored(objs, n + 1) =
            [FirstStored(objs, n) EXCEPT ![o.kind] = Append(@, StoredObject(o))]
      BY <1>4, <1>5, <2>3, FirstStoredStep
    <3>2. frame' = [frame EXCEPT ![o.kind] = Append(@, StoredObject(o))]
      <4> HIDE DEF o
      <4> QED BY <1>4, <2>1, <2>2, Zenon DEF AppendObject
    <3> HIDE DEF o, objs
    <3> QED BY <1>4, <3>1, <3>2, Zenon
  <2>5. n + 1 \in 0..Len(objs) /\ n + 1 \in Nat
    BY <1>4, <2>3
  <2>6. InFrame(fs, k, n + 1)'
    BY <1>2, <1>4, <2>4, <2>5 DEF InFrame
  <2>7. Between(fs, k, n + 1)'
    BY <1>8, <2>1, <2>6 DEF Between
  <2>8. InTokens(fs, k, n + 1)' /\ InValue(fs, k, n + 1)'
    BY <2>1 DEF InTokens, InValue
  <2>9. At(fs, k, n + 1)'
    BY <1>6, <2>7, <2>8 DEF At
  <2>10. Reading(fs, k, n + 1)'
    BY <1>1, <1>7, <2>5, <2>9 DEF Reading
  <2> QED BY <2>1, <2>5, <2>10
<1> QED BY <1>9, <1>10

(* The newline behind "end" *)
LEMMA ReadEndStep ==
    ASSUME TypeOK, NEW fs, NEW k, NEW n, Reading(fs, k, n), ReadEnd
    PROVE  Reading(fs, k, n)' /\ pc' # "exited" /\ rv' = rv
<1> DEFINE E == EncodeFrames(fs)
<1>1. /\ AgentFrames(fs) /\ Follows(E) /\ k \in 0..Len(fs) /\ n \in Nat
      /\ HandedOn(fs, k) /\ Between(fs, k, n)
  BY DEF Reading, At
<1>2. /\ pc = "end" /\ ~Ended /\ Consume(1)
      /\ UNCHANGED <<stream, phase, delivered, cmd, frame>>
  BY DEF ReadEnd
<1>3. InFrame(fs, k, n) /\ n = Len(fs[k + 1].objs) /\ ReadSoFar = Place(fs, k, n) + 1
  BY <1>1, <1>2 DEF Between
<1>4. k < Len(fs)
  BY <1>3 DEF InFrame
<1>5. HandedOn(fs, k)'
  BY <1>1, <1>2, HandedOnStays
<1>w. 1 \in 1..Len(wire)
  BY <1>2, NextSymbol
<1>6. Follows(E)' /\ ReadSoFar' = ReadSoFar + 1 /\ Next1 = E[ReadSoFar + 1]
  BY <1>1, <1>2, <1>w, Recv
<1>7. E[Place(fs, k, n) + 2].t = "nl" /\ Place(fs, k, n) \in Nat
  BY <1>1, <1>3, <1>4, FrameKnown
<1>8. ReadSoFar + 1 = Place(fs, k, n) + 2
  BY <1>3, <1>7
<1>9. Next1.t = "nl"
  BY <1>6, <1>7, <1>8, Zenon
<1>10. pc' = "ready" /\ rv' = rv
  BY <1>9 DEF ReadEnd, Goto
<1>11. InFrame(fs, k, n)'
  BY <1>2, <1>3 DEF InFrame
<1>12. Between(fs, k, n)'
  BY <1>3, <1>6, <1>8, <1>10, <1>11 DEF Between
<1>13. InTokens(fs, k, n)' /\ InValue(fs, k, n)'
  BY <1>10 DEF InTokens, InValue
<1>14. At(fs, k, n)'
  BY <1>5, <1>12, <1>13 DEF At
<1> QED BY <1>1, <1>6, <1>10, <1>14 DEF Reading

(* bw2_connect looks at the first frame. *)
LEMMA HelloStep ==
    ASSUME TypeOK, NEW fs, NEW k, NEW n, Reading(fs, k, n), Hello
    PROVE  /\ Reading(fs, k, n)'
           /\ Conforming(fs) => pc' # "exited" /\ rv' = rv
<1> DEFINE E == EncodeFrames(fs)
           objs == fs[k + 1].objs
<1>1. /\ AgentFrames(fs) /\ Follows(E) /\ k \in 0..Len(fs) /\ n \in Nat
      /\ HandedOn(fs, k) /\ Between(fs, k, n)
  BY DEF Reading, At
<1>2. /\ pc = "ready" /\ phase = "hello"
      /\ UNCHANGED <<stream, wire, phase, delivered, cmd, frame>>
      /\ \/ cmd.key # "helo" /\ Return("UNEXPECTED_FRAME")
         \/ cmd.key = "helo" /\ ~HasHeader("version") /\ Return("MISSING_HEADER")
         \/ Goto("dargs")
  BY DEF Hello
<1>3. InFrame(fs, k, n) /\ n = Len(objs) /\ ReadSoFar = Place(fs, k, n) + 2 /\ k = 0
  BY <1>1, <1>2 DEF Between, HandedOn
<1>4. /\ k < Len(fs) /\ 0 < Len(fs) /\ cmd = fs[k + 1].cmd /\ frame = FirstStored(objs, Len(objs))
  BY <1>3 DEF InFrame
<1>5. CASE Goto("dargs")
  <2>1. HandedOn(fs, k)'
    BY <1>1, <1>2, HandedOnStays
  <2>2. Follows(E)' /\ ReadSoFar' = ReadSoFar
    BY <1>1, <1>2, Stay
  <2>3. FrameAt(fs, k + 1) = Place(fs, k, n) + 2
    BY <1>1, <1>3, <1>4, FrameKnown
  <2>4. pc' = "dargs" /\ rv' = rv
    BY <1>5 DEF Goto
  <2>5. ReadSoFar' = FrameAt(fs, 1)
    <3>1. k + 1 = 1
      BY <1>3
    <3> QED BY <1>3, <2>2, <2>3, <3>1, Zenon
  <2>6. Between(fs, k, n)' /\ InTokens(fs, k, n)' /\ InValue(fs, k, n)'
    BY <1>3, <1>4, <2>4, <2>5 DEF Between, InTokens, InValue
  <2>7. At(fs, k, n)'
    BY <2>1, <2>6 DEF At
  <2> QED BY <1>1, <2>2, <2>4, <2>7 DEF Reading
<1>6. CASE /\ \/ cmd.key # "helo"
              \/ ~HasHeader("version")
           /\ pc' = "exited"
  <2>1. Reading(fs, k, n)'
    BY <1>2, <1>6, ReturnStep
  <2>2. ASSUME Conforming(fs) PROVE FALSE
    <3>1. IsHello(fs[1]) /\ fs[1] = fs[k + 1]
      <4>1. Len(fs) # 0 /\ k + 1 = 1
        BY <1>3, <1>4
      <4> QED BY <2>2, <4>1, Zenon DEF Conforming
    <3>2. PICK i \in 1..Len(objs) : objs[i].kind = "kv" /\ objs[i].key = "version"
      BY <3>1, Zenon DEF IsHello
    <3>3. objs \in Seq(Objects)
      <4>1. k + 1 \in 1..Len(fs)
        BY <1>1, <1>4, AgentObjects
      <4> QED BY <1>1, <4>1, AgentObjects
    <3>4. HasHeader(objs[i].key)
      BY <1>4, <3>2, <3>3, HeaderIsFound
    <3>5. cmd.key = "helo"
      BY <1>4, <3>1, Zenon DEF IsHello
    <3> QED BY <1>6, <3>2, <3>4, <3>5, Zenon
  <2> QED BY <2>1, <2>2
<1> QED BY <1>2, <1>5, <1>6 DEF Return

(* The thread is started. *)
LEMMA StartStep ==
    ASSUME NEW fs, NEW k, NEW n, Reading(fs, k, n), StartDaemon
    PROVE  Reading(fs, k, n)'
<1>1. /\ AgentFrames(fs) /\ Follows(EncodeFrames(fs)) /\ k \in 0..Len(fs) /\ n \in Nat
      /\ HandedOn(fs, k) /\ Between(fs, k, n)
  BY DEF Reading, At
<1>2. /\ pc = "dargs" /\ UNCHANGED <<stream, wire, phase, delivered>>
      /\ pc' \in {"trampoline", "exited", "crash"}
  BY DEF StartDaemon, Goto, Return, Crash
<1>3. CASE pc' = "trampoline"
  <2>1. HandedOn(fs, k)'
    BY <1>1, <1>2, HandedOnStays
  <2>2. Follows(EncodeFrames(fs))' /\ ReadSoFar' = ReadSoFar
    BY <1>1, <1>2, Stay
  <2>3. Between(fs, k, n)' /\ InTokens(fs, k, n)' /\ InValue(fs, k, n)'
    BY <1>1, <1>2, <1>3, <2>2 DEF Between, InTokens, InValue
  <2>4. At(fs, k, n)'
    BY <2>1, <2>3 DEF At
  <2> QED BY <1>1, <2>2, <2>4 DEF Reading
<1> QED BY <1>2, <1>3, ReturnStep

(* The thread takes over, and reads the second frame. *)
LEMMA TrampolineStep ==
    ASSUME NEW fs, NEW k, NEW n, Reading(fs, k, n), Trampoline
    PROVE  Reading(fs, 1, n)' /\ 1 \in 0..Len(fs)
<1>1. /\ AgentFrames(fs) /\ Follows(EncodeFrames(fs)) /\ n \in Nat
      /\ HandedOn(fs, k) /\ Between(fs, k, n)
  BY DEF Reading, At
<1>2. /\ pc = "trampoline" /\ UNCHANGED <<stream, wire, delivered>>
      /\ pc' = "header" /\ phase' = "daemon"
  BY DEF Trampoline, Goto
<1>3. k = 0 /\ 1 \in 0..Len(fs) /\ ReadSoFar = FrameAt(fs, 1)
  <2>1. k = 0 /\ 0 < Len(fs) /\ ReadSoFar = FrameAt(fs, 1)
    BY <1>1, <1>2 DEF Between
  <2> QED BY <1>1, <2>1, AgentObjects
<1>4. Follows(EncodeFrames(fs))' /\ ReadSoFar' = ReadSoFar
  BY <1>1, <1>2, Stay
<1>5. HandedOn(fs, 1)'
  BY <1>1, <1>2, <1>3 DEF HandedOn
<1>6. Between(fs, 1, n)' /\ InTokens(fs, 1, n)' /\ InValue(fs, 1, n)'
  BY <1>2, <1>3, <1>4 DEF Between, InTokens, InValue
<1>7. At(fs, 1, n)'
  BY <1>5, <1>6 DEF At
<1> QED BY <1>1, <1>3, <1>4, <1>7 DEF Reading

(* The frame that was read is handed on, as it was sent. *)
LEMMA HandOnStep ==
    ASSUME TypeOK, NEW fs, NEW k, NEW n, Reading(fs, k, n), HandOn
    PROVE  Reading(fs, k + 1, n)' /\ k + 1 \in 0..Len(fs)
<1> DEFINE e == [cmd |-> cmd, lists |-> frame]
<1>1. /\ AgentFrames(fs) /\ Follows(EncodeFrames(fs)) /\ k \in 0..Len(fs) /\ n \in Nat
      /\ HandedOn(fs, k) /\ Between(fs, k, n)
  BY DEF Reading, At
<1>2. /\ pc = "ready" /\ phase = "daemon" /\ UNCHANGED <<stream, wire, phase>>
      /\ pc' = "header" /\ delivered' = Append(delivered, e)
  BY DEF HandOn, Goto
<1>3. /\ InFrame(fs, k, n) /\ n = Len(fs[k + 1].objs) /\ ReadSoFar = Place(fs, k, n) + 2
      /\ k # 0
  BY <1>1, <1>2 DEF Between, HandedOn
<1>4. /\ k < Len(fs) /\ cmd = fs[k + 1].cmd /\ frame = FirstStored(fs[k + 1].objs, n)
  BY <1>3 DEF InFrame
<1>5. k + 1 \in 0..Len(fs) /\ k + 1 \in 1..Len(fs) /\ k \in Nat
  BY <1>1, <1>4, AgentObjects
<1>6. e = Stored(fs[k + 1])
  <2>1. fs[k + 1].objs \in Seq(Objects)
    BY <1>1, <1>5, AgentObjects
  <2>2. [cmd |-> fs[k + 1].cmd, lists |-> FirstStored(fs[k + 1].objs, Len(fs[k + 1].objs))]
          = Stored(fs[k + 1])
    BY <2>1, FirstStoredAll
  <2> QED BY <1>3, <1>4, <2>2, Zenon
<1>7. Follows(EncodeFrames(fs))' /\ ReadSoFar' = ReadSoFar
  BY <1>1, <1>2, Stay
<1> HIDE DEF e
<1>8. HandedOn(fs, k + 1)'
  <2>1. /\ Len(delivered) = k - 1
        /\ \A i \in 1..Len(delivered) : delivered[i] = Stored(fs[i + 1])
    BY <1>1, <1>3 DEF HandedOn
  <2>2. /\ Len(delivered') = Len(delivered) + 1 /\ Len(delivered) \in Nat
        /\ \A i \in 1..Len(delivered) : delivered'[i] = delivered[i]
        /\ delivered'[Len(delivered) + 1] = e
    BY <1>2 DEF TypeOK
  <2>3. Len(delivered') = k /\ k + 1 # 0 /\ k = (k + 1) - 1
    BY <1>5, <2>1, <2>2
  <2>4. ASSUME NEW i \in 1..Len(delivered') PROVE delivered'[i] = Stored(fs[i + 1])
    <3>1. CASE i \in 1..Len(delivered)
      BY <2>1, <2>2, <3>1, Zenon
    <3>2. CASE i = Len(delivered) + 1
      <4>1. i = k
        BY <1>5, <2>1, <3>2
      <4> QED BY <1>6, <2>2, <3>2, <4>1, Zenon
    <3>3. i \in 1..Len(delivered) \/ i = Len(delivered) + 1
      BY <2>2
    <3> QED BY <3>1, <3>2, <3>3
  <2>5. phase' # "hello" /\ pc' = "header"
    BY <1>2
  <2> QED BY <2>3, <2>4, <2>5 DEF HandedOn
<1>9. ReadSoFar' = FrameAt(fs, k + 1)
  <2>1. FrameAt(fs, k + 1) = Place(fs, k, n) + 2
    BY <1>1, <1>3, <1>4, FrameKnown
  <2> QED BY <1>3, <1>7, <2>1, Zenon
<1>10. Between(fs, k + 1, n)' /\ InTokens(fs, k + 1, n)' /\ InValue(fs, k + 1, n)'
  BY <1>2, <1>9 DEF Between, InTokens, InValue
<1>11. At(fs, k + 1, n)'
  BY <1>8, <1>10 DEF At
<1> QED BY <1>1, <1>5, <1>7, <1>11 DEF Reading

(* The buffer of a token is full: the call does not return. *)
LEMMA TokenFullStep ==
    ASSUME TypeOK, NEW fs, NEW k, NEW n, Reading(fs, k, n), TokenFull
    PROVE  Reading(fs, k, n)'
<1>1. AgentFrames(fs) /\ Follows(EncodeFrames(fs)) /\ k \in 0..Len(fs) /\ n \in Nat
  BY DEF Reading
<1>2. ~Ended /\ Consume(1) /\ UNCHANGED <<stream, delivered>> /\ pc' = "crash"
  BY DEF TokenFull, Crash
<1>3. 1 \in 1..Len(wire)
  BY <1>2, NextSymbol
<1>4. Follows(EncodeFrames(fs))'
  BY <1>1, <1>2, <1>3, Recv
<1>5. At(fs, k, n)'
  BY <1>2, AtReturn DEF Reading
<1> QED BY <1>1, <1>4, <1>5 DEF Reading

(* Nothing happens. *)
LEMMA StutterStep ==
    ASSUME NEW fs, NEW k, NEW n, Reading(fs, k, n), UNCHANGED readerVars
    PROVE  Reading(fs, k, n)'
<1>1. UNCHANGED <<stream, wire, phase, pc, cur, got, from, cmd, frame, delivered>>
  BY DEF readerVars
<1>2. Follows(EncodeFrames(fs))' /\ ReadSoFar' = ReadSoFar
  BY <1>1, Stay DEF Reading
<1>3. \A nn : InFrame(fs, k, nn)' <=> InFrame(fs, k, nn)
  BY <1>1 DEF InFrame
<1>4. InObject(fs, k, n)' <=> InObject(fs, k, n)
  BY <1>1, <1>3 DEF InObject
<1>5. HandedOn(fs, k) => HandedOn(fs, k)'
  BY <1>1 DEF HandedOn
<1>6. Between(fs, k, n) => Between(fs, k, n)'
  BY <1>1, <1>2, <1>3 DEF Between
<1>7. InTokens(fs, k, n) => InTokens(fs, k, n)'
  BY <1>1, <1>2, <1>4 DEF InTokens
<1>8. InValue(fs, k, n) => InValue(fs, k, n)'
  BY <1>1, <1>2, <1>4 DEF InValue
<1>9. At(fs, k, n)'
  BY <1>5, <1>6, <1>7, <1>8 DEF At, Reading
<1> QED BY <1>2, <1>9 DEF Reading

(* The stream of a connection is fixed. *)
LEMMA StreamFixed == [Next]_readerVars => stream' = stream
  BY DEF Next, ReadHeader, HeaderLost, ReadTag, BodyLost, TokenChar, TokenEnd,
         TokenFull, TokenLost, ParseNumber, Allocate, NoSpace, ReadValue,
         SkipValue, ValueDone, ConsumeNewline, ReadEnd, Hello, StartDaemon,
         Trampoline, HandOn, NotConnected, Stopped, readerVars

(* The reader never loses its place in the stream. *)
LEMMA PlaceStep ==
    ASSUME ReaderInv, NEW fs, ReadingOn(fs), [Next]_readerVars
    PROVE  ReadingOn(fs)'
<1>1. PICK k \in 0..Len(fs), n \in Nat : Reading(fs, k, n)
  BY Zenon DEF ReadingOn
<1>2. TypeOK /\ BlockOfValue
  BY DEF ReaderInv
<1>3. AgentFrames(fs)
  BY <1>1 DEF Reading
<1>4. 0 \in Nat
  OBVIOUS
<1>5. ASSUME Reading(fs, k, n)' PROVE ReadingOn(fs)'
  BY <1>1, <1>5, Zenon DEF ReadingOn
<1>6. CASE ReadHeader
  BY <1>1, <1>2, <1>4, <1>6, ReadHeaderStep, Zenon DEF ReadingOn
<1>7. CASE HeaderLost \/ BodyLost \/ TokenLost \/ NotConnected
  <2>1. pc' = "exited" /\ UNCHANGED <<delivered, stream, wire>>
    BY <1>7 DEF HeaderLost, BodyLost, TokenLost, NotConnected, Return, Goto
  <2> QED BY <1>1, <1>5, <2>1, ReturnStep
<1>8. CASE ReadTag
  BY <1>1, <1>2, <1>5, <1>8, ReadTagStep
<1>9. CASE TokenChar
  BY <1>1, <1>2, <1>5, <1>9, TokenCharStep
<1>10. CASE TokenEnd
  BY <1>1, <1>2, <1>5, <1>10, TokenEndStep
<1>11. CASE TokenFull
  BY <1>1, <1>2, <1>5, <1>11, TokenFullStep
<1>12. CASE ParseNumber
  BY <1>1, <1>2, <1>5, <1>12, ParseNumberStep
<1>13. CASE Allocate \/ NoSpace \/ ValueDone
  BY <1>1, <1>2, <1>5, <1>13, AllocateStep
<1>14. CASE ReadValue \/ SkipValue
  BY <1>1, <1>2, <1>5, <1>14, ReadValueStep
<1>15. CASE ConsumeNewline
  <2>1. \E n2 \in Nat : Reading(fs, k, n2)'
    BY <1>1, <1>2, <1>15, NewlineStep
  <2> QED BY <1>1, <2>1, Zenon DEF ReadingOn
<1>16. CASE ReadEnd
  BY <1>1, <1>2, <1>5, <1>16, ReadEndStep
<1>17. CASE Hello
  BY <1>1, <1>2, <1>5, <1>17, HelloStep
<1>18. CASE StartDaemon
  BY <1>1, <1>5, <1>18, StartStep
<1>19. CASE Trampoline
  BY <1>1, <1>19, TrampolineStep, Zenon DEF ReadingOn
<1>20. CASE HandOn
  BY <1>1, <1>2, <1>20, HandOnStep, Zenon DEF ReadingOn
<1>21. CASE Stopped \/ UNCHANGED readerVars
  BY <1>1, <1>5, <1>21, StutterStep DEF Stopped
<1> QED BY <1>6, <1>7, <1>8, <1>9, <1>10, <1>11, <1>12, <1>13, <1>14, <1>15, <1>16,
           <1>17, <1>18, <1>19, <1>20, <1>21 DEF Next

(* Reading starts at the first frame. *)
LEMMA PlaceInit ==
    ASSUME Init, NEW fs, fs = stream.sent, FromAgent(stream)
    PROVE  ReadingOn(fs)
<1> DEFINE E == EncodeFrames(fs)
<1>1. AgentFrames(fs) /\ IsPrefix(stream.wire, E)
  BY Zenon DEF FromAgent
<1>2. wire = stream.wire /\ stream.wire \in Seq(WireSymbols) /\ Len(wire) \in Nat
  BY FrameAssumption DEF Init
<1>3. FrameAt(fs, 0) = 0 /\ E \in Seq(Symbols(Text \cup {Nothing})) /\ Len(E) \in Nat
  BY <1>1, FramesKnown
<1>4. ReadSoFar = 0
  BY <1>2 DEF ReadSoFar
<1>5. Len(wire) <= Len(E) /\ \A i \in 1..Len(wire) : wire[i] = E[i]
  <2> HIDE DEF E
  <2>1. Len(wire) <= Len(E) /\ SubSeq(wire, 1, Len(wire)) = SubSeq(E, 1, Len(wire))
    BY <1>1, <1>2, <1>3 DEF IsPrefix
  <2>2. ASSUME NEW i \in 1..Len(wire) PROVE wire[i] = E[i]
    <3>1. SubSeq(wire, 1, Len(wire))[i] = wire[i] /\ SubSeq(E, 1, Len(wire))[i] = E[i]
      BY <1>2, <1>3, <2>1
    <3> QED BY <2>1, <3>1
  <2> QED BY <2>1, <2>2
<1>6. Follows(E)
  <2> HIDE DEF E
  <2>1. ReadSoFar + Len(wire) = Len(wire) /\ \A i \in 1..Len(wire) : ReadSoFar + i = i
    BY <1>2, <1>4
  <2> QED BY <1>2, <1>4, <1>5, <2>1 DEF Follows
<1>7. At(fs, 0, 0)
  <2>1. HandedOn(fs, 0)
    BY DEF Init, HandedOn
  <2>2. Between(fs, 0, 0) /\ InTokens(fs, 0, 0) /\ InValue(fs, 0, 0)
    BY <1>3, <1>4 DEF Init, Between, InTokens, InValue
  <2> QED BY <2>1, <2>2 DEF At
<1>8. 0 \in 0..Len(fs) /\ 0 \in Nat
  BY <1>1, AgentObjects
<1>9. Reading(fs, 0, 0)
  BY <1>1, <1>6, <1>7, <1>8 DEF Reading
<1> QED BY <1>8, <1>9, Zenon DEF ReadingOn

(* The inductive invariant of the stream of an agent *)
PlaceInv == ReaderInv /\ \E fs : fs = stream.sent /\ ReadingOn(fs)

(* bw2_readFrame stays in step with what the agent sent. *)
LEMMA PlaceInvariant == Spec /\ FromAgent(stream) => []PlaceInv
<1>1. Init /\ FromAgent(stream) => PlaceInv
  <2> SUFFICES ASSUME Init, FromAgent(stream) PROVE PlaceInv
    OBVIOUS
  <2>1. PICK fs : fs = stream.sent
    OBVIOUS
  <2>2. ReadingOn(fs)
    BY <2>1, PlaceInit
  <2> QED BY <2>1, <2>2, ReaderInit DEF PlaceInv
<1>2. PlaceInv /\ [Next]_readerVars => PlaceInv'
  <2> SUFFICES ASSUME PlaceInv, [Next]_readerVars PROVE PlaceInv'
    OBVIOUS
  <2>1. PICK fs : fs = stream.sent /\ ReadingOn(fs)
    BY DEF PlaceInv
  <2>2. ReadingOn(fs)'
    BY <2>1, PlaceStep DEF PlaceInv
  <2>3. fs = stream'.sent
    BY <2>1, StreamFixed
  <2>4. ReaderInv'
    BY ReaderTypeStep, HeapStep, ValueStep, LiveStep, HeldStep DEF ReaderInv, PlaceInv
  <2> QED BY <2>2, <2>3, <2>4 DEF PlaceInv
<1> QED BY <1>1, <1>2, PTL DEF Spec

(* However recv cuts the stream of an agent, and wherever it ends: the      *)
(* frames bw2_daemon hands on are those sent behind the hello, in order,    *)
(* with every object in its list, its own bytes and its number.             *)
THEOREM FramesArriveAsSent == Spec /\ FromAgent(stream) => []DeliveredAsSent
<1>1. PlaceInv => DeliveredAsSent
  <2> SUFFICES ASSUME PlaceInv PROVE DeliveredAsSent
    OBVIOUS
  <2>1. PICK fs : fs = stream.sent /\ ReadingOn(fs)
    BY DEF PlaceInv
  <2>2. PICK k \in 0..Len(fs), n \in Nat : Reading(fs, k, n)
    BY <2>1, Zenon DEF ReadingOn
  <2>3. /\ Len(delivered) = IF k = 0 THEN 0 ELSE k - 1
        /\ \A i \in 1..Len(delivered) : delivered[i] = Stored(fs[i + 1])
    BY <2>2 DEF Reading, At, HandedOn
  <2>4. delivered \in Seq([cmd : Text, lists : Lists])
    BY DEF PlaceInv, ReaderInv, TypeOK
  <2>5. DOMAIN delivered = 1..Len(delivered) /\ (Len(delivered) = 0 => delivered = <<>>)
    BY <2>4
  <2>6. Len(fs) \in Nat
    BY <2>2, AgentObjects DEF Reading
  <2>7. Len(delivered) < Len(fs) \/ delivered = <<>>
    BY <2>2, <2>3, <2>5, <2>6
  <2> QED BY <2>1, <2>3, <2>5, <2>7, Zenon DEF DeliveredAsSent
<1> QED BY <1>1, PlaceInvariant, PTL

-----------------------------------------------------------------------------
(* How reading ends *)

(* A step that returns nothing leaves the outcome open. *)
LEMMA NoReturn ==
    ASSUME Outcome, pc # "exited", rv' = rv
    PROVE  Outcome'
BY DEF Outcome

(* Of a stream whose numbers have the accepted forms, and which begins with *)
(* a hello, bw2_readFrame gives up nothing but the cut off end.             *)
LEMMA OutcomeStep ==
    ASSUME ReaderInv, NEW fs, ReadingOn(fs), Conforming(fs), Outcome, [Next]_readerVars
    PROVE  Outcome'
<1>1. PICK k \in 0..Len(fs), n \in Nat : Reading(fs, k, n)
  BY Zenon DEF ReadingOn
<1>2. TypeOK /\ BlockOfValue
  BY DEF ReaderInv
<1>3. CASE HeaderLost \/ BodyLost \/ TokenLost
  <2>1. pc' = "exited" /\ wire' = <<>>
    BY <1>3 DEF HeaderLost, BodyLost, TokenLost, Return, Ended
  <2> QED BY <2>1 DEF Outcome
<1>4. CASE ReadHeader
  <2>1. pc = "header"
    BY <1>4 DEF ReadHeader
  <2> QED BY <1>1, <1>2, <1>4, <2>1, ReadHeaderStep, NoReturn
<1>5. CASE ReadTag
  <2>1. pc = "tag"
    BY <1>5 DEF ReadTag
  <2> QED BY <1>1, <1>2, <1>5, <2>1, ReadTagStep, NoReturn
<1>6. CASE ConsumeNewline
  <2>1. pc = "newline"
    BY <1>6 DEF ConsumeNewline
  <2> QED BY <1>1, <1>2, <1>6, <2>1, NewlineStep, NoReturn
<1>7. CASE ReadEnd
  <2>1. pc = "end"
    BY <1>7 DEF ReadEnd
  <2> QED BY <1>1, <1>2, <1>7, <2>1, ReadEndStep, NoReturn
<1>8. CASE ParseNumber
  <2>1. pc = "parse"
    BY <1>8 DEF ParseNumber
  <2> QED BY <1>1, <1>2, <1>8, <2>1, ParseNumberStep, NoReturn
<1>9. CASE Hello
  <2>1. pc = "ready"
    BY <1>9 DEF Hello
  <2> QED BY <1>1, <1>2, <1>9, <2>1, HelloStep, NoReturn
<1>10. CASE \/ TokenChar \/ TokenEnd \/ TokenFull \/ Allocate \/ NoSpace \/ ReadValue
            \/ SkipValue \/ ValueDone \/ Trampoline \/ HandOn \/ NotConnected
  <2>1. pc # "exited" /\ rv' = rv
    BY <1>10 DEF TokenChar, TokenEnd, TokenFull, Allocate, NoSpace, ReadValue,
                 SkipValue, ValueDone, Trampoline, HandOn, NotConnected, Goto, Crash
  <2> QED BY <2>1, NoReturn
<1>11. CASE StartDaemon
  <2>1. pc = "dargs" /\ (rv' = rv \/ (rv' = "THREAD" /\ pc' = "exited"))
    BY <1>11 DEF StartDaemon, Goto, Crash, Return
  <2>2. CASE rv' = "THREAD" /\ pc' = "exited"
    BY <2>2 DEF Outcome
  <2> QED BY <2>1, <2>2, NoReturn
<1>12. CASE Stopped \/ UNCHANGED readerVars
  BY <1>12 DEF Stopped, Outcome, readerVars
<1> QED BY <1>3, <1>4, <1>5, <1>6, <1>7, <1>8, <1>9, <1>10, <1>11, <1>12 DEF Next

(* The outcome on a well-formed stream *)
EndInv == stream.valid => Outcome /\ \E fs : fs = stream.sent /\ Conforming(fs)

(* When bw2_readFrame or bw2_connect fails on a stream of acceptable frames *)
(* that begins with a hello, it has taken everything that arrived: no text, *)
(* length or cut between two recv calls makes it lose its place.            *)
THEOREM GivesUpAtEnd ==
    Spec /\ FromAgent(stream) /\ (stream.valid => Conforming(stream.sent)) => []FailsAtEnd
<1>1. Init /\ (stream.valid => Conforming(stream.sent)) => EndInv
  <2> SUFFICES ASSUME Init, stream.valid, Conforming(stream.sent)
               PROVE  Outcome /\ \E fs : fs = stream.sent /\ Conforming(fs)
    BY Zenon DEF EndInv
  <2>1. Outcome
    BY DEF Init, Outcome
  <2> QED BY <2>1, Zenon
<1>2. PlaceInv /\ EndInv /\ [Next]_readerVars => EndInv'
  <2> SUFFICES ASSUME PlaceInv, EndInv, [Next]_readerVars, stream'.valid
               PROVE  Outcome' /\ \E fs : fs = stream'.sent /\ Conforming(fs)
    BY Zenon DEF EndInv
  <2>1. stream' = stream
    BY StreamFixed
  <2>2. Outcome /\ stream.valid
    BY <2>1 DEF EndInv
  <2>3. PICK fs : fs = stream.sent /\ ReadingOn(fs) /\ ReaderInv
    BY Zenon DEF PlaceInv
  <2>4. Conforming(fs)
    BY <2>2, <2>3, Zenon DEF EndInv
  <2>5. Outcome'
    BY <2>2, <2>3, <2>4, OutcomeStep
  <2>6. fs = stream'.sent
    BY <2>1, <2>3
  <2> QED BY <2>4, <2>5, <2>6, Zenon
<1>3. EndInv => FailsAtEnd
  BY DEF EndInv, Outcome, FailsAtEnd, Ended
<1> QED BY <1>1, <1>2, <1>3, PlaceInvariant, PTL DEF Spec

-----------------------------------------------------------------------------
(* Memory that suffices *)

(* Every object fits the buffers for its tokens, and a size_t. *)
StorableFrames(fs) ==
    \A k \in 1..Len(fs) : \A i \in 1..Len(fs[k].objs) :
        Storable(fs[k].objs[i]) /\ Digits(fs[k].objs[i].len) < MaxDigits

(* No value is dropped, so every object read has its block. *)
Kept == /\ pc \notin {"skip", "crash"} /\ ~UseHeap /\ ~setting.malloc
        /\ pc = "newline" => cur.block # NoBlock

(* With malloc that succeeds, every value is kept. *)
LEMMA KeptStep ==
    ASSUME ReaderInv, NEW fs, ReadingOn(fs), Conforming(fs), StorableFrames(fs), Kept,
           [Next]_readerVars
    PROVE  Kept'
<1>1. PICK k \in 0..Len(fs), n \in Nat : Reading(fs, k, n)
  BY Zenon DEF ReadingOn
<1>2. TypeOK /\ BlockOfValue
  BY DEF ReaderInv
<1>u. ~UseHeap' /\ ~setting'.malloc /\ ~UseHeap /\ ~setting.malloc /\ pc \notin {"skip", "crash"}
  BY SettingFixed DEF Kept
<1> DEFINE o == fs[k + 1].objs[n + 1]
<1>3. ASSUME InObject(fs, k, n)
      PROVE  /\ Readable(o) /\ o.idlen \in Nat /\ o.idlen < MaxId[o.kind] /\ Parses(o) /\ cur.kind = o.kind
             /\ StructSize[o.kind] + o.idlen + 1 + o.len < SizeMax
             /\ Digits(o.len) \in Nat /\ Digits(o.len) < MaxDigits
  <2>1. /\ k < Len(fs) /\ n \in 0..Len(fs[k + 1].objs) /\ n < Len(fs[k + 1].objs)
        /\ cur.kind = o.kind
    BY <1>3 DEF InObject, InFrame
  <2>2. AgentFrames(fs)
    BY <1>1 DEF Reading
  <2>3. k + 1 \in 1..Len(fs) /\ n + 1 \in 1..Len(fs[k + 1].objs)
    BY <2>1, <2>2, AgentObjects
  <2>4. Readable(o) /\ o.idlen \in Nat /\ Digits(o.len) \in Nat
    BY <2>1, <2>2, ObjectKnown
  <2>5. Parses(o) /\ Storable(o) /\ Digits(o.len) < MaxDigits
    BY <2>3, Zenon DEF Conforming, StorableFrames
  <2> HIDE DEF o
  <2> QED BY <2>1, <2>4, <2>5, Zenon DEF Storable
<1>4. CASE TokenFull
  <2>1. pc \in {"id", "length"} /\ got = Room
    BY <1>4 DEF TokenFull
  <2>2. InTokens(fs, k, n)
    BY <1>1 DEF Reading, At
  <2>3. CASE pc = "id"
    <3>1. InObject(fs, k, n) /\ got <= o.idlen
      BY <2>2, <2>3 DEF InTokens
    <3>2. got = MaxId[o.kind] /\ MaxId[o.kind] \in Nat
      <4>1. o.kind \in Kinds
        BY <1>3, <3>1 DEF Readable
      <4>2. MaxId[o.kind] \in Nat
        BY <4>1, FrameAssumption
      <4> QED BY <1>3, <2>1, <2>3, <3>1, <4>2 DEF Room
    <3> HIDE DEF o
    <3> QED BY <1>3, <3>1, <3>2
  <2>4. CASE pc = "length"
    <3>1. InObject(fs, k, n) /\ got <= Digits(o.len)
      BY <2>2, <2>4 DEF InTokens
    <3>2. got = MaxDigits /\ MaxDigits \in Nat
      BY <2>1, <2>4, FrameAssumption DEF Room
    <3> HIDE DEF o
    <3> QED BY <1>3, <3>1, <3>2
  <2> QED BY <2>1, <2>3, <2>4
<1>5. CASE ParseNumber
  <2>1. pc = "parse" /\ InValue(fs, k, n)
    BY <1>1, <1>5 DEF ParseNumber, Reading, At
  <2>2. InObject(fs, k, n) /\ cur.id = o
    BY <2>1 DEF InValue
  <2>3. cur.kind = "po" => cur.id.colon # "none"
    BY <1>3, <2>2 DEF Parses
  <2>4. pc' \in {"alloc", "exited"}
    BY <1>5, <2>3 DEF ParseNumber, Goto, Return
  <2> QED BY <1>u, <2>4 DEF Kept
<1>6. CASE NoSpace
  <2>1. pc = "alloc" /\ InValue(fs, k, n) /\ ~NoOverflow
    BY <1>1, <1>6, <1>u DEF NoSpace, Reading, At
  <2>2. InObject(fs, k, n) /\ cur.idlen = o.idlen /\ cur.length = o
    BY <2>1 DEF InValue
  <2>3. vallen = o.len
    BY <1>3, <2>2, LengthRead
  <2>4. StructSize[o.kind] \in Nat /\ o.len \in Nat /\ SizeMax \in Nat \ {0}
    BY <1>3, <2>2, FrameAssumption DEF Readable
  <2> HIDE DEF o
  <2>5. PICK a \in Nat, b \in Nat, c \in Nat :
           a = StructSize[o.kind] /\ b = o.idlen /\ c = o.len /\ a + b + 1 + c < SizeMax
    BY <1>3, <2>2, <2>4
  <2>6. Overhead = a + (b + 1) \/ Overhead = a + 0
    BY <1>3, <2>2, <2>5 DEF Overhead
  <2>7. Overhead + vallen \in Nat /\ Overhead + vallen < SizeMax /\ vallen <= Overhead + vallen
    <3>1. vallen = c
      BY <2>3, <2>5
    <3>2. PICK x \in Nat : x = Overhead /\ x <= a + b + 1
      BY <2>6
    <3>3. x + c \in Nat /\ x + c < SizeMax /\ c <= x + c
      <4>1. \A x1, c1, y1, M1 \in Nat :
               x1 <= y1 /\ y1 + c1 < M1 => x1 + c1 \in Nat /\ x1 + c1 < M1 /\ c1 <= x1 + c1
        OBVIOUS
      <4>2. a + b + 1 \in Nat /\ SizeMax \in Nat
        BY <2>4
      <4> QED BY <2>5, <3>2, <4>1, <4>2, Zenon
    <3> QED BY <3>1, <3>2, <3>3, Zenon
  <2>8. ObjectSize = Overhead + vallen
    <3>1. \A x, M \in Nat : x < M => x % M = x
      OBVIOUS
    <3> QED BY <2>4, <2>7, <3>1 DEF ObjectSize
  <2> QED BY <2>1, <2>7, <2>8 DEF NoOverflow
<1>7. CASE ValueDone
  <2>1. pc = "value" /\ pc' = "newline" /\ cur' = cur
    BY <1>7, <1>u DEF ValueDone, Goto
  <2>2. cur.block # NoBlock
    BY <1>2, <2>1 DEF BlockOfValue, NoBlock
  <2> QED BY <1>u, <2>1, <2>2 DEF Kept
<1>8. CASE ConsumeNewline
  <2>1. cur.block # NoBlock
    BY <1>8 DEF ConsumeNewline, Kept
  <2>2. pc' \in {"tag", "exited"}
    BY <1>8, <2>1 DEF ConsumeNewline, Goto, Return
  <2> QED BY <1>u, <2>2 DEF Kept
<1>9. CASE \/ ReadHeader \/ HeaderLost \/ ReadTag \/ BodyLost \/ TokenChar \/ TokenEnd
           \/ TokenLost \/ Allocate \/ ReadValue \/ ReadEnd \/ Hello \/ StartDaemon
           \/ Trampoline \/ HandOn \/ NotConnected
  <2>1. pc' \notin {"skip", "crash", "newline"}
    BY <1>9, <1>u DEF ReadHeader, HeaderLost, ReadTag, BodyLost, TokenChar, TokenEnd,
           TokenLost, Allocate, ReadValue, ReadEnd, Hello, StartDaemon, Trampoline,
           HandOn, NotConnected, Goto, Return, Crash
  <2> QED BY <1>u, <2>1 DEF Kept
<1>10. CASE SkipValue
  BY <1>10, <1>u DEF SkipValue
<1>11. CASE Stopped \/ UNCHANGED readerVars
  <2>1. pc' = pc /\ cur' = cur
    BY <1>11 DEF Stopped, readerVars
  <2> QED BY <1>u, <2>1 DEF Kept
<1> QED BY <1>4, <1>5, <1>6, <1>7, <1>8, <1>9, <1>10, <1>11 DEF Next

(* ... of a stream the reader accepts *)
KeptInv == Kept /\ \E fs : fs = stream.sent /\ Conforming(fs) /\ StorableFrames(fs)

(* With malloc that succeeds, a stream of acceptable frames whose objects   *)
(* fit the token buffers and a size_t never makes bw2_readFrame, or the     *)
(* start of the thread, write through a NULL pointer.                       *)
THEOREM NoNullWithMemory ==
    Spec /\ FromAgent(stream) /\ Conforming(stream.sent) /\ StorableFrames(stream.sent)
      /\ ~UseHeap /\ ~setting.malloc => []NoCrash
<1>1. Init /\ Conforming(stream.sent) /\ StorableFrames(stream.sent)
        /\ ~UseHeap /\ ~setting.malloc => KeptInv
  <2> SUFFICES ASSUME Init, Conforming(stream.sent), StorableFrames(stream.sent),
                      ~UseHeap, ~setting.malloc
               PROVE  KeptInv
    BY Zenon
  <2>1. Kept
    BY DEF Init, Kept
  <2> QED BY <2>1, Zenon DEF KeptInv
<1>2. PlaceInv /\ KeptInv /\ [Next]_readerVars => KeptInv'
  <2> SUFFICES ASSUME PlaceInv, KeptInv, [Next]_readerVars PROVE KeptInv'
    OBVIOUS
  <2>1. stream' = stream
    BY StreamFixed
  <2>2. PICK fs : fs = stream.sent /\ ReadingOn(fs) /\ ReaderInv
    BY Zenon DEF PlaceInv
  <2>3. Kept /\ Conforming(fs) /\ StorableFrames(fs)
    BY <2>2, Zenon DEF KeptInv
  <2>4. Kept'
    BY <2>2, <2>3, KeptStep
  <2>5. fs = stream'.sent
    BY <2>1, <2>2
  <2> QED BY <2>3, <2>4, <2>5, Zenon DEF KeptInv
<1>3. KeptInv => NoCrash
  BY DEF KeptInv, Kept, NoCrash
<1> QED BY <1>1, <1>2, <1>3, PlaceInvariant, PTL DEF Spec

-----------------------------------------------------------------------------
(* The objects that frame.c itself writes are such objects: what a client   *)
(* publishes, another one reads with the number it was given.               *)
LEMMA WrittenObjectsReadable ==
    ASSUME NEW key, NEW keylen \in Nat \ {0}, NEW num \in Nat,
           NEW len \in 0..(SizeMax - 1), NEW blob
    PROVE  /\ /\ Readable(KvObject(key, keylen, len, blob))
              /\ Parses(KvObject(key, keylen, len, blob))
           /\ num < PoMax /\ num < UllMax =>
                 Readable(PoObject(num, len, blob)) /\ Parses(PoObject(num, len, blob))
           /\ num < Octet =>
                 Readable(RoObject(num, len, blob)) /\ Parses(RoObject(num, len, blob))
<1>m. \A x, M \in Nat : x < M => x % M = x
  OBVIOUS
<1>o. Octet \in Nat /\ Octet * Octet * Octet * Octet \in Nat
  BY FrameAssumption
<1>d. Digits(num) \in Nat \ {0} /\ 1 + Digits(num) \in Nat \ {0}
  BY DigitsValue
<1>1. Readable(KvObject(key, keylen, len, blob)) /\ Parses(KvObject(key, keylen, len, blob))
  BY DEF KvObject, Object, Readable, NumberRight, Parses, Kinds
<1>2. ASSUME num < PoMax, num < UllMax
      PROVE  Readable(PoObject(num, len, blob)) /\ Parses(PoObject(num, len, blob))
  <2> DEFINE o == PoObject(num, len, blob)
  <2>1. /\ o.kind = "po" /\ o.idlen = 1 + Digits(num) /\ o.len = len /\ o.colon = "first"
        /\ o.fields[1] = num /\ o.num = num
    BY DEF PoObject, Object
  <2>2. num % (Octet * Octet * Octet * Octet) = num
    BY <1>2, <1>m, <1>o, Zenon DEF PoMax
  <2> HIDE DEF o
  <2>3. NumberRight(o)
    BY <2>1, <2>2 DEF NumberRight
  <2>4. Readable(o)
    BY <1>d, <2>1, <2>3 DEF Readable, Kinds
  <2>5. Parses(o)
    BY <1>2, <2>1 DEF Parses
  <2> QED BY <2>4, <2>5 DEF o
<1>3. ASSUME num < Octet
      PROVE  Readable(RoObject(num, len, blob)) /\ Parses(RoObject(num, len, blob))
  <2> DEFINE o == RoObject(num, len, blob)
  <2>1. /\ o.kind = "ro" /\ o.idlen = Digits(num) /\ o.len = len
        /\ o.fields[1] = num /\ o.num = num
    BY DEF RoObject, Object
  <2>2. num % Octet = num
    BY <1>3, <1>m, <1>o
  <2> HIDE DEF o
  <2>3. NumberRight(o)
    BY <2>1, <2>2 DEF NumberRight
  <2>4. Readable(o)
    BY <1>d, <2>1, <2>3 DEF Readable, Kinds
  <2>5. Parses(o)
    BY <2>1 DEF Parses
  <2> QED BY <2>4, <2>5 DEF o
<1> QED BY <1>1, <1>2, <1>3
=============================================================================
