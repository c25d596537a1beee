----------------------------- MODULE OobFormat ------------------------------
(***************************************************************************)
(* The layout of OOB frames on the wire, as frame.c writes and reads it:    *)
(*     cmd length seqno\n  (kv key length\n value\n | po :num length\n ...  *)
(*     | ro num length\n ...)*  end\n                                       *)
(* in symbols [t, o]: one for the 27 byte frame header, one for each 3 byte *)
(* tag (and "end"), one for every other byte.                               *)
(***************************************************************************)
EXTENDS Naturals, Sequences, FiniteSets, SequencesExt

(* An object: its key or number (idlen characters; a PO number has a colon  *)
(* in front of it, or after the fields of a dot form), the length and the   *)
(* identity of its value.  A frame header is one, too: its key is the       *)
(* command, num the sequence number and len the stated length.              *)
Object(kind, key, idlen, colon, fields, num, len, blob) ==
    [kind |-> kind, key |-> key, idlen |-> idlen, colon |-> colon,
     fields |-> fields, num |-> num, len |-> len, blob |-> blob]

Nothing == Object("none", "none", 0, "none", <<0>>, 0, 0, "none")

(* The number of decimal digits of n *)
TenTo[d \in Nat] == IF d = 0 THEN 1 ELSE 10 * TenTo[d - 1]
Digits(n) == CHOOSE d \in 1..(n + 1) : (d = 1 \/ TenTo[d - 1] <= n) /\ n < TenTo[d]

KvObject(key, keylen, len, blob) ==
    Object("kv", key, keylen, "none", <<0>>, 0, len, blob)
PoObject(num, len, blob) ==
    Object("po", "none", 1 + Digits(num), "first", <<num>>, num, len, blob)
RoObject(num, len, blob) ==
    Object("ro", "none", Digits(num), "none", <<num>>, num, len, blob)

-----------------------------------------------------------------------------
Sym(t) == [t |-> t, o |-> Nothing]
Run(n, t, o) == [i \in 1..n |-> [t |-> t, o |-> o]]

LocalHeader(o) ==
    <<Sym(o.kind)>> \o Run(o.idlen, "ch", o) \o <<Sym("sp")>>
      \o Run(Digits(o.len), "ch", o) \o <<Sym("nl")>>
Value(o) == Run(o.len, "by", o)
EncodeObject(o) == LocalHeader(o) \o Value(o) \o <<Sym("nl")>>

EncodeBody(objs) ==
    FlattenSeq([i \in DOMAIN objs |-> EncodeObject(objs[i])])
      \o <<Sym("end"), Sym("nl")>>

(* The number of bytes of a run of symbols without frame headers. *)
Bytes(syms) ==
    Len(syms) + 2 * Cardinality({i \in DOMAIN syms :
                                    syms[i].t \in {"kv", "po", "ro", "end"}})

(* A frame: its header, with the length of what follows, and its objects. *)
Frame(command, seqno, objs) ==
    [cmd |-> Object("hdr", command, 0, "none", <<0>>, seqno,
                    Bytes(EncodeBody(objs)), "none"),
     objs |-> objs]

EncodeFrame(f) == <<[t |-> "hdr", o |-> f.cmd]>> \o EncodeBody(f.objs)
EncodeFrames(fs) == FlattenSeq([i \in DOMAIN fs |-> EncodeFrame(fs[i])])
=============================================================================
