-------------------------- MODULE FrameWriterProofs --------------------------
(* Theorems about FrameWriter, for any calls and programs: the lists of     *)
(* headers stay inside the memory of their call, and, as long as send       *)
(* accepts whole arrays, the wire carries the frames that were asked for.   *)
EXTENDS FrameWriter, FormatProofs

-----------------------------------------------------------------------------
(* The headers an API function adds *)

Blobs == Hashes \cup Texts
Values == [size : Nat, strlen : Nat, blob : Blobs]
Entries == [node : Nodes, key : Keys, value : Values]

(* The length of a value is passed exactly if it is a hash. *)
Sized(v) == v.blob \in Hashes <=> v.size # 0

(* The memory whose headers a call may write *)
Own(c) == Stack(c) \cup Lists(c)

(* A list of headers in that memory, none of them twice *)
HeaderList(c, s) ==
    /\ s \in Seq(Entries)
    /\ \A i \in 1..Len(s) : s[i].node \in Own(c) /\ Sized(s[i].value)
    /\ \A i, j \in 1..Len(s) : s[i].node = s[j].node => i = j

(* The headers in the stack variables K; "list" stands for the structures. *)
Slots(c, K) == {<<c, k>> : k \in K \cap Keys} \cup (IF "list" \in K THEN Lists(c) ELSE {})
Piece(c, s, K) == HeaderList(c, s) /\ \A i \in 1..Len(s) : s[i].node \in Slots(c, K)

(* Every call has parameters of the assumed form. *)
LEMMA ParamsForm ==
    ASSUME params \in Programs, NEW c \in Calls
    PROVE  /\ IsRequest(params[c]) /\ Lists(c) \subseteq Hashes /\ Own(c) \subseteq Nodes
           /\ \A k \in Keys : <<c, k>> \in Stack(c) /\ <<c, k>> \notin Hashes
<1>1. IsRequest(params[c])
  BY WriterAssumption
<1>2. Lists(c) \subseteq Hashes
  BY <1>1 DEF IsRequest, Lists
<1>3. Stack(c) \subseteq Nodes /\ Hashes \subseteq Nodes
  BY DEF Nodes
<1>4. \A k \in Keys : <<c, k>> \in Stack(c)
  BY DEF Stack
<1>5. \A x \in Stack(c) : x \notin Hashes
  BY WriterAssumption
<1> QED BY <1>1, <1>2, <1>3, <1>4, <1>5 DEF Own

(* Nothing is a piece for any variables. *)
LEMMA PieceEmpty ==
    ASSUME NEW c, NEW K PROVE Piece(c, <<>>, K)
  BY DEF Piece, HeaderList

(* One header in a stack variable *)
LEMMA PieceOne ==
    ASSUME params \in Programs, NEW c \in Calls, NEW k \in Keys, NEW key \in Keys,
           NEW v \in Values, Sized(v)
    PROVE  Piece(c, At(<<c, k>>, key, v), {k})
<1> DEFINE e == [node |-> <<c, k>>, key |-> key, value |-> v]
<1>1. <<c, k>> \in Nodes /\ <<c, k>> \in Own(c)
  BY ParamsForm DEF Own
<1>2. e \in Entries /\ e.node \in Own(c) /\ Sized(e.value) /\ e.node \in Slots(c, {k})
  BY <1>1 DEF Entries, Slots
<1>3. At(<<c, k>>, key, v) = <<e>>
  BY DEF At
<1> HIDE DEF e
<1>4. <<e>> \in Seq(Entries) /\ Len(<<e>>) = 1 /\ \A i \in 1..1 : i = 1 /\ <<e>>[i] = e
  BY <1>2
<1> QED BY <1>2, <1>3, <1>4 DEF Piece, HeaderList

(* Pieces in different variables can be joined. *)
LEMMA PieceJoin ==
    ASSUME params \in Programs, NEW c \in Calls, NEW K, NEW L, NEW s, NEW t,
           Piece(c, s, K), Piece(c, t, L), K \cap L = {}
    PROVE  Piece(c, s \o t, K \cup L)
<1>0. /\ s \in Seq(Entries) /\ t \in Seq(Entries)
      /\ \A i \in 1..Len(s) : s[i].node \in Own(c) /\ Sized(s[i].value) /\ s[i].node \in Slots(c, K)
      /\ \A i \in 1..Len(t) : t[i].node \in Own(c) /\ Sized(t[i].value) /\ t[i].node \in Slots(c, L)
      /\ \A i, j \in 1..Len(s) : s[i].node = s[j].node => i = j
      /\ \A i, j \in 1..Len(t) : t[i].node = t[j].node => i = j
  BY DEF Piece, HeaderList
<1>1. Slots(c, K) \cap Slots(c, L) = {}
  BY ParamsForm DEF Slots
<1>2. Slots(c, K) \cup Slots(c, L) \subseteq Slots(c, K \cup L)
  BY DEF Slots
<1> DEFINE u == s \o t
<1>3. u \in Seq(Entries) /\ Len(u) = Len(s) + Len(t) /\ Len(s) \in Nat /\ Len(t) \in Nat
  BY <1>0
<1>4. ASSUME NEW i \in 1..Len(u)
      PROVE  \/ i \in 1..Len(s) /\ u[i] = s[i]
             \/ i - Len(s) \in 1..Len(t) /\ u[i] = t[i - Len(s)]
  BY <1>0, <1>3
<1> HIDE DEF u
<1>5. \A i \in 1..Len(u) : u[i].node \in Own(c) /\ Sized(u[i].value) /\ u[i].node \in Slots(c, K \cup L)
  BY <1>0, <1>2, <1>4
<1>6. ASSUME NEW i \in 1..Len(u), NEW j \in 1..Len(u), u[i].node = u[j].node PROVE i = j
  <2> DEFINE a == i - Len(s)
             b == j - Len(s)
  <2>0. /\ (i \in 1..Len(s) /\ u[i] = s[i]) \/ (a \in 1..Len(t) /\ u[i] = t[a])
        /\ (j \in 1..Len(s) /\ u[j] = s[j]) \/ (b \in 1..Len(t) /\ u[j] = t[b])
    BY <1>4
  <2>1. CASE i \in 1..Len(s) /\ u[i] = s[i] /\ j \in 1..Len(s) /\ u[j] = s[j]
    BY <1>0, <1>6, <2>1
  <2>2. CASE a \in 1..Len(t) /\ u[i] = t[a] /\ b \in 1..Len(t) /\ u[j] = t[b]
    <3> HIDE DEF a, b
    <3>1. a = b
      BY <1>0, <1>6, <2>2
    <3> QED BY <1>3, <3>1 DEF a, b
  <2>3. CASE i \in 1..Len(s) /\ u[i] = s[i] /\ b \in 1..Len(t) /\ u[j] = t[b]
    <3> HIDE DEF a, b
    <3> QED BY <1>0, <1>1, <1>6, <2>3
  <2>4. CASE a \in 1..Len(t) /\ u[i] = t[a] /\ j \in 1..Len(s) /\ u[j] = s[j]
    <3> HIDE DEF a, b
    <3> QED BY <1>0, <1>1, <1>6, <2>4
  <2> HIDE DEF a, b
  <2> QED BY <2>0, <2>1, <2>2, <2>3, <2>4
<1>7. HeaderList(c, u)
  BY <1>3, <1>5, <1>6 DEF HeaderList
<1> QED BY <1>5, <1>7 DEF Piece, u

(* What is added under a condition only is a piece, too. *)
LEMMA PieceWhen ==
    ASSUME NEW c, NEW K, NEW s, NEW b \in BOOLEAN, b => Piece(c, s, K)
    PROVE  Piece(c, When(b, s), K)
  BY PieceEmpty DEF When

(* Strings and hashes are values. *)
LEMMA ValueForm ==
    /\ \A name \in Texts : String(name) \in Values /\ Sized(String(name))
    /\ \A h \in Hashes : Hash(h) \in Values /\ Sized(Hash(h))
    /\ \A b \in BOOLEAN : Bool(b) \in Values /\ Sized(Bool(b))
<1>1. \A name \in Texts : String(name) \in Values /\ Sized(String(name))
  BY WriterAssumption DEF String, Values, Sized, Blobs
<1>2. \A h \in Hashes : Hash(h) \in Values /\ Sized(Hash(h))
  BY WriterAssumption DEF Hash, Values, Sized, Blobs
<1>3. \A b \in BOOLEAN : Bool(b) \in Values /\ Sized(Bool(b))
  BY <1>1 DEF Bool, Texts
<1> QED BY <1>1, <1>2, <1>3

(* One header of each kind, under its own key *)
LEMMA PieceHeaders ==
    ASSUME params \in Programs, NEW c \in Calls, NEW key \in Keys
    PROVE  /\ \A b \in BOOLEAN : Piece(c, Flag(c, key, b), {key})
           /\ Piece(c, Param(c, key), {key})
           /\ \A h \in Hashes : Piece(c, Header(c, key, Hash(h)), {key})
           /\ \A name \in Texts : Piece(c, Header(c, key, String(name)), {key})
<1>1. \A v \in Values : Sized(v) => Piece(c, Header(c, key, v), {key})
  BY PieceOne DEF Header
<1>2. key \in Texts
  BY DEF Texts
<1>3. /\ \A h \in Hashes : Piece(c, Header(c, key, Hash(h)), {key})
      /\ \A name \in Texts : Piece(c, Header(c, key, String(name)), {key})
      /\ \A b \in BOOLEAN : Piece(c, Header(c, key, Bool(b)), {key})
  BY <1>1, ValueForm
<1> QED BY <1>2, <1>3 DEF Flag, Param

(* The structures of the application, with any key *)
LEMMA PieceList ==
    ASSUME params \in Programs, NEW c \in Calls, NEW key \in Keys
    PROVE  Piece(c, InList(c, key), {"list"})
<1> DEFINE l == params[c].list
           s == InList(c, key)
<1>1. l \in Seq(Hashes) /\ \A i, j \in DOMAIN l : l[i] = l[j] => i = j
  BY ParamsForm DEF IsRequest, IsInjective
<1>2. s = [i \in 1..Len(l) |-> [node |-> l[i], key |-> key, value |-> Hash(l[i])]]
  BY <1>1 DEF InList
<1>3. /\ Lists(c) \subseteq Own(c) /\ Lists(c) \subseteq Slots(c, {"list"})
      /\ Lists(c) \subseteq Nodes /\ \A i \in 1..Len(l) : l[i] \in Lists(c)
  BY <1>1, ParamsForm DEF Own, Slots, Lists
<1>4. \A i \in 1..Len(l) : Hash(l[i]) \in Values /\ Sized(Hash(l[i]))
  BY <1>1, ValueForm
<1>5. \A i \in 1..Len(l) : [node |-> l[i], key |-> key, value |-> Hash(l[i])] \in Entries
  BY <1>3, <1>4 DEF Entries
<1> HIDE DEF l, s
<1>6. s \in [1..Len(l) -> Entries] /\ Len(l) \in Nat
  BY <1>1, <1>2, <1>5
<1>7. s \in Seq(Entries) /\ Len(s) = Len(l)
  BY <1>2, <1>6
<1>8. \A i \in 1..Len(l) : s[i].node = l[i] /\ s[i].value = Hash(l[i])
  BY <1>2
<1>9. \A i, j \in 1..Len(l) : l[i] = l[j] => i = j
  BY <1>1
<1>10. HeaderList(c, s)
  BY <1>3, <1>4, <1>7, <1>8, <1>9 DEF HeaderList
<1> QED BY <1>3, <1>7, <1>8, <1>10 DEF Piece, s

(* The headers each macro adds, with the stack variable it uses. *)
LEMMA PieceMacros ==
    ASSUME params \in Programs, NEW c \in Calls
    PROVE  /\ Piece(c, ADD_AUTOCHAIN(c), {"autochain"}) /\ Piece(c, ADD_EXPIRY(c), {"expiry"})
           /\ Piece(c, ADD_URI(c), {"uri"})
           /\ Piece(c, ADD_PRIMARY_ACCESS_CHAIN(c), {"primary_access_chain"})
           /\ Piece(c, ADD_ELABORATE_PAC(c), {"elaborate_pac"})
           /\ Piece(c, ADD_VERIFY(c), {"doverify"}) /\ Piece(c, ADD_PERSIST(c), {"persist"})
           /\ Piece(c, ADD_LEAVE_PACKED(c), {"unpack"}) /\ Piece(c, ADD_CONTACT(c), {"contact"})
           /\ Piece(c, ADD_COMMENT(c), {"comment"})
           /\ Piece(c, ADD_OMIT_CREATION_DATE(c), {"omitcreationdate"})
           /\ Piece(c, ADD_TTL(c), {"ttl"}) /\ Piece(c, ADD_TO(c), {"to"})
           /\ Piece(c, ADD_IS_PERMISSION(c), {"ispermission"})
           /\ Piece(c, ADD_ACCESS_PERMISSIONS(c), {"accesspermissions"})
           /\ Piece(c, ADD_UNELABORATE(c), {"unelaborate"})
           /\ Piece(c, ADD_REVOKERS(c), {"list"}) /\ Piece(c, ADD_DOTS(c), {"list"})
           /\ Piece(c, unsubscribe(c), {"handle"})
<1>1. \A field : Has(c, field) \in BOOLEAN /\ (~Has(c, field)) \in BOOLEAN
  BY DEF Has
<1>2. params[c].chain \in Hashes /\ params[c].to \in Hashes
  BY ParamsForm DEF IsRequest
<1>3. /\ \A key \in Keys : \A b \in BOOLEAN : Piece(c, Flag(c, key, b), {key})
      /\ \A key \in Keys : Piece(c, Param(c, key), {key})
      /\ \A key \in Keys : \A h \in Hashes : Piece(c, Header(c, key, Hash(h)), {key})
      /\ \A key \in Keys : \A name \in Texts : Piece(c, Header(c, key, String(name)), {key})
  BY PieceHeaders
<1>4. "elaborate_pac" \in Texts /\ "partial" \in Texts /\ "expiry" \in Texts /\ "expirydelta" \in Texts
  BY DEF Texts, Keys
<1>5. /\ "autochain" \in Keys /\ "expiry" \in Keys /\ "expirydelta" \in Keys /\ "uri" \in Keys
      /\ "primary_access_chain" \in Keys /\ "elaborate_pac" \in Keys /\ "doverify" \in Keys
      /\ "persist" \in Keys /\ "unpack" \in Keys /\ "contact" \in Keys /\ "comment" \in Keys
      /\ "revoker" \in Keys /\ "omitcreationdate" \in Keys /\ "ttl" \in Keys /\ "to" \in Keys
      /\ "ispermission" \in Keys /\ "accesspermissions" \in Keys /\ "unelaborate" \in Keys
      /\ "dot" \in Keys /\ "handle" \in Keys
  BY DEF Keys
<1>6. Piece(c, ADD_AUTOCHAIN(c), {"autochain"})
  BY <1>1, <1>3, <1>5, PieceWhen DEF ADD_AUTOCHAIN
<1>7. Piece(c, ADD_EXPIRY(c), {"expiry"})
  <2>1. /\ Piece(c, At(<<c, "expiry">>, "expiry", String("expiry")), {"expiry"})
        /\ Piece(c, At(<<c, "expiry">>, "expirydelta", String("expirydelta")), {"expiry"})
    BY <1>4, <1>5, PieceOne, ValueForm
  <2> QED BY <1>1, <2>1, PieceWhen DEF ADD_EXPIRY
<1>8. Piece(c, ADD_URI(c), {"uri"}) /\ Piece(c, ADD_TTL(c), {"ttl"})
  BY <1>3, <1>5 DEF ADD_URI, ADD_TTL
<1>9. Piece(c, ADD_PRIMARY_ACCESS_CHAIN(c), {"primary_access_chain"})
  BY <1>1, <1>2, <1>3, <1>5, PieceWhen DEF ADD_PRIMARY_ACCESS_CHAIN
<1>10. Piece(c, ADD_ELABORATE_PAC(c), {"elaborate_pac"})
  <2>1. (IF Has(c, "elaboratePAC") THEN "elaborate_pac" ELSE "partial") \in Texts
    BY <1>4
  <2> QED BY <1>3, <1>5, <2>1 DEF ADD_ELABORATE_PAC
<1>11. Piece(c, ADD_VERIFY(c), {"doverify"}) /\ Piece(c, ADD_PERSIST(c), {"persist"})
  BY <1>1, <1>3, <1>5 DEF ADD_VERIFY, ADD_PERSIST
<1>12. Piece(c, ADD_LEAVE_PACKED(c), {"unpack"})
  BY <1>1, <1>3, <1>5, PieceWhen DEF ADD_LEAVE_PACKED
<1>13. Piece(c, ADD_CONTACT(c), {"contact"}) /\ Piece(c, ADD_COMMENT(c), {"comment"})
  BY <1>1, <1>3, <1>5, PieceWhen DEF ADD_CONTACT, ADD_COMMENT
<1>14. Piece(c, ADD_OMIT_CREATION_DATE(c), {"omitcreationdate"})
  BY <1>1, <1>3, <1>5, PieceWhen DEF ADD_OMIT_CREATION_DATE
<1>15. Piece(c, ADD_TO(c), {"to"}) /\ Piece(c, unsubscribe(c), {"handle"})
  BY <1>2, <1>3, <1>5 DEF ADD_TO, unsubscribe
<1>16. Piece(c, ADD_IS_PERMISSION(c), {"ispermission"}) /\ Piece(c, ADD_UNELABORATE(c), {"unelaborate"})
  BY <1>1, <1>3, <1>5 DEF ADD_IS_PERMISSION, ADD_UNELABORATE
<1>17. Piece(c, ADD_ACCESS_PERMISSIONS(c), {"accesspermissions"})
  BY <1>3, <1>5 DEF ADD_ACCESS_PERMISSIONS
<1>18. Piece(c, ADD_REVOKERS(c), {"list"}) /\ Piece(c, ADD_DOTS(c), {"list"})
  BY <1>5, PieceList DEF ADD_REVOKERS, ADD_DOTS
<1> QED BY <1>6, <1>7, <1>8, <1>9, <1>10, <1>11, <1>12, <1>13, <1>14, <1>15, <1>16, <1>17, <1>18

(* Joining two pieces, when the second one is of one variable *)
LEMMA PieceJoinAs ==
    ASSUME params \in Programs, NEW c \in Calls, NEW K, NEW k, NEW s, NEW t,
           Piece(c, s, K), Piece(c, t, {k}), k \notin K
    PROVE  Piece(c, s \o t, K \cup {k})
<1>1. K \cap {k} = {}
  OBVIOUS
<1> QED BY <1>1, PieceJoin

(* The headers of every API function are a list in the memory of the call. *)
LEMMA HeadersForm ==
    ASSUME params \in Programs, NEW c \in Calls
    PROVE  HeaderList(c, Headers(c))
<1> DEFINE a2 == ADD_AUTOCHAIN(c) \o ADD_EXPIRY(c)
           a4 == a2 \o ADD_URI(c) \o ADD_PRIMARY_ACCESS_CHAIN(c)
           a5 == a4 \o ADD_ELABORATE_PAC(c)
           K2 == {"autochain"} \cup {"expiry"}
           K4 == K2 \cup {"uri"} \cup {"primary_access_chain"}
           K5 == K4 \cup {"elaborate_pac"}
           e2 == ADD_EXPIRY(c) \o ADD_CONTACT(c)
           e4 == e2 \o ADD_COMMENT(c) \o ADD_REVOKERS(c)
           e5 == e4 \o ADD_OMIT_CREATION_DATE(c)
           L2 == {"expiry"} \cup {"contact"}
           L4 == L2 \cup {"comment"} \cup {"list"}
           L5 == L4 \cup {"omitcreationdate"}
<1>1. Piece(c, a5, K5)
  <2>1. Piece(c, a2, K2)
    BY PieceMacros, PieceJoinAs
  <2>2. Piece(c, a2 \o ADD_URI(c), K2 \cup {"uri"})
    BY <2>1, PieceMacros, PieceJoinAs
  <2>3. Piece(c, a4, K4)
    BY <2>2, PieceMacros, PieceJoinAs
  <2> QED BY <2>3, PieceMacros, PieceJoinAs
<1>2. Piece(c, e5, L5)
  <2>1. Piece(c, e2, L2)
    BY PieceMacros, PieceJoinAs
  <2>2. Piece(c, e2 \o ADD_COMMENT(c), L2 \cup {"comment"})
    BY <2>1, PieceMacros, PieceJoinAs
  <2>3. Piece(c, e4, L4)
    BY <2>2, PieceMacros, PieceJoinAs
  <2> QED BY <2>3, PieceMacros, PieceJoinAs
<1>3. HeaderList(c, publish(c)) /\ HeaderList(c, list(c))
  <2>1. Piece(c, a5 \o ADD_VERIFY(c), K5 \cup {"doverify"})
    BY <1>1, PieceMacros, PieceJoinAs
  <2>2. Piece(c, a5 \o ADD_VERIFY(c) \o ADD_PERSIST(c), K5 \cup {"doverify"} \cup {"persist"})
    BY <2>1, PieceMacros, PieceJoinAs
  <2> QED BY <2>1, <2>2, Zenon DEF Piece, publish, list
<1>4. HeaderList(c, subscribe(c))
  <2>1. Piece(c, a5 \o ADD_LEAVE_PACKED(c), K5 \cup {"unpack"})
    BY <1>1, PieceMacros, PieceJoinAs
  <2>2. Piece(c, a5 \o ADD_LEAVE_PACKED(c) \o ADD_VERIFY(c),
              K5 \cup {"unpack"} \cup {"doverify"})
    BY <2>1, PieceMacros, PieceJoinAs
  <2> QED BY <2>2, Zenon DEF Piece, subscribe
<1>5. HeaderList(c, createEntity(c))
  BY <1>2, Zenon DEF Piece, createEntity
<1>6. HeaderList(c, createDOTChain(c)) /\ HeaderList(c, buildChain(c))
  <2>1. Piece(c, ADD_IS_PERMISSION(c) \o ADD_UNELABORATE(c), {"ispermission"} \cup {"unelaborate"})
    BY PieceMacros, PieceJoinAs
  <2>2. Piece(c, ADD_IS_PERMISSION(c) \o ADD_UNELABORATE(c) \o ADD_DOTS(c),
              {"ispermission"} \cup {"unelaborate"} \cup {"list"})
    BY <2>1, PieceMacros, PieceJoinAs
  <2>3. Piece(c, ADD_URI(c) \o ADD_TO(c), {"uri"} \cup {"to"})
    BY PieceMacros, PieceJoinAs
  <2>4. Piece(c, ADD_URI(c) \o ADD_TO(c) \o ADD_ACCESS_PERMISSIONS(c),
              {"uri"} \cup {"to"} \cup {"accesspermissions"})
    BY <2>3, PieceMacros, PieceJoinAs
  <2> QED BY <2>2, <2>4, Zenon DEF Piece, createDOTChain, buildChain
<1>7. HeaderList(c, createDOT(c))
  <2> DEFINE e7 == e5 \o ADD_TTL(c) \o ADD_TO(c)
             L7 == L5 \cup {"ttl"} \cup {"to"}
  <2>1. Piece(c, e5 \o ADD_TTL(c), L5 \cup {"ttl"})
    BY <1>2, PieceMacros, PieceJoinAs
  <2>2. Piece(c, e7, L7)
    BY <2>1, PieceMacros, PieceJoinAs
  <2>3. Piece(c, e7 \o ADD_IS_PERMISSION(c), L7 \cup {"ispermission"})
    BY <2>2, PieceMacros, PieceJoinAs
  <2>4. Piece(c, ADD_URI(c) \o ADD_ACCESS_PERMISSIONS(c), {"uri"} \cup {"accesspermissions"})
    BY PieceMacros, PieceJoinAs
  <2>5. Piece(c, When(~Has(c, "isPermission"), ADD_URI(c) \o ADD_ACCESS_PERMISSIONS(c)),
              {"uri"} \cup {"accesspermissions"})
    <3>1. (~Has(c, "isPermission")) \in BOOLEAN
      BY DEF Has
    <3> QED BY <2>4, <3>1, PieceWhen, Zenon
  <2>6. (L7 \cup {"ispermission"}) \cap ({"uri"} \cup {"accesspermissions"}) = {}
    OBVIOUS
  <2> QED BY <2>3, <2>5, <2>6, PieceJoin, Zenon DEF Piece, createDOT
<1>8. HeaderList(c, unsubscribe(c))
  BY PieceMacros, Zenon DEF Piece
<1>9. HeaderList(c, setEntity(c))
  BY PieceEmpty DEF Piece, setEntity
<1>10. HeaderList(c, query(c))
  BY <1>4 DEF query
<1>11. params[c].fn \in APIs
  BY ParamsForm DEF IsRequest
<1> QED BY <1>3, <1>4, <1>5, <1>6, <1>7, <1>8, <1>9, <1>10, <1>11 DEF APIs, Headers

-----------------------------------------------------------------------------
(* The objects of a request *)

Commands == {"pers", "publ", "subs", "quer", "list", "makd", "make", "makc",
             "bldc", "usub", "sete"}
KvObjects == {KvObject(k, KeyLen[k], l, b) : k \in Keys, l \in Nat, b \in Blobs}
AppObjects == UNION {Range(p[c].pos) \cup Range(p[c].ros) : p \in Programs, c \in Calls}
HdrObjects == {Object("hdr", cmd, 0, "none", <<0>>, s, l, "none") :
                  cmd \in Commands, s \in Nat, l \in Nat}
AllObjects == {Nothing} \cup KvObjects \cup AppObjects \cup HdrObjects
Syms == Symbols(AllObjects)

(* The objects that c asks for: its headers and its payload and routing objects *)
Requested(c) ==
    LET hs == Headers(c) IN [i \in DOMAIN hs |-> Asked(hs[i])] \o Objects(c)

(* What the parameters determine does not change while they do not. *)
LEMMA SameParams ==
    ASSUME NEW c, params' = params
    PROVE  /\ Headers(c)' = Headers(c) /\ Objects(c)' = Objects(c) /\ Lists(c)' = Lists(c)
           /\ Own(c)' = Own(c) /\ Command(c)' = Command(c) /\ Requested(c)' = Requested(c)
<1>1. Headers(c)' = Headers(c)
  BY DEF Headers, publish, subscribe, query, list, createDOT, createEntity, createDOTChain,
         buildChain, unsubscribe, setEntity, ADD_AUTOCHAIN, ADD_EXPIRY, ADD_URI,
         ADD_PRIMARY_ACCESS_CHAIN, ADD_ELABORATE_PAC, ADD_VERIFY, ADD_PERSIST,
         ADD_LEAVE_PACKED, ADD_CONTACT, ADD_COMMENT, ADD_OMIT_CREATION_DATE, ADD_TTL,
         ADD_TO, ADD_IS_PERMISSION, ADD_ACCESS_PERMISSIONS, ADD_UNELABORATE, ADD_REVOKERS,
         ADD_DOTS, InList, Has, When, Flag, Param, Header, At, Bool, String, Hash
<1>2. Objects(c)' = Objects(c) /\ Lists(c)' = Lists(c) /\ Command(c)' = Command(c)
  BY DEF Objects, Lists, Command, Has
<1>3. Own(c)' = Own(c)
  BY <1>2 DEF Own, Stack
<1>4. Requested(c)' = Requested(c)
  BY <1>1, <1>2 DEF Requested, Asked
<1> QED BY <1>1, <1>2, <1>3, <1>4

(* _bw2_num_digits counts the decimal digits of its argument. *)
LEMMA NumDigits == \A x \in Nat : num_digits[x] = Digits(x)
<1> DEFINE F == [x \in Nat |-> Digits(x)]
<1>1. F = [x \in Nat |-> IF x >= 10 THEN 1 + F[x \div 10] ELSE 1]
  <2>1. \A x \in Nat : x \div 10 \in Nat
    OBVIOUS
  <2>2. \A x \in Nat : Digits(x) = IF x >= 10 THEN 1 + Digits(x \div 10) ELSE 1
    BY DigitsStep
  <2> QED BY <2>1, <2>2
<1> HIDE DEF F
<1>2. \E f : f = [x \in Nat |-> IF x >= 10 THEN 1 + f[x \div 10] ELSE 1]
  BY <1>1
<1>3. num_digits = [x \in Nat |-> IF x >= 10 THEN 1 + num_digits[x \div 10] ELSE 1]
  BY <1>2, Zenon DEF num_digits
<1>4. \A x \in Nat : num_digits[x] = IF x >= 10 THEN 1 + num_digits[x \div 10] ELSE 1
  BY <1>3
<1> DEFINE S == {n \in Nat : \A x \in 0..n : num_digits[x] = Digits(x)}
<1>5. 0 \in S
  BY <1>4, DigitsStep
<1>6. ASSUME NEW n \in Nat, n \in S PROVE n + 1 \in S
  <2> SUFFICES ASSUME NEW x \in 0..(n + 1) PROVE num_digits[x] = Digits(x)
    OBVIOUS
  <2>1. CASE x >= 10
    <3>1. x \div 10 \in 0..n
      BY <2>1
    <3>2. num_digits[x] = 1 + num_digits[x \div 10]
      BY <1>4, <2>1
    <3>3. Digits(x) = 1 + Digits(x \div 10)
      BY <2>1, DigitsStep
    <3> QED BY <1>6, <3>1, <3>2, <3>3
  <2>2. CASE x < 10
    BY <1>4, <2>2, DigitsStep
  <2> QED BY <2>1, <2>2
<1> HIDE DEF S
<1>7. Nat \subseteq S
  BY <1>5, <1>6, NatSetInduction
<1> QED BY <1>7 DEF S

(* An object whose length bw2_frameLength counts right *)
WellFormed(o) == Encodable(o) /\ Length(o) = Bytes(EncodeObject(o)) /\ Length(o) \in Nat

(* Headers have their key's length, payload and routing objects the digits  *)
(* of their number: bw2_frameLength counts what bw2_writeFrame writes.      *)
LEMMA ObjectsForm ==
    /\ \A o \in KvObjects : WellFormed(o)
    /\ \A o \in AppObjects : WellFormed(o)
<1>1. ASSUME NEW o \in AllObjects, Encodable(o)
      PROVE  /\ Bytes(EncodeObject(o)) = 3 + o.idlen + 1 + Digits(o.len) + 1 + o.len + 1
             /\ Digits(o.len) \in Nat
  <2>1. Nothing \in AllObjects
    BY DEF AllObjects
  <2>2. o.len \in Nat
    BY <1>1 DEF Encodable
  <2> QED BY <1>1, <2>1, <2>2, ObjectEncoding, DigitsValue
<1>2. ASSUME NEW o \in KvObjects PROVE WellFormed(o)
  <2>1. PICK k \in Keys, l \in Nat, b \in Blobs : o = KvObject(k, KeyLen[k], l, b)
    BY DEF KvObjects
  <2>2. o.kind = "kv" /\ o.key = k /\ o.idlen = KeyLen[k] /\ o.len = l /\ KeyLen[k] \in Nat
    BY <2>1, WriterAssumption DEF KvObject, Object
  <2>3. Encodable(o) /\ o \in AllObjects
    BY <2>2 DEF Encodable, AllObjects
  <2>4. Length(o) = 3 + KeyLen[k] + 1 + Digits(l) + 1 + l + 1
    BY <2>2, NumDigits DEF Length, KV_len
  <2> QED BY <1>1, <2>2, <2>3, <2>4 DEF WellFormed
<1>3. ASSUME NEW o \in AppObjects PROVE WellFormed(o)
  <2>1. PICK p \in Programs, c \in Calls : o \in Range(p[c].pos) \cup Range(p[c].ros)
    BY DEF AppObjects
  <2>2. IsRequest(p[c])
    BY WriterAssumption
  <2>3. o.num \in Nat /\ o.len \in Nat
    BY <2>1, <2>2 DEF IsRequest
  <2>4. Digits(o.num) \in Nat /\ o \in AllObjects
    BY <2>3, DigitsValue DEF AllObjects
  <2>5. CASE o \in Range(p[c].pos)
    <3>1. o = PoObject(o.num, o.len, o.blob)
      BY <2>2, <2>5 DEF IsRequest
    <3>2. o.kind = "po" /\ o.idlen = 1 + Digits(o.num)
      BY <3>1 DEF PoObject, Object
    <3>3. Encodable(o)
      BY <2>3, <2>4, <3>2 DEF Encodable
    <3>4. Length(o) = 3 + 1 + Digits(o.num) + 1 + Digits(o.len) + 1 + o.len + 1
      BY <2>3, <3>2, NumDigits DEF Length, PO_len
    <3> QED BY <1>1, <2>3, <2>4, <3>2, <3>3, <3>4 DEF WellFormed
  <2>6. CASE o \in Range(p[c].ros)
    <3>1. o = RoObject(o.num, o.len, o.blob)
      BY <2>2, <2>6 DEF IsRequest
    <3>2. o.kind = "ro" /\ o.idlen = Digits(o.num)
      BY <3>1 DEF RoObject, Object
    <3>3. Encodable(o)
      BY <2>3, <2>4, <3>2 DEF Encodable
    <3>4. Length(o) = 3 + Digits(o.num) + 1 + Digits(o.len) + 1 + o.len + 1
      BY <2>3, <3>2, NumDigits DEF Length, RO_len
    <3> QED BY <1>1, <2>3, <2>4, <3>2, <3>3, <3>4 DEF WellFormed
  <2> QED BY <2>1, <2>5, <2>6
<1> QED BY <1>2, <1>3

(* The objects of a request, by their positions *)
LEMMA RequestedForm ==
    ASSUME params \in Programs, NEW c \in Calls
    PROVE  LET H == Headers(c)
               R == Requested(c) IN
           /\ H \in Seq(Entries) /\ Objects(c) \in Seq(AppObjects)
           /\ R \in Seq(KvObjects \cup AppObjects) /\ Len(R) = Len(H) + Len(Objects(c))
           /\ \A i \in 1..Len(H) : R[i] = Asked(H[i])
           /\ \A i \in 1..Len(Objects(c)) : R[Len(H) + i] = Objects(c)[i]
           /\ \A i \in 1..Len(R) : WellFormed(R[i])
<1> DEFINE H == Headers(c)
           R == Requested(c)
           O == Objects(c)
           hs == [i \in 1..Len(H) |-> Asked(H[i])]
           B == KvObjects \cup AppObjects
<1>1. H \in Seq(Entries) /\ \A i \in 1..Len(H) : H[i] \in Entries
  BY HeadersForm DEF HeaderList
<1>2. O \in Seq(AppObjects)
  <2>1. IsRequest(params[c])
    BY ParamsForm
  <2>2. Range(params[c].pos) \subseteq AppObjects /\ Range(params[c].ros) \subseteq AppObjects
    <3>1. ASSUME NEW o \in Range(params[c].pos) \cup Range(params[c].ros) PROVE o \in AppObjects
      <4> DEFINE x == Range(params[c].pos) \cup Range(params[c].ros)
                 X == {Range(p[d].pos) \cup Range(p[d].ros) : p \in Programs, d \in Calls}
      <4>1. x \in X /\ o \in x
        OBVIOUS
      <4>2. o \in UNION X
        <5> HIDE DEF x, X
        <5> QED BY <4>1
      <4> QED BY <4>2 DEF AppObjects
    <3> QED BY <3>1
  <2>3. params[c].pos \in Seq(AppObjects) /\ params[c].ros \in Seq(AppObjects)
    BY <2>1, <2>2 DEF IsRequest
  <2> QED BY <2>3 DEF Objects
<1>3. ASSUME NEW e \in Entries PROVE Asked(e) \in KvObjects
  <2>1. e.key \in Keys /\ e.value.blob \in Blobs /\ e.value.size \in Nat /\ e.value.strlen \in Nat
    BY DEF Entries, Values
  <2>2. (IF e.value.blob \in Hashes THEN e.value.size ELSE e.value.strlen) \in Nat
    BY <2>1
  <2> QED BY <2>1, <2>2 DEF Asked, KvObjects
<1>4. R = hs \o O
  BY <1>1 DEF Requested
<1> HIDE DEF R, O, H
<1>5. hs \in Seq(B) /\ Len(hs) = Len(H) /\ O \in Seq(B)
  <2>1. hs \in [1..Len(H) -> B] /\ Len(H) \in Nat
    BY <1>1, <1>3
  <2> QED BY <1>2, <2>1
<1>6. \A i \in 1..Len(H) : hs[i] = Asked(H[i])
  OBVIOUS
<1> HIDE DEF hs, B
<1>7. R \in Seq(B) /\ Len(R) = Len(H) + Len(O)
  <2>1. hs \o O \in Seq(B) /\ Len(hs \o O) = Len(hs) + Len(O)
    BY <1>5
  <2> QED BY <1>4, <1>5, <2>1, Zenon
<1>8. /\ \A i \in 1..Len(H) : R[i] = Asked(H[i])
      /\ \A i \in 1..Len(O) : R[Len(H) + i] = O[i]
  BY <1>4, <1>5, <1>6
<1>9. \A i \in 1..Len(R) : WellFormed(R[i])
  BY <1>7, ObjectsForm DEF B
<1> QED BY <1>1, <1>2, <1>7, <1>8, <1>9 DEF R, O, H, B

-----------------------------------------------------------------------------
(* The inductive invariant *)

Writing == {"length"} \cup Parts
Rvs == {"none", "0", "CONNECTION_LOST", "NOT_SUPPORTED"}

CallRecords ==
    [pc : Pcs, todo : Seq(Entries), hdrs : Nodes \cup {NULL}, lasthdr : Nodes \cup {NULL},
     kv : Nodes \cup {NULL}, rest : Seq(AppObjects), framelen : Nat, written : Nat,
     seqno : 0..(SeqnoMax - 1), rv : Rvs]
NodeRecords ==
    [key : Keys \cup {"none"}, len : Nat, blob : Blobs \cup {NULL},
     next : Nodes \cup {NULL, Wild}]

Typed ==
    /\ params \in Programs /\ call \in [Calls -> CallRecords] /\ node \in [Nodes -> NodeRecords]
    /\ curseqno \in 0..(SeqnoMax - 1) /\ outlock \in Calls \cup {NULL}
    /\ connected \in BOOLEAN /\ passed \in BOOLEAN /\ fd \in {"open", "closed"}

(* A header in memory, with the one that follows it *)
Linked(h, next) ==
    [key |-> h.key, blob |-> h.value.blob, next |-> next,
     len |-> IF h.value.size = 0 THEN h.value.strlen ELSE h.value.size]

(* The first k headers of c are in memory, linked in their order. *)
BuiltTo(c, k) ==
    LET H == Headers(c) IN
    /\ k \in 0..Len(H)
    /\ call[c].todo = [i \in 1..(Len(H) - k) |-> H[k + i]]
    /\ call[c].hdrs = IF k = 0 THEN NULL ELSE H[1].node
    /\ \A i \in 1..k :
          node[H[i].node] = Linked(H[i], IF i < k THEN H[i + 1].node ELSE NULL)

(* How far the list of c is built, in each phase of the call *)
BuildInv(c) ==
    Active(c) => \E k \in Nat :
        /\ BuiltTo(c, k)
        /\ call[c].pc = "build" =>
              call[c].lasthdr = IF k = 0 THEN NULL ELSE Headers(c)[k].node
        /\ call[c].pc = "append" => k > 0 /\ call[c].kv = Headers(c)[k].node
        /\ call[c].pc \notin {"build", "append"} => k = Len(Headers(c))

(* The loop over the frame of c has passed p objects... *)
Position(c, kv, rest, p) ==
    LET n == Len(Headers(c)) IN
    /\ p \in 0..Len(Requested(c))
    /\ p < n => kv = Headers(c)[p + 1].node /\ rest = Objects(c)
    /\ p >= n => /\ kv = NULL
                 /\ rest = [i \in 1..(Len(Requested(c)) - p) |-> Objects(c)[(p - n) + i]]
AtPos(c, p) == Position(c, call[c].kv, call[c].rest, p)

(* ...and has counted their bytes, or writes the array that follows them. *)
AtStage(c, p) ==
    LET R == Requested(c) IN
    /\ AtPos(c, p)
    /\ call[c].pc = "length" => call[c].framelen = 4 + Bytes(Encoded(R, p))
    /\ call[c].pc \in Parts => call[c].framelen = Bytes(EncodeBody(R))
    /\ call[c].pc = "frhdr" => p = 0
    /\ call[c].pc \in {"local", "value", "newline"} => p < Len(R)
    /\ call[c].pc = "end" => p = Len(R)

StageInv(c) == call[c].pc \in Writing => \E p \in Nat : AtStage(c, p)

(* A call only follows its own headers. *)
KvInv(c) == Active(c) => call[c].kv \in Own(c) \cup {NULL}

CallInv(c) == BuildInv(c) /\ StageInv(c) /\ KvInv(c)

(* No structure of the application is in the lists of two calls at a time. *)
ListsApart ==
    \A c, d \in Calls : c # d /\ Active(c) /\ Active(d) => Lists(c) \cap Lists(d) = {}

(* Who is between mutexLock and mutexUnlock of bw2_transact holds outlock. *)
LockInv == \A c \in Calls : call[c].pc \in Writing <=> outlock = c

ListInv == Typed /\ (\A c \in Calls : CallInv(c)) /\ ListsApart /\ LockInv

(* The header, payload or routing object at a position is the one that was  *)
(* asked for, and the loops of frame.c move on to the next one.             *)
LEMMA Moves ==
    ASSUME Typed, NEW c \in Calls, NEW p \in Nat, AtPos(c, p), BuiltTo(c, Len(Headers(c)))
    PROVE  LET R == Requested(c) IN
           /\ AtEnd(c) <=> p = Len(R)
           /\ p < Len(R) => Current(c) = R[p + 1]
           /\ p < Len(R) => \A s \in CallRecords :
                 s.kv = call[c].kv /\ s.rest = call[c].rest =>
                    \E kv \in Own(c) \cup {NULL}, rest \in Seq(AppObjects) :
                       /\ Position(c, kv, rest, p + 1)
                       /\ Advance(s, NextHeader(c)) = [s EXCEPT !.kv = kv, !.rest = rest]
<1> DEFINE H == Headers(c)
           R == Requested(c)
           O == Objects(c)
           n == Len(H)
           kv == call[c].kv
           rest == call[c].rest
<1>1. /\ H \in Seq(Entries) /\ n \in Nat /\ O \in Seq(AppObjects) /\ Len(O) \in Nat
      /\ Len(R) = n + Len(O)
      /\ \A i \in 1..n : R[i] = Asked(H[i])
      /\ \A i \in 1..Len(O) : R[n + i] = O[i]
  BY RequestedForm DEF Typed
<1>2. \A i \in 1..n : /\ H[i] \in Entries /\ H[i].node \in Own(c) /\ H[i].node \in Nodes
                      /\ H[i].node # NULL /\ Sized(H[i].value)
  <2>1. Own(c) \subseteq Nodes /\ NULL \notin Nodes
    BY ParamsForm, WriterAssumption DEF Typed
  <2> QED BY <1>1, <2>1, HeadersForm DEF Typed, HeaderList
<1>3. \A i \in 1..n : node[H[i].node] = Linked(H[i], IF i < n THEN H[i + 1].node ELSE NULL)
  BY DEF BuiltTo
<1>4. Position(c, kv, rest, p)
  BY DEF AtPos
<1>5. p \in 0..Len(R)
  BY <1>4 DEF Position
<1> HIDE DEF H, O, R, n, kv, rest
<1>6. CASE p < n
  <2> DEFINE h == H[p + 1]
             nx == IF p + 1 < n THEN H[p + 2].node ELSE NULL
  <2>1. kv = h.node /\ rest = O /\ p + 1 \in 1..n /\ p < Len(R) /\ p # Len(R)
    BY <1>1, <1>4, <1>6 DEF Position, H, O, R, n
  <2>2. kv # NULL /\ h \in Entries /\ Sized(h.value)
    BY <1>2, <2>1
  <2>3. node[kv] = Linked(h, nx)
    <3>1. (p + 1) + 1 = p + 2
      OBVIOUS
    <3> QED BY <1>3, <2>1, <3>1
  <2>4. nx \in Own(c) \cup {NULL}
    BY <1>1, <1>2, <1>6
  <2>5. Current(c) = KvObject(h.key, KeyLen[h.key], Linked(h, nx).len, h.value.blob)
    <3>1. Current(c) = KvObject(node[kv].key, KeyLen[node[kv].key], node[kv].len, node[kv].blob)
      BY <2>2 DEF Current, kv
    <3>2. Linked(h, nx).key = h.key /\ Linked(h, nx).blob = h.value.blob
      BY DEF Linked
    <3> HIDE DEF h, nx
    <3> QED BY <2>3, <3>1, <3>2
  <2>6. Linked(h, nx).len = IF h.value.blob \in Hashes THEN h.value.size ELSE h.value.strlen
    BY <2>2 DEF Linked, Sized, Entries, Values
  <2>7. Current(c) = R[p + 1]
    <3> HIDE DEF h, nx
    <3>1. Current(c) = Asked(h)
      BY <2>5, <2>6 DEF Asked
    <3> QED BY <1>1, <2>1, <3>1 DEF h
  <2>8. NextHeader(c) = nx
    <3>1. NextHeader(c) = node[kv].next
      BY <2>2 DEF NextHeader, kv
    <3>2. Linked(h, nx).next = nx
      BY DEF Linked
    <3> HIDE DEF h, nx
    <3> QED BY <2>3, <3>1, <3>2
  <2>9. Position(c, nx, rest, p + 1)
    <3>1. p + 1 \in 0..Len(R)
      BY <1>1, <2>1
    <3>2. CASE p + 1 < n
      BY <2>1, <3>1, <3>2 DEF Position, H, O, R, n
    <3>3. CASE ~(p + 1 < n)
      <4>1. p + 1 = n /\ nx = NULL
        BY <1>1, <1>6, <3>3
      <4>2. O = [i \in 1..Len(O) |-> O[i]]
        BY <1>1
      <4>3. Len(R) - (p + 1) = Len(O) /\ \A i \in 1..Len(O) : ((p + 1) - n) + i = i
        <5>1. Len(R) = n + Len(O) /\ n \in Nat /\ Len(O) \in Nat
          BY <1>1
        <5> QED BY <4>1, <5>1
      <4>4. rest = [i \in 1..(Len(R) - (p + 1)) |-> O[((p + 1) - n) + i]]
        BY <2>1, <4>2, <4>3
      <4> QED BY <3>1, <4>1, <4>4 DEF Position, H, O, R, n
    <3> QED BY <3>2, <3>3
  <2>10. ASSUME NEW s \in CallRecords, s.kv = kv, s.rest = rest
         PROVE  Advance(s, NextHeader(c)) = [s EXCEPT !.kv = nx, !.rest = rest]
    <3> HIDE DEF nx
    <3> QED BY <2>2, <2>8, <2>10 DEF Advance, CallRecords
  <2>11. ~AtEnd(c)
    BY <2>2 DEF AtEnd, kv
  <2>12. rest \in Seq(AppObjects)
    BY <1>1, <2>1
  <2> HIDE DEF h, nx
  <2> QED BY <2>1, <2>4, <2>7, <2>9, <2>10, <2>11, <2>12 DEF R, kv, rest
<1>7. CASE ~(p < n)
  <2> DEFINE m == Len(R) - p
             tl == [i \in 1..(m - 1) |-> O[((p + 1) - n) + i]]
  <2>1. kv = NULL /\ rest = [i \in 1..m |-> O[(p - n) + i]] /\ m \in Nat
    BY <1>1, <1>4, <1>5, <1>7 DEF Position, H, O, R, n
  <2>2. \A i \in 1..m : (p - n) + i \in 1..Len(O) /\ R[n + ((p - n) + i)] = O[(p - n) + i]
    BY <1>1, <1>5, <1>7
  <2>3. rest \in Seq(AppObjects) /\ Len(rest) = m
    <3>1. \A i \in 1..m : O[(p - n) + i] \in AppObjects
      BY <1>1, <2>2
    <3>2. rest \in [1..m -> AppObjects]
      BY <2>1, <3>1
    <3> HIDE DEF m
    <3> QED BY <2>1, <3>2
  <2>4. AtEnd(c) <=> p = Len(R)
    <3>1. AtEnd(c) <=> rest = <<>>
      BY <2>1 DEF AtEnd, kv, rest
    <3>2. rest = <<>> <=> m = 0
      <4> HIDE DEF m
      <4> QED BY <2>1, <2>3
    <3>3. m = 0 <=> p = Len(R)
      <4>1. Len(R) \in Nat
        BY <1>1
      <4> QED BY <1>5, <4>1
    <3> QED BY <3>1, <3>2, <3>3
  <2>5. ASSUME p < Len(R) PROVE Current(c) = R[p + 1]
    <3>1. m >= 1 /\ 1 \in 1..m /\ n + ((p - n) + 1) = p + 1
      BY <1>1, <1>5, <2>1, <2>5
    <3>2. Head(rest) = O[(p - n) + 1]
      <4> HIDE DEF m
      <4> QED BY <2>1, <2>3, <3>1
    <3>3. Current(c) = Head(rest)
      BY <2>1 DEF Current, kv, rest
    <3> QED BY <2>2, <3>1, <3>2, <3>3
  <2>6. ASSUME p < Len(R)
        PROVE  tl = Tail(rest) /\ tl \in Seq(AppObjects) /\ Position(c, NULL, tl, p + 1)
    <3>1. m >= 1 /\ m - 1 \in Nat /\ m - 1 = Len(R) - (p + 1) /\ p + 1 \in 0..Len(R)
      BY <1>1, <1>5, <2>1, <2>6
    <3>2. \A i \in 1..(m - 1) : i + 1 \in 1..m /\ (p - n) + (i + 1) = ((p + 1) - n) + i
      BY <1>1, <2>1, <3>1
    <3>3. Tail(rest) = [i \in 1..(m - 1) |-> rest[i + 1]]
      <4> HIDE DEF m
      <4>1. rest # <<>>
        BY <2>3, <3>1
      <4>2. /\ Tail(rest) \in Seq(AppObjects) /\ Len(Tail(rest)) = m - 1
            /\ \A i \in 1..(m - 1) : Tail(rest)[i] = rest[i + 1]
        BY <2>3, <3>1, <4>1, HeadTailProperties
      <4>3. \A q \in Seq(AppObjects) : q = [i \in 1..Len(q) |-> q[i]]
        OBVIOUS
      <4> QED BY <4>2, <4>3
    <3>4. \A i \in 1..(m - 1) : rest[i + 1] = O[((p + 1) - n) + i]
      <4> HIDE DEF m
      <4> QED BY <2>1, <3>2
    <3>5. tl = Tail(rest)
      <4> HIDE DEF m
      <4> QED BY <3>3, <3>4
    <3>6. tl \in Seq(AppObjects)
      <4> HIDE DEF m, tl
      <4> QED BY <2>3, <3>1, <3>5
    <3>7. tl = [i \in 1..(Len(R) - (p + 1)) |-> O[((p + 1) - n) + i]]
      BY <3>1
    <3>8. ~(p + 1 < n)
      BY <1>1, <1>7
    <3> HIDE DEF tl, m
    <3>9. Position(c, NULL, tl, p + 1)
      BY <3>1, <3>7, <3>8 DEF Position, H, O, R, n
    <3> QED BY <3>5, <3>6, <3>9
  <2>7. ASSUME NEW s \in CallRecords, s.kv = kv, s.rest = rest, p < Len(R)
        PROVE  Advance(s, NextHeader(c)) = [s EXCEPT !.kv = NULL, !.rest = tl]
    <3>1. tl = Tail(rest)
      BY <2>6, <2>7
    <3> HIDE DEF tl, m
    <3> QED BY <2>1, <2>7, <3>1 DEF Advance, CallRecords
  <2> HIDE DEF tl, m
  <2> QED BY <2>4, <2>5, <2>6, <2>7 DEF R, kv, rest
<1> QED BY <1>6, <1>7

(* The list of a call stays as it is while nobody writes its memory. *)
LEMMA BuiltSame ==
    ASSUME params \in Programs, NEW c \in Calls, NEW k \in Nat, BuiltTo(c, k), params' = params,
           call'[c].todo = call[c].todo, call'[c].hdrs = call[c].hdrs,
           \A x \in Own(c) : node'[x] = node[x]
    PROVE  BuiltTo(c, k)'
<1>1. Headers(c)' = Headers(c)
  BY SameParams
<1>2. \A i \in 1..Len(Headers(c)) : Headers(c)[i].node \in Own(c)
  BY HeadersForm DEF HeaderList
<1>3. k \in 0..Len(Headers(c)) /\ Len(Headers(c)) \in Nat
  BY HeadersForm DEF BuiltTo, HeaderList
<1>4. \A i \in 1..k : node'[Headers(c)[i].node] = node[Headers(c)[i].node]
  BY <1>2, <1>3
<1> QED BY <1>1, <1>4 DEF BuiltTo

(* A call does not notice the steps of others. *)
LEMMA CallFrame ==
    ASSUME params \in Programs, NEW d \in Calls, CallInv(d), params' = params, call'[d] = call[d],
           Active(d) => \A x \in Own(d) : node'[x] = node[x]
    PROVE  CallInv(d)'
<1>1. /\ Headers(d)' = Headers(d) /\ Objects(d)' = Objects(d) /\ Own(d)' = Own(d)
      /\ Requested(d)' = Requested(d)
  BY SameParams
<1>2. Active(d)' <=> Active(d)
  BY DEF Active
<1>3. BuildInv(d)'
  <2> SUFFICES ASSUME Active(d)
               PROVE  \E k \in Nat :
                         /\ BuiltTo(d, k)'
                         /\ call'[d].pc = "build" =>
                               call'[d].lasthdr = IF k = 0 THEN NULL ELSE Headers(d)'[k].node
                         /\ call'[d].pc = "append" => k > 0 /\ call'[d].kv = Headers(d)'[k].node
                         /\ call'[d].pc \notin {"build", "append"} => k = Len(Headers(d)')
    BY <1>2 DEF BuildInv
  <2>1. PICK k \in Nat :
           /\ BuiltTo(d, k)
           /\ call[d].pc = "build" => call[d].lasthdr = IF k = 0 THEN NULL ELSE Headers(d)[k].node
           /\ call[d].pc = "append" => k > 0 /\ call[d].kv = Headers(d)[k].node
           /\ call[d].pc \notin {"build", "append"} => k = Len(Headers(d))
    BY DEF CallInv, BuildInv
  <2>2. BuiltTo(d, k)'
    BY <2>1, BuiltSame
  <2> QED BY <1>1, <2>1, <2>2
<1>4. StageInv(d)'
  BY <1>1 DEF CallInv, StageInv, AtStage, AtPos, Position
<1>5. KvInv(d)'
  BY <1>1, <1>2 DEF CallInv, KvInv
<1> QED BY <1>3, <1>4, <1>5 DEF CallInv

(* What has to be shown of a step of one call that takes no structure of    *)
(* the application from another call.                                       *)
LEMMA ListFrame ==
    ASSUME ListInv, NEW c \in Calls, params' = params, Typed', CallInv(c)',
           \A d \in Calls \ {c} : call'[d] = call[d],
           \A d \in Calls \ {c} : Active(d) => \A x \in Own(d) : node'[x] = node[x],
           Active(c)' => \A d \in Calls \ {c} : Active(d) => Lists(c) \cap Lists(d) = {},
           call'[c].pc \in Writing <=> outlock' = c,
           \A d \in Calls \ {c} : outlock' = d <=> outlock = d
    PROVE  ListInv'
<1>1. \A d \in Calls : Lists(d)' = Lists(d)
  BY SameParams
<1>2. ASSUME NEW d \in Calls PROVE CallInv(d)'
  <2>1. CASE d = c
    BY <2>1
  <2>2. CASE d # c
    BY <2>2, CallFrame DEF ListInv, Typed
  <2> QED BY <2>1, <2>2
<1>3. \A d \in Calls \ {c} : Active(d)' <=> Active(d)
  BY DEF Active
<1>4. ListsApart'
  BY <1>1, <1>3 DEF ListInv, ListsApart
<1>5. LockInv'
  <2> SUFFICES ASSUME NEW d \in Calls PROVE call'[d].pc \in Writing <=> outlock' = d
    BY DEF LockInv
  <2>1. CASE d = c
    BY <2>1
  <2>2. CASE d # c
    BY <2>2 DEF ListInv, LockInv
  <2> QED BY <2>1, <2>2
<1> QED BY <1>2, <1>4, <1>5 DEF ListInv

(* The memory of two calls that run at the same time is apart. *)
LEMMA OwnApart ==
    ASSUME params \in Programs, NEW c \in Calls, NEW d \in Calls, c # d,
           Lists(c) \cap Lists(d) = {}
    PROVE  Own(c) \cap Own(d) = {}
<1>1. Lists(c) \subseteq Hashes /\ Lists(d) \subseteq Hashes
  BY ParamsForm
<1>2. \A x \in Stack(c) \cup Stack(d) : x \notin Hashes
  BY WriterAssumption
<1>3. Stack(c) \cap Stack(d) = {}
  BY DEF Stack
<1> QED BY <1>1, <1>2, <1>3 DEF Own

(* The encoding of what a call asks for *)
LEMMA RequestBody ==
    ASSUME params \in Programs, NEW c \in Calls
    PROVE  LET R == Requested(c) IN
           /\ R \in Seq(AllObjects) /\ Len(R) \in Nat
           /\ \A i \in 1..Len(R) : WellFormed(R[i]) /\ Encodable(R[i]) /\ R[i] \in AllObjects
           /\ Encoded(R, 0) = <<>> /\ Bytes(Encoded(R, 0)) = 0 /\ EndSyms \in Seq(Syms)
           /\ \A n \in 0..Len(R) : Encoded(R, n) \in Seq(Syms) /\ Bytes(Encoded(R, n)) \in Nat
           /\ \A n \in 0..Len(R) : n < Len(R) =>
                 /\ Encoded(R, n + 1) = Encoded(R, n) \o EncodeObject(R[n + 1])
                 /\ Bytes(Encoded(R, n + 1)) = Bytes(Encoded(R, n)) + Bytes(EncodeObject(R[n + 1]))
           /\ EncodeBody(R) = Encoded(R, Len(R)) \o EndSyms /\ EncodeBody(R) \in Seq(Syms)
           /\ Bytes(EncodeBody(R)) = Bytes(Encoded(R, Len(R))) + 4
<1> DEFINE R == Requested(c)
<1>1. R \in Seq(KvObjects \cup AppObjects) /\ \A i \in 1..Len(R) : WellFormed(R[i])
  BY RequestedForm
<1>2. Nothing \in AllObjects /\ KvObjects \cup AppObjects \subseteq AllObjects
  BY DEF AllObjects
<1> HIDE DEF R
<1>3. R \in Seq(AllObjects) /\ Len(R) \in Nat /\ \A i \in 1..Len(R) : R[i] \in AllObjects
  <2> DEFINE B == KvObjects \cup AppObjects
  <2>1. R \in Seq(B) /\ B \subseteq AllObjects
    BY <1>1, <1>2
  <2> HIDE DEF B
  <2>2. Len(R) \in Nat /\ R \in [1..Len(R) -> AllObjects]
    BY <2>1
  <2> QED BY <2>2
<1>4. \A i \in 1..Len(R) : Encodable(R[i])
  BY <1>1 DEF WellFormed
<1> QED BY <1>1, <1>2, <1>3, <1>4, BodyEncoding, Zenon DEF R, Syms

(* The loops over a frame begin with its first object. *)
LEMMA AtStart ==
    ASSUME Typed, NEW c \in Calls, BuiltTo(c, Len(Headers(c)))
    PROVE  Position(c, call[c].hdrs, Objects(c), 0) /\ call[c].hdrs \in Own(c) \cup {NULL}
<1> DEFINE H == Headers(c)
           O == Objects(c)
           R == Requested(c)
<1>1. /\ H \in Seq(Entries) /\ O \in Seq(AppObjects) /\ Len(R) = Len(H) + Len(O)
      /\ Len(H) \in Nat /\ Len(O) \in Nat
  BY RequestedForm DEF Typed
<1>2. call[c].hdrs = IF Len(H) = 0 THEN NULL ELSE H[1].node
  BY DEF BuiltTo
<1>3. \A i \in 1..Len(H) : H[i].node \in Own(c)
  BY HeadersForm DEF HeaderList, Typed
<1>4. Len(H) = 0 => O = [i \in 1..(Len(R) - 0) |-> O[(0 - Len(H)) + i]]
  <2> SUFFICES ASSUME Len(H) = 0 PROVE O = [i \in 1..(Len(R) - 0) |-> O[(0 - Len(H)) + i]]
    OBVIOUS
  <2>1. Len(R) - 0 = Len(O) /\ \A i \in 1..Len(O) : (0 - Len(H)) + i = i
    BY <1>1
  <2>2. O = [i \in 1..Len(O) |-> O[i]]
    BY <1>1
  <2> HIDE DEF O, R, H
  <2> QED BY <2>1, <2>2
<1>5. 0 \in 0..Len(R) /\ (0 < Len(H) <=> Len(H) # 0) /\ (0 >= Len(H) <=> Len(H) = 0) /\ 0 + 1 = 1
  BY <1>1
<1>6. call[c].hdrs \in Own(c) \cup {NULL}
  BY <1>1, <1>2, <1>3
<1> HIDE DEF O, R, H
<1>7. Position(c, call[c].hdrs, Objects(c), 0)
  BY <1>2, <1>4, <1>5 DEF Position, O, R, H
<1> QED BY <1>6, <1>7

(* A call whose list is built has all of it in memory. *)
LEMMA BuiltAll ==
    ASSUME ListInv, NEW c \in Calls, Active(c), call[c].pc \notin {"build", "append"}
    PROVE  BuiltTo(c, Len(Headers(c)))
  BY DEF ListInv, CallInv, BuildInv

(* A round of bw2_frameLength: the bytes of one more object are counted, or *)
(* the sum is what the frame header states.                                 *)
LEMMA LengthStage ==
    ASSUME ListInv, NEW c \in Calls, FrameLength(c), NEW p \in Nat, AtStage(c, p)
    PROVE  \E kv \in Own(c) \cup {NULL}, rest \in Seq(AppObjects), fl \in Nat :
             IF p = Len(Requested(c))
             THEN /\ call'[c] = [call[c] EXCEPT !.pc = "frhdr", !.written = 0, !.kv = kv, !.rest = rest]
                  /\ call[c].framelen = Bytes(EncodeBody(Requested(c))) /\ Position(c, kv, rest, 0)
             ELSE /\ call'[c] = [call[c] EXCEPT !.framelen = fl, !.kv = kv, !.rest = rest]
                  /\ fl = 4 + Bytes(Encoded(Requested(c), p + 1)) /\ Position(c, kv, rest, p + 1)
<1> DEFINE R == Requested(c)
<1>1. /\ params \in Programs /\ Typed /\ call[c].pc = "length" /\ call[c] \in CallRecords
      /\ AtPos(c, p) /\ call[c].framelen = 4 + Bytes(Encoded(R, p))
  BY DEF ListInv, Typed, FrameLength, AtStage
<1>2. BuiltTo(c, Len(Headers(c)))
  BY <1>1, BuiltAll DEF Active
<1>3. /\ AtEnd(c) <=> p = Len(R)
      /\ p < Len(R) => Current(c) = R[p + 1]
      /\ p < Len(R) => \A s \in CallRecords :
                 s.kv = call[c].kv /\ s.rest = call[c].rest =>
                    \E kv \in Own(c) \cup {NULL}, rest \in Seq(AppObjects) :
                       /\ Position(c, kv, rest, p + 1)
                       /\ Advance(s, NextHeader(c)) = [s EXCEPT !.kv = kv, !.rest = rest]
  BY <1>1, <1>2, Moves
<1>4. p \in 0..Len(R) /\ Len(R) \in Nat
  BY <1>1, RequestBody DEF AtPos, Position
<1>5. call'[c] = IF AtEnd(c)
                 THEN [call[c] EXCEPT !.pc = "frhdr", !.written = 0,
                                      !.kv = call[c].hdrs, !.rest = Objects(c)]
                 ELSE [Advance(call[c], NextHeader(c)) EXCEPT
                                      !.framelen = call[c].framelen + Length(Current(c))]
  BY <1>1 DEF FrameLength, Typed
<1>6. CASE p = Len(R)
  <2>1. Position(c, call[c].hdrs, Objects(c), 0) /\ call[c].hdrs \in Own(c) \cup {NULL}
    BY <1>1, <1>2, AtStart
  <2>2. Objects(c) \in Seq(AppObjects)
    BY <1>1, RequestedForm
  <2>3. call[c].framelen = Bytes(EncodeBody(R))
    <3>1. Bytes(EncodeBody(R)) = Bytes(Encoded(R, Len(R))) + 4 /\ Bytes(Encoded(R, Len(R))) \in Nat
      BY <1>1, <1>4, RequestBody
    <3> QED BY <1>1, <1>6, <3>1
  <2> HIDE DEF R
  <2>4. call'[c] = [call[c] EXCEPT !.pc = "frhdr", !.written = 0,
                                   !.kv = call[c].hdrs, !.rest = Objects(c)]
    BY <1>3, <1>5, <1>6
  <2> QED BY <1>6, <2>1, <2>2, <2>3, <2>4 DEF R
<1>7. CASE p # Len(R)
  <2> DEFINE fl == call[c].framelen + Length(Current(c))
  <2>1. p < Len(R) /\ p + 1 \in 1..Len(R)
    BY <1>4, <1>7
  <2>2. PICK kv \in Own(c) \cup {NULL}, rest \in Seq(AppObjects) :
           /\ Position(c, kv, rest, p + 1)
           /\ Advance(call[c], NextHeader(c)) = [call[c] EXCEPT !.kv = kv, !.rest = rest]
    BY <1>1, <1>3, <2>1
  <2>3. fl = 4 + Bytes(Encoded(R, p + 1)) /\ fl \in Nat
    <3>1. /\ Bytes(Encoded(R, p + 1)) = Bytes(Encoded(R, p)) + Bytes(EncodeObject(R[p + 1]))
          /\ Bytes(Encoded(R, p)) \in Nat /\ WellFormed(R[p + 1])
      BY <1>1, <1>4, <2>1, RequestBody
    <3>2. Length(R[p + 1]) = Bytes(EncodeObject(R[p + 1])) /\ Length(R[p + 1]) \in Nat
      BY <3>1 DEF WellFormed
    <3>3. Current(c) = R[p + 1]
      BY <1>3, <2>1
    <3> HIDE DEF R
    <3> QED BY <1>1, <3>1, <3>2, <3>3
  <2> HIDE DEF R, fl
  <2>4. call'[c] = [[call[c] EXCEPT !.kv = kv, !.rest = rest] EXCEPT !.framelen = fl]
    BY <1>3, <1>5, <1>7, <2>2 DEF fl
  <2>5. call'[c] = [call[c] EXCEPT !.framelen = fl, !.kv = kv, !.rest = rest]
    BY <1>1, <2>4 DEF CallRecords
  <2> QED BY <1>7, <2>2, <2>3, <2>5 DEF R
<1> QED BY <1>6, <1>7

(* A loop over a frame ends after its last object. *)
LEMMA PositionEnd ==
    ASSUME params \in Programs, NEW c \in Calls, NEW p \in Nat, NEW kv, NEW rest,
           Position(c, kv, rest, p)
    PROVE  (kv = NULL /\ rest = <<>>) <=> p = Len(Requested(c))
<1> DEFINE H == Headers(c)
           O == Objects(c)
           R == Requested(c)
           m == Len(R) - p
<1>1. /\ Len(R) = Len(H) + Len(O) /\ Len(H) \in Nat /\ Len(O) \in Nat /\ p \in 0..Len(R)
  BY RequestedForm DEF Position
<1>2. \A i \in 1..Len(H) : H[i].node # NULL
  BY HeadersForm, ParamsForm, WriterAssumption DEF HeaderList
<1>3. CASE p < Len(H)
  <2>1. kv = H[p + 1].node /\ p + 1 \in 1..Len(H) /\ p # Len(R)
    BY <1>1, <1>3 DEF Position
  <2> QED BY <1>2, <2>1
<1>4. CASE ~(p < Len(H))
  <2>1. kv = NULL /\ rest = [i \in 1..m |-> O[(p - Len(H)) + i]] /\ m \in Nat
    BY <1>1, <1>4 DEF Position
  <2>2. rest = <<>> <=> m = 0
    <3> HIDE DEF m, O, H
    <3> QED BY <2>1
  <2>3. m = 0 <=> p = Len(R)
    BY <1>1
  <2> QED BY <2>1, <2>2, <2>3
<1> QED BY <1>3, <1>4

(* The order of the arrays of a frame: the frame header, then local header, *)
(* value and newline of each object, then the end.  Following is the number *)
(* of objects before the array that follows the one at pc.                  *)
Following(pc, p) == IF pc = "newline" THEN p + 1 ELSE p
PartAfter(c, pc, p) ==
    CASE pc = "local" -> "value"
      [] pc = "value" -> "newline"
      [] OTHER -> IF Following(pc, p) = Len(Requested(c)) THEN "end" ELSE "local"

MovesOn(c, p) ==
    \E kv \in Own(c) \cup {NULL}, rest \in Seq(AppObjects), pc \in Parts, q \in Nat :
        /\ call'[c] = [call[c] EXCEPT !.pc = pc, !.written = 0, !.kv = kv, !.rest = rest]
        /\ Position(c, kv, rest, q)
        /\ q = Following(call[c].pc, p) /\ pc = PartAfter(c, call[c].pc, p)

(* After an array, bw2_writeFrame goes on to the one that follows it. *)
LEMMA ArrayStage ==
    ASSUME ListInv, NEW c \in Calls, ArrayDone(c), NEW p \in Nat, AtStage(c, p)
    PROVE  MovesOn(c, p)
<1> DEFINE R == Requested(c)
           s == [call[c] EXCEPT !.written = 0]
           u == IF s.pc = "newline" THEN Advance(s, NextHeader(c)) ELSE s
           finished == u.kv = NULL /\ u.rest = <<>>
           npc == CASE s.pc = "local" -> "value"
                    [] s.pc = "value" -> "newline"
                    [] OTHER -> IF finished THEN "end" ELSE "local"
           q == IF call[c].pc = "newline" THEN p + 1 ELSE p
<1>1. /\ params \in Programs /\ Typed /\ call[c].pc \in Parts \ {"end"} /\ call[c] \in CallRecords
      /\ AtPos(c, p) /\ (call[c].pc = "newline" => p < Len(R)) /\ KvInv(c)
  BY DEF ListInv, Typed, ArrayDone, AtStage, CallInv
<1>2. BuiltTo(c, Len(Headers(c)))
  BY <1>1, BuiltAll DEF Active, Parts
<1>3. /\ s \in CallRecords /\ s.kv = call[c].kv /\ s.rest = call[c].rest /\ s.pc = call[c].pc
  BY <1>1 DEF CallRecords
<1>4. call'[c] = [u EXCEPT !.pc = npc]
  BY <1>1 DEF ArrayDone, Typed
<1>5. p \in 0..Len(R) /\ Len(R) \in Nat /\ q \in Nat
  BY <1>1, RequestBody DEF AtPos, Position
<1>6. PICK kv \in Own(c) \cup {NULL}, rest \in Seq(AppObjects) :
         u = [s EXCEPT !.kv = kv, !.rest = rest] /\ Position(c, kv, rest, q)
  <2>1. CASE call[c].pc = "newline"
    <3>1. \E kv \in Own(c) \cup {NULL}, rest \in Seq(AppObjects) :
             /\ Position(c, kv, rest, p + 1)
             /\ Advance(s, NextHeader(c)) = [s EXCEPT !.kv = kv, !.rest = rest]
      <4> HIDE DEF s
      <4> QED BY <1>1, <1>2, <1>3, <2>1, Moves
    <3> HIDE DEF s
    <3> QED BY <1>3, <2>1, <3>1
  <2>2. CASE call[c].pc # "newline"
    <3> HIDE DEF s
    <3>1. u = s /\ q = p
      BY <1>3, <2>2
    <3>2. s = [s EXCEPT !.kv = s.kv, !.rest = s.rest] /\ s.rest \in Seq(AppObjects)
      BY <1>3 DEF CallRecords
    <3>3. s.kv \in Own(c) \cup {NULL}
      BY <1>1, <1>3 DEF KvInv, Active, Parts
    <3>4. Position(c, s.kv, s.rest, q)
      BY <1>1, <1>3, <3>1 DEF AtPos
    <3> HIDE DEF u, q
    <3> QED BY <3>1, <3>2, <3>3, <3>4
  <2> QED BY <2>1, <2>2
<1>7. u.kv = kv /\ u.rest = rest
  <2> HIDE DEF s, u
  <2> QED BY <1>3, <1>6 DEF CallRecords
<1>8. finished <=> q = Len(R)
  <2> HIDE DEF s, u, q, R
  <2>1. (kv = NULL /\ rest = <<>>) <=> q = Len(R)
    BY <1>1, <1>5, <1>6, PositionEnd DEF R
  <2> QED BY <1>7, <2>1
<1> DEFINE pc == CASE call[c].pc = "local" -> "value"
                   [] call[c].pc = "value" -> "newline"
                   [] OTHER -> IF q = Len(R) THEN "end" ELSE "local"
<1>9. npc = pc /\ pc \in Parts
  <2> HIDE DEF s, u, q, R, finished
  <2> QED BY <1>3, <1>8 DEF Parts
<1>10. call'[c] = [call[c] EXCEPT !.pc = pc, !.written = 0, !.kv = kv, !.rest = rest]
  <2> HIDE DEF u, q, R, finished, npc, pc
  <2> QED BY <1>1, <1>4, <1>6, <1>9 DEF CallRecords
<1> HIDE DEF s, u, finished, npc
<1> QED BY <1>5, <1>6, <1>9, <1>10 DEF MovesOn, Following, PartAfter

-----------------------------------------------------------------------------
(* A call that has not begun *)
LEMMA NewCallTyped == NewCall \in CallRecords /\ NewCall.pc = "idle"
  BY WriterAssumption DEF NewCall, CallRecords, Pcs, Rvs

(* The invariant holds at the beginning. *)
LEMMA ListInit == ASSUME Init PROVE ListInv
<1>1. NewCall \in CallRecords
  BY NewCallTyped
<1>2. [key |-> "none", len |-> 0, blob |-> NULL, next |-> Wild] \in NodeRecords
  BY DEF NodeRecords
<1>3. Typed
  <2>1. call \in [Calls -> CallRecords] /\ node \in [Nodes -> NodeRecords]
    BY <1>1, <1>2 DEF Init
  <2>2. 0 \in 0..(SeqnoMax - 1)
    BY WriterAssumption
  <2> QED BY <2>1, <2>2 DEF Init, Typed
<1>4. \A c \in Calls : call[c].pc = "idle"
  BY DEF Init, NewCall
<1>5. \A c \in Calls : CallInv(c)
  BY <1>4 DEF CallInv, BuildInv, StageInv, KvInv, Active, Writing, Parts
<1>6. ListsApart /\ LockInv
  BY <1>4, WriterAssumption DEF ListsApart, LockInv, Active, Writing, Parts, Init
<1> QED BY <1>3, <1>5, <1>6 DEF ListInv

(* A call begins with an empty list, and with structures nobody else has. *)
LEMMA StartList == ASSUME ListInv, NEW c \in Calls, Start(c) PROVE ListInv'
<1> DEFINE H == Headers(c)
           r == [NewCall EXCEPT !.pc = "build", !.todo = H, !.seqno = curseqno]
<1>1. /\ params' = params /\ node' = node /\ outlock' = outlock /\ Typed
      /\ connected' = connected /\ fd' = fd /\ passed' = passed /\ call[c].pc = "idle"
      /\ call' = [call EXCEPT ![c] = r] /\ curseqno' = NextSeqno(curseqno)
      /\ \A d \in Calls : Active(d) => Lists(c) \cap Lists(d) = {}
  BY DEF Start, ListInv
<1>2. H \in Seq(Entries)
  BY <1>1, HeadersForm DEF Typed, HeaderList
<1> HIDE DEF H
<1>3. /\ r \in CallRecords /\ r.pc = "build" /\ r.todo = H /\ r.hdrs = NULL
      /\ r.lasthdr = NULL /\ r.kv = NULL
  <2>1. r \in CallRecords
    BY <1>1, <1>2, NewCallTyped DEF Typed, CallRecords, Pcs
  <2> QED BY <2>1 DEF NewCall
<1> HIDE DEF r
<1>4. call' \in [Calls -> CallRecords] /\ call'[c] = r /\ \A d \in Calls \ {c} : call'[d] = call[d]
  BY <1>1, <1>3 DEF Typed
<1>5. curseqno' \in 0..(SeqnoMax - 1)
  BY <1>1, WriterAssumption DEF Typed, NextSeqno
<1>6. Typed'
  BY <1>1, <1>4, <1>5 DEF Typed
<1>7. Headers(c)' = H
  BY <1>1, SameParams DEF H
<1>8. BuiltTo(c, 0)'
  <2>1. Len(H) \in Nat /\ H = [i \in 1..Len(H) |-> H[i]] /\ \A i \in 1..Len(H) : 0 + i = i
    BY <1>2
  <2>2. Len(H) - 0 = Len(H)
    BY <2>1
  <2>3. H = [i \in 1..(Len(H) - 0) |-> H[0 + i]]
    BY <2>1, <2>2
  <2> QED BY <1>3, <1>4, <1>7, <2>1, <2>3 DEF BuiltTo
<1>9. CallInv(c)'
  BY <1>3, <1>4, <1>8 DEF CallInv, BuildInv, StageInv, KvInv, Writing, Parts
<1>10. outlock # c
  BY <1>1 DEF ListInv, LockInv, Writing, Parts
<1>11. call'[c].pc \in Writing <=> outlock' = c
  BY <1>1, <1>3, <1>4, <1>10 DEF Writing, Parts
<1> QED BY <1>1, <1>4, <1>6, <1>9, <1>11, ListFrame

(* One header more is in memory, at the end of the list. *)
LEMMA AddHeaderList == ASSUME ListInv, NEW c \in Calls, AddHeader(c) PROVE ListInv'
<1> DEFINE H == Headers(c)
           h == Head(call[c].todo)
           last == call[c].lasthdr
           m == [node EXCEPT ![h.node] = KVInit(h)]
<1>1. /\ params' = params /\ outlock' = outlock /\ Typed /\ curseqno' = curseqno
      /\ connected' = connected /\ fd' = fd /\ passed' = passed
      /\ call[c].pc = "build" /\ call[c].todo # <<>> /\ call[c] \in CallRecords
      /\ node' = IF last = NULL THEN m ELSE [m EXCEPT ![last].next = h.node]
      /\ call' = [call EXCEPT ![c] = [call[c] EXCEPT !.pc = "append", !.todo = Tail(call[c].todo),
                      !.hdrs = IF last = NULL THEN h.node ELSE call[c].hdrs, !.kv = h.node]]
  BY DEF AddHeader, ListInv, Typed
<1>2. Active(c)
  BY <1>1 DEF Active
<1>3. PICK k \in Nat : BuiltTo(c, k) /\ last = IF k = 0 THEN NULL ELSE H[k].node
  BY <1>1, <1>2 DEF ListInv, CallInv, BuildInv
<1>4. /\ H \in Seq(Entries) /\ Len(H) \in Nat
      /\ \A i \in 1..Len(H) : /\ H[i] \in Entries /\ H[i].node \in Own(c) /\ H[i].node \in Nodes
                               /\ H[i].node # NULL
      /\ \A i, j \in 1..Len(H) : H[i].node = H[j].node => i = j
  BY <1>1, HeadersForm, ParamsForm, WriterAssumption DEF HeaderList, Typed
<1>5. /\ k \in 0..Len(H) /\ call[c].todo = [i \in 1..(Len(H) - k) |-> H[k + i]]
      /\ call[c].hdrs = IF k = 0 THEN NULL ELSE H[1].node
      /\ \A i \in 1..k : node[H[i].node] = Linked(H[i], IF i < k THEN H[i + 1].node ELSE NULL)
  BY <1>3 DEF BuiltTo
<1> HIDE DEF H
<1>6. k < Len(H) /\ k + 1 \in 1..Len(H) /\ h = H[k + 1]
  <2> DEFINE n == Len(H) - k
  <2>1. n \in Nat
    BY <1>4, <1>5
  <2>2. n # 0
    <3> HIDE DEF n
    <3>1. n = 0 => call[c].todo = <<>>
      BY <1>5 DEF n
    <3> QED BY <1>1, <3>1
  <2>3. Head(call[c].todo) = call[c].todo[1]
    BY <1>1 DEF CallRecords
  <2>4. call[c].todo[1] = H[k + 1]
    BY <1>5, <2>1, <2>2
  <2> QED BY <1>4, <1>5, <2>1, <2>2, <2>3, <2>4
<1>7. Tail(call[c].todo) = [i \in 1..(Len(H) - (k + 1)) |-> H[(k + 1) + i]] /\ Tail(call[c].todo) \in Seq(Entries)
  <2> DEFINE td == call[c].todo
             n == Len(H) - k
  <2>1. td \in Seq(Entries) /\ td # <<>> /\ n \in Nat /\ n - 1 = Len(H) - (k + 1) /\ n - 1 \in Nat
    BY <1>1, <1>4, <1>5, <1>6 DEF CallRecords
  <2>2. Len(td) = n /\ \A i \in 1..(n - 1) : td[i + 1] = H[(k + 1) + i]
    <3>1. \A i \in 1..(n - 1) : i + 1 \in 1..n /\ k + (i + 1) = (k + 1) + i
      BY <2>1, <1>5
    <3> HIDE DEF n
    <3>2. td = [i \in 1..n |-> H[k + i]]
      BY <1>5 DEF n
    <3> HIDE DEF td
    <3> QED BY <2>1, <3>1, <3>2
  <2> HIDE DEF td
  <2>3. /\ Tail(td) \in Seq(Entries) /\ Len(Tail(td)) = n - 1
        /\ \A i \in 1..(n - 1) : Tail(td)[i] = td[i + 1]
    <3> HIDE DEF n
    <3> QED BY <2>1, <2>2, HeadTailProperties
  <2>4. \A s \in Seq(Entries) : s = [i \in 1..Len(s) |-> s[i]]
    OBVIOUS
  <2>5. Tail(td) = [i \in 1..(n - 1) |-> H[(k + 1) + i]]
    <3> HIDE DEF n
    <3> QED BY <2>2, <2>3, <2>4
  <2> QED BY <2>1, <2>3, <2>5 DEF td
<1>8. h \in Entries /\ h.node \in Own(c) /\ h.node \in Nodes /\ h.node # NULL
  BY <1>4, <1>6
<1> HIDE DEF h
<1>9. KVInit(h) = Linked(h, NULL) /\ KVInit(h) \in NodeRecords
  BY <1>8 DEF KVInit, Linked, NodeRecords, Entries, Values
<1>10. last # NULL => k # 0 /\ k \in 1..Len(H) /\ last = H[k].node /\ last \in Nodes /\ last # h.node
  BY <1>3, <1>4, <1>5, <1>6
<1>11. last = NULL => k = 0
  BY <1>3, <1>4, <1>5
<1>12. /\ node' \in [Nodes -> NodeRecords] /\ node'[h.node] = Linked(h, NULL)
       /\ \A x \in Nodes : x # h.node /\ x # last => node'[x] = node[x]
       /\ last # NULL => node'[last] = [node[last] EXCEPT !.next = h.node]
  <2>1. m \in [Nodes -> NodeRecords] /\ m[h.node] = Linked(h, NULL) /\ \A x \in Nodes : x # h.node => m[x] = node[x]
    BY <1>1, <1>8, <1>9 DEF Typed
  <2> HIDE DEF m, last
  <2>2. CASE last = NULL
    BY <1>1, <2>1, <2>2
  <2>3. CASE last # NULL
    <3>1. node' = [m EXCEPT ![last] = [m[last] EXCEPT !.next = h.node]]
      BY <1>1, <2>3
    <3>2. m[last] = node[last] /\ m[last] \in NodeRecords
      BY <1>10, <2>1, <2>3
    <3>3. [m[last] EXCEPT !.next = h.node] \in NodeRecords
      BY <1>8, <3>2 DEF NodeRecords
    <3> QED BY <1>8, <1>10, <2>1, <2>3, <3>1, <3>2, <3>3
  <2> QED BY <2>2, <2>3
<1> DEFINE r == [call[c] EXCEPT !.pc = "append", !.todo = Tail(call[c].todo),
                      !.hdrs = IF last = NULL THEN h.node ELSE call[c].hdrs, !.kv = h.node]
<1>13. /\ r \in CallRecords /\ r.pc = "append" /\ r.kv = h.node /\ r.todo = Tail(call[c].todo)
       /\ r.hdrs = IF last = NULL THEN h.node ELSE call[c].hdrs
  BY <1>1, <1>7, <1>8 DEF CallRecords, Pcs
<1>14. call' \in [Calls -> CallRecords] /\ call'[c] = r /\ \A d \in Calls \ {c} : call'[d] = call[d]
  <2> HIDE DEF r
  <2> QED BY <1>1, <1>13 DEF Typed, r
<1> HIDE DEF r, m
<1>15. Typed'
  BY <1>1, <1>12, <1>14 DEF Typed
<1>16. Headers(c)' = H /\ Own(c)' = Own(c)
  BY <1>1, SameParams DEF H
<1>17. \A i \in 1..(k + 1) :
          node'[H[i].node] = Linked(H[i], IF i < k + 1 THEN H[i + 1].node ELSE NULL)
  <2> SUFFICES ASSUME NEW i \in 1..(k + 1)
               PROVE  node'[H[i].node] = Linked(H[i], IF i < k + 1 THEN H[i + 1].node ELSE NULL)
    OBVIOUS
  <2>1. CASE i = k + 1
    BY <1>6, <1>12, <2>1
  <2>2. CASE i = k
    <3>1. k # 0 /\ last # NULL /\ last = H[k].node
      BY <1>3, <1>4, <1>5, <2>2
    <3>2. node[H[k].node] = Linked(H[k], NULL)
      BY <1>5, <2>2
    <3>3. node'[H[k].node] = [Linked(H[k], NULL) EXCEPT !.next = H[k + 1].node]
      BY <1>6, <1>12, <3>1, <3>2
    <3>4. node'[H[k].node] = Linked(H[k], H[k + 1].node)
      BY <3>3 DEF Linked
    <3> QED BY <2>2, <3>4
  <2>3. CASE i < k
    <3>1. i \in 1..k /\ i \in 1..Len(H) /\ k \in 1..Len(H)
      BY <1>5, <2>3
    <3>2. H[i].node # h.node /\ H[i].node # last /\ H[i].node \in Nodes
      BY <1>3, <1>4, <1>6, <2>3, <3>1
    <3> QED BY <1>5, <1>12, <2>3, <3>1, <3>2
  <2> QED BY <2>1, <2>2, <2>3
<1>18. call'[c].hdrs = H[1].node
  BY <1>5, <1>6, <1>10, <1>11, <1>13, <1>14
<1>19. BuiltTo(c, k + 1)'
  <2>1. k + 1 \in 0..Len(H) /\ k + 1 # 0
    BY <1>6
  <2> QED BY <1>7, <1>13, <1>14, <1>16, <1>17, <1>18, <2>1 DEF BuiltTo
<1>20. CallInv(c)'
  <2>1. k + 1 \in Nat /\ k + 1 > 0 /\ call'[c].kv = H[k + 1].node /\ call'[c].pc = "append"
    BY <1>6, <1>13, <1>14
  <2>2. BuildInv(c)'
    BY <1>16, <1>19, <2>1 DEF BuildInv
  <2> QED BY <1>8, <1>13, <1>14, <1>16, <2>1, <2>2 DEF CallInv, StageInv, KvInv, Writing, Parts
<1>21. ASSUME NEW d \in Calls \ {c}, Active(d)
       PROVE  Lists(c) \cap Lists(d) = {} /\ \A x \in Own(d) : node'[x] = node[x]
  <2>1. Lists(c) \cap Lists(d) = {}
    BY <1>2, <1>21 DEF ListInv, ListsApart
  <2>2. Own(c) \cap Own(d) = {} /\ Own(d) \subseteq Nodes
    BY <1>1, <2>1, OwnApart, ParamsForm DEF Typed
  <2>3. last # NULL => last \in Own(c)
    BY <1>4, <1>10
  <2>4. \A x \in Own(d) : x # h.node /\ x # last
    BY <1>8, <2>2, <2>3, WriterAssumption
  <2> QED BY <1>12, <2>1, <2>2, <2>4
<1>22. outlock # c
  BY <1>1 DEF ListInv, LockInv, Writing, Parts
<1>23. call'[c].pc \in Writing <=> outlock' = c
  BY <1>1, <1>13, <1>14, <1>22 DEF Writing, Parts
<1> QED BY <1>1, <1>14, <1>15, <1>20, <1>21, <1>23, ListFrame

(* The header just added is the end of the list. *)
LEMMA AppendKVList == ASSUME ListInv, NEW c \in Calls, AppendKV(c) PROVE ListInv'
<1> DEFINE H == Headers(c)
           r == [call[c] EXCEPT !.lasthdr = call[c].kv, !.kv = NULL, !.pc = "build"]
<1>1. /\ params' = params /\ node' = node /\ outlock' = outlock /\ Typed /\ curseqno' = curseqno
      /\ connected' = connected /\ fd' = fd /\ passed' = passed
      /\ call[c].pc = "append" /\ call[c] \in CallRecords
      /\ call' = [call EXCEPT ![c] = [call[c] EXCEPT !.lasthdr = call[c].kv,
                      !.kv = node[call[c].kv].next,
                      !.pc = IF node[call[c].kv].next = NULL THEN "build" ELSE "append"]]
  BY DEF AppendKV, ListInv, Typed
<1>2. Active(c)
  BY <1>1 DEF Active
<1>3. PICK k \in Nat : BuiltTo(c, k) /\ k > 0 /\ call[c].kv = H[k].node
  BY <1>1, <1>2 DEF ListInv, CallInv, BuildInv
<1>4. node[call[c].kv].next = NULL
  <2>1. node[H[k].node] = Linked(H[k], NULL)
    BY <1>3 DEF BuiltTo
  <2> HIDE DEF H
  <2>2. node[call[c].kv] = Linked(H[k], NULL)
    BY <1>3, <2>1
  <2> QED BY <2>2 DEF Linked
<1>5. call' = [call EXCEPT ![c] = r]
  BY <1>1, <1>4
<1>6. /\ r \in CallRecords /\ r.pc = "build" /\ r.kv = NULL /\ r.lasthdr = call[c].kv
      /\ r.todo = call[c].todo /\ r.hdrs = call[c].hdrs
  BY <1>1 DEF CallRecords, Pcs
<1> HIDE DEF r
<1>7. call' \in [Calls -> CallRecords] /\ call'[c] = r /\ \A d \in Calls \ {c} : call'[d] = call[d]
  BY <1>1, <1>5, <1>6 DEF Typed
<1>8. Typed'
  BY <1>1, <1>7 DEF Typed
<1>9. BuiltTo(c, k)' /\ Headers(c)' = H
  BY <1>1, <1>3, <1>6, <1>7, BuiltSame, SameParams DEF Typed
<1>10. CallInv(c)'
  <2>1. BuildInv(c)'
    BY <1>3, <1>6, <1>7, <1>9 DEF BuildInv
  <2> QED BY <1>6, <1>7, <2>1 DEF CallInv, StageInv, KvInv, Writing, Parts
<1>11. outlock # c
  BY <1>1 DEF ListInv, LockInv, Writing, Parts
<1>12. call'[c].pc \in Writing <=> outlock' = c
  BY <1>1, <1>6, <1>7, <1>11 DEF Writing, Parts
<1>13. \A d \in Calls \ {c} : Active(d) => Lists(c) \cap Lists(d) = {}
  BY <1>2 DEF ListInv, ListsApart
<1> QED BY <1>1, <1>7, <1>8, <1>10, <1>12, <1>13, ListFrame

(* What has to be shown of a step after the list is built. *)
LEMMA LaterList ==
    ASSUME ListInv, NEW c \in Calls, NEW r \in CallRecords, Active(c), params' = params,
           node' = node, curseqno' = curseqno, call' = [call EXCEPT ![c] = r],
           r.todo = call[c].todo, r.hdrs = call[c].hdrs, call[c].pc # "append",
           call[c].pc = "build" => call[c].todo = <<>>,
           r.pc \notin {"idle", "build", "append"},
           r.pc # "returned" => r.kv \in Own(c) \cup {NULL},
           r.pc \in Writing => \E p \in Nat : AtStage(c, p)',
           r.pc \in Writing <=> outlock' = c,
           \A d \in Calls \ {c} : outlock' = d <=> outlock = d,
           outlock' \in Calls \cup {NULL}, fd' \in {"open", "closed"},
           connected' \in BOOLEAN, passed' \in BOOLEAN
    PROVE  ListInv'
<1>1. Typed
  BY DEF ListInv
<1>2. call' \in [Calls -> CallRecords] /\ call'[c] = r /\ \A d \in Calls \ {c} : call'[d] = call[d]
  BY <1>1 DEF Typed
<1>3. Typed'
  BY <1>1, <1>2 DEF Typed
<1>4. PICK k \in Nat :
         BuiltTo(c, k) /\ (call[c].pc \notin {"build", "append"} => k = Len(Headers(c)))
  BY DEF ListInv, CallInv, BuildInv
<1>5. k = Len(Headers(c))
  <2> DEFINE H == Headers(c)
             n == Len(H) - k
  <2>1. H \in Seq(Entries) /\ Len(H) \in Nat
    BY <1>1, HeadersForm DEF Typed, HeaderList
  <2>2. k \in 0..Len(H) /\ call[c].todo = [i \in 1..n |-> H[k + i]]
    BY <1>4 DEF BuiltTo
  <2>3. n \in Nat
    BY <2>1, <2>2
  <2>4. CASE call[c].pc = "build"
    <3>1. n = 0
      <4> HIDE DEF n, H
      <4>1. \A f : f = [i \in 1..n |-> H[k + i]] /\ f = <<>> => 1..n = {}
        OBVIOUS
      <4>2. 1..n = {}
        BY <2>2, <2>4, <4>1
      <4> QED BY <2>3, <4>2
    <3> QED BY <2>1, <3>1
  <2> QED BY <1>4, <2>4
<1>6. BuiltTo(c, k)' /\ Headers(c)' = Headers(c) /\ Own(c)' = Own(c)
  BY <1>1, <1>2, <1>4, BuiltSame, SameParams DEF Typed
<1>7. BuildInv(c)'
  BY <1>2, <1>5, <1>6 DEF BuildInv
<1>8. StageInv(c)' /\ KvInv(c)'
  BY <1>2, <1>6 DEF StageInv, KvInv, Active
<1>9. CallInv(c)'
  BY <1>7, <1>8 DEF CallInv
<1>10. \A d \in Calls \ {c} : Active(d) => Lists(c) \cap Lists(d) = {}
  BY DEF ListInv, ListsApart
<1> QED BY <1>1, <1>2, <1>3, <1>9, <1>10, ListFrame

(* A position is kept by a step that keeps the parameters. *)
LEMMA StageAs ==
    ASSUME NEW c, NEW p \in Nat, params' = params, NEW r, call'[c] = r,
           Position(c, r.kv, r.rest, p),
           r.pc = "length" => r.framelen = 4 + Bytes(Encoded(Requested(c), p)),
           r.pc \in Parts => r.framelen = Bytes(EncodeBody(Requested(c))),
           r.pc = "frhdr" => p = 0,
           r.pc \in {"local", "value", "newline"} => p < Len(Requested(c)),
           r.pc = "end" => p = Len(Requested(c))
    PROVE  AtStage(c, p)'
<1>1. /\ Headers(c)' = Headers(c) /\ Objects(c)' = Objects(c) /\ Requested(c)' = Requested(c)
  BY SameParams
<1>2. AtPos(c, p)'
  BY <1>1 DEF AtPos, Position
<1> QED BY <1>1, <1>2 DEF AtStage

(* The steps up to the moment the call asks for outlock *)
LEMMA CheckList == ASSUME ListInv, NEW c \in Calls, Refuse(c) \/ Check(c) PROVE ListInv'
<1>1. /\ params' = params /\ node' = node /\ outlock' = outlock /\ Typed /\ curseqno' = curseqno
      /\ connected' = connected /\ fd' = fd /\ passed' = passed
      /\ call[c].pc = "build" /\ call[c].todo = <<>> /\ call[c] \in CallRecords
  BY DEF Refuse, Check, ListInv, Typed
<1>2. Active(c) /\ outlock # c /\ call[c].kv \in Own(c) \cup {NULL}
  BY <1>1 DEF Active, ListInv, LockInv, CallInv, KvInv, Writing, Parts
<1>3. PICK r \in CallRecords :
         /\ call' = [call EXCEPT ![c] = r] /\ r.pc \in {"lock", "returned"}
         /\ r.todo = call[c].todo /\ r.hdrs = call[c].hdrs /\ r.kv = call[c].kv
  <2> DEFINE a == [call[c] EXCEPT !.pc = "lock"]
             b == [call[c] EXCEPT !.pc = "returned", !.rv = "CONNECTION_LOST"]
             d == [call[c] EXCEPT !.pc = "returned", !.rv = "NOT_SUPPORTED"]
  <2>1. /\ call' = [call EXCEPT ![c] = a] \/ call' = [call EXCEPT ![c] = b] \/ call' = [call EXCEPT ![c] = d]
    BY DEF Refuse, Check
  <2>2. /\ a \in CallRecords /\ b \in CallRecords /\ d \in CallRecords
        /\ a.pc \in {"lock", "returned"} /\ b.pc \in {"lock", "returned"} /\ d.pc \in {"lock", "returned"}
        /\ a.todo = call[c].todo /\ a.hdrs = call[c].hdrs /\ a.kv = call[c].kv
        /\ b.todo = call[c].todo /\ b.hdrs = call[c].hdrs /\ b.kv = call[c].kv
        /\ d.todo = call[c].todo /\ d.hdrs = call[c].hdrs /\ d.kv = call[c].kv
    BY <1>1 DEF CallRecords, Pcs, Rvs
  <2> HIDE DEF a, b, d
  <2> QED BY <2>1, <2>2
<1>4. r.pc \notin Writing /\ r.pc \notin {"idle", "build", "append"}
  BY <1>3 DEF Writing, Parts
<1> QED BY <1>1, <1>2, <1>3, <1>4, LaterList DEF Typed

(* outlock is taken, and the loop of bw2_frameLength begins. *)
LEMMA LockList == ASSUME ListInv, NEW c \in Calls, Lock(c) PROVE ListInv'
<1> DEFINE r == [call[c] EXCEPT !.pc = "length", !.kv = call[c].hdrs,
                                !.rest = Objects(c), !.framelen = 4]
<1>1. /\ params' = params /\ node' = node /\ outlock' = c /\ outlock = NULL /\ Typed
      /\ curseqno' = curseqno /\ connected' = connected /\ fd' = fd /\ passed' = passed
      /\ call[c].pc = "lock" /\ call[c] \in CallRecords /\ call' = [call EXCEPT ![c] = r]
  BY DEF Lock, ListInv, Typed
<1>2. Active(c)
  BY <1>1 DEF Active
<1>3. Position(c, call[c].hdrs, Objects(c), 0) /\ call[c].hdrs \in Own(c) \cup {NULL}
  BY <1>1, <1>2, BuiltAll, AtStart
<1>4. Objects(c) \in Seq(AppObjects)
  BY <1>1, RequestedForm DEF Typed
<1>5. /\ r \in CallRecords /\ r.pc = "length" /\ r.kv = call[c].hdrs /\ r.rest = Objects(c)
      /\ r.framelen = 4 /\ r.todo = call[c].todo /\ r.hdrs = call[c].hdrs
  BY <1>1, <1>4 DEF CallRecords, Pcs
<1> HIDE DEF r
<1>6. call'[c] = r
  BY <1>1, <1>5 DEF Typed
<1>7. 4 = 4 + Bytes(Encoded(Requested(c), 0))
  <2>1. Bytes(Encoded(Requested(c), 0)) = 0
    BY <1>1, RequestBody DEF Typed
  <2> QED BY <2>1
<1>8. AtStage(c, 0)'
  BY <1>1, <1>3, <1>5, <1>6, <1>7, StageAs DEF Parts
<1>9. r.pc \in Writing /\ r.pc \notin {"idle", "build", "append", "returned"}
  BY <1>5 DEF Writing
<1>10. \A d \in Calls \ {c} : outlock' = d <=> outlock = d
  BY <1>1, WriterAssumption
<1> QED BY <1>1, <1>2, <1>3, <1>5, <1>8, <1>9, <1>10, LaterList DEF Typed

(* A round of bw2_frameLength *)
LEMMA LengthList == ASSUME ListInv, NEW c \in Calls, FrameLength(c) PROVE ListInv'
<1>1. /\ params' = params /\ node' = node /\ outlock' = outlock /\ Typed /\ curseqno' = curseqno
      /\ connected' = connected /\ fd' = fd /\ passed' = passed
      /\ call[c].pc = "length" /\ call[c] \in CallRecords
  BY DEF FrameLength, ListInv, Typed
<1>2. Active(c) /\ outlock = c
  BY <1>1 DEF Active, ListInv, LockInv, Writing
<1>3. PICK p \in Nat : AtStage(c, p)
  BY <1>1 DEF ListInv, CallInv, StageInv, Writing
<1>4. PICK r \in CallRecords :
         /\ call'[c] = r /\ r.pc \in Writing /\ r.kv \in Own(c) \cup {NULL}
         /\ r.todo = call[c].todo /\ r.hdrs = call[c].hdrs
         /\ \E q \in Nat : AtStage(c, q)'
  <2> DEFINE R == Requested(c)
  <2>1. PICK kv \in Own(c) \cup {NULL}, rest \in Seq(AppObjects), fl \in Nat :
           IF p = Len(R)
           THEN /\ call'[c] = [call[c] EXCEPT !.pc = "frhdr", !.written = 0, !.kv = kv, !.rest = rest]
                /\ call[c].framelen = Bytes(EncodeBody(R)) /\ Position(c, kv, rest, 0)
           ELSE /\ call'[c] = [call[c] EXCEPT !.framelen = fl, !.kv = kv, !.rest = rest]
                /\ fl = 4 + Bytes(Encoded(R, p + 1)) /\ Position(c, kv, rest, p + 1)
    BY <1>3, LengthStage
  <2>2. kv \in Nodes \cup {NULL}
    BY <1>1, ParamsForm DEF Typed
  <2> HIDE DEF R
  <2>3. CASE p = Len(R)
    <3> DEFINE r == [call[c] EXCEPT !.pc = "frhdr", !.written = 0, !.kv = kv, !.rest = rest]
    <3>1. /\ r \in CallRecords /\ r.pc = "frhdr" /\ r.kv = kv /\ r.rest = rest
          /\ r.framelen = call[c].framelen /\ r.todo = call[c].todo /\ r.hdrs = call[c].hdrs
      BY <1>1, <2>2 DEF CallRecords, Pcs, Parts
    <3>2. call'[c] = r
      BY <2>1, <2>3
    <3> HIDE DEF r
    <3>3. AtStage(c, 0)'
      BY <1>1, <2>1, <2>3, <3>1, <3>2, StageAs DEF R
    <3> QED BY <3>1, <3>2, <3>3 DEF Writing, Parts
  <2>4. CASE p # Len(R)
    <3> DEFINE r == [call[c] EXCEPT !.framelen = fl, !.kv = kv, !.rest = rest]
    <3>1. /\ r \in CallRecords /\ r.pc = "length" /\ r.kv = kv /\ r.rest = rest
          /\ r.framelen = fl /\ r.todo = call[c].todo /\ r.hdrs = call[c].hdrs
      BY <1>1, <2>2 DEF CallRecords, Pcs, Parts
    <3>2. call'[c] = r
      BY <2>1, <2>4
    <3> HIDE DEF r
    <3>3. AtStage(c, p + 1)' /\ p + 1 \in Nat
      BY <1>1, <2>1, <2>4, <3>1, <3>2, StageAs DEF R, Parts
    <3> QED BY <3>1, <3>2, <3>3 DEF Writing, Parts
  <2> QED BY <2>3, <2>4
<1>5. call' = [call EXCEPT ![c] = r]
  <2>1. \E x : call' = [call EXCEPT ![c] = x]
    BY DEF FrameLength
  <2> QED BY <1>1, <1>4, <2>1 DEF Typed
<1>6. r.pc \notin {"idle", "build", "append"}
  BY <1>4 DEF Writing, Parts
<1> QED BY <1>1, <1>2, <1>4, <1>5, <1>6, LaterList DEF Typed

(* The next array of a frame *)
NextArray(c, p, q, r) ==
    /\ call' = [call EXCEPT ![c] = r] /\ r \in CallRecords
    /\ r.pc = PartAfter(c, call[c].pc, p) /\ r.pc \in Parts /\ r.written = 0
    /\ r.todo = call[c].todo /\ r.hdrs = call[c].hdrs /\ r.kv \in Own(c) \cup {NULL}
    /\ r.seqno = call[c].seqno /\ r.rv = call[c].rv
    /\ q = Following(call[c].pc, p) /\ q \in Nat /\ AtStage(c, q)'

(* ArrayDone moves the loop of bw2_writeFrame on to it. *)
LEMMA ArrayMoved ==
    ASSUME ListInv, NEW c \in Calls, ArrayDone(c), NEW p \in Nat, AtStage(c, p)
    PROVE  \E q, r : NextArray(c, p, q, r)
<1>1. /\ params' = params /\ Typed /\ call[c].pc \in Parts \ {"end"} /\ call[c] \in CallRecords
  BY DEF ArrayDone, ListInv, Typed
<1>2. PICK kv \in Own(c) \cup {NULL}, rest \in Seq(AppObjects), pc \in Parts, q \in Nat :
         /\ call'[c] = [call[c] EXCEPT !.pc = pc, !.written = 0, !.kv = kv, !.rest = rest]
         /\ Position(c, kv, rest, q)
         /\ q = Following(call[c].pc, p) /\ pc = PartAfter(c, call[c].pc, p)
  <2>1. MovesOn(c, p)
    BY ArrayStage
  <2> QED BY <2>1, Zenon DEF MovesOn
<1> DEFINE R == Requested(c)
<1>3. kv \in Nodes \cup {NULL}
  BY <1>1, ParamsForm DEF Typed
<1> DEFINE r == [call[c] EXCEPT !.pc = pc, !.written = 0, !.kv = kv, !.rest = rest]
<1>4. /\ r \in CallRecords /\ r.pc = pc /\ r.kv = kv /\ r.rest = rest /\ r.written = 0
      /\ r.framelen = call[c].framelen /\ r.todo = call[c].todo /\ r.hdrs = call[c].hdrs
      /\ r.seqno = call[c].seqno /\ r.rv = call[c].rv
  BY <1>1, <1>3 DEF CallRecords, Pcs
<1>5. call'[c] = r
  BY <1>2
<1> HIDE DEF r
<1>6. AtStage(c, q)'
  <2>1. /\ call[c].framelen = Bytes(EncodeBody(R)) /\ p \in 0..Len(R) /\ Len(R) \in Nat
        /\ call[c].pc \in {"local", "value", "newline"} => p < Len(R)
    BY <1>1, RequestBody DEF AtStage, AtPos, Position, Typed
  <2>2. q \in 0..Len(R)
    BY <1>2 DEF Position
  <2> HIDE DEF R
  <2>3. pc # "frhdr" /\ pc # "length" /\ (pc = "end" => q = Len(R))
    BY <1>2 DEF R, Parts, Following, PartAfter
  <2>4. pc \in {"local", "value", "newline"} => q < Len(R)
    BY <1>1, <1>2, <2>1, <2>2 DEF R, Parts, Following, PartAfter
  <2> QED BY <1>1, <1>2, <1>4, <1>5, <2>1, <2>3, <2>4, StageAs DEF R
<1>7. call' = [call EXCEPT ![c] = r]
  <2>1. \E x : call' = [call EXCEPT ![c] = x]
    BY DEF ArrayDone
  <2> QED BY <1>1, <1>5, <2>1 DEF Typed
<1> QED BY <1>2, <1>4, <1>6, <1>7, Zenon DEF NextArray

(* A call that goes on to the next array keeps its list. *)
LEMMA ArrayList == ASSUME ListInv, NEW c \in Calls, ArrayDone(c) PROVE ListInv'
<1>1. /\ params' = params /\ node' = node /\ outlock' = outlock /\ Typed /\ curseqno' = curseqno
      /\ connected' = connected /\ fd' = fd /\ passed' = passed
      /\ call[c].pc \in Parts \ {"end"}
  BY DEF ArrayDone, ListInv
<1>2. Active(c) /\ outlock = c
  BY <1>1 DEF Active, ListInv, LockInv, Writing, Parts
<1>3. PICK p \in Nat : AtStage(c, p)
  BY <1>1 DEF ListInv, CallInv, StageInv, Writing
<1>4. PICK q, r : NextArray(c, p, q, r)
  BY <1>3, ArrayMoved
<1>5. r \in CallRecords /\ call' = [call EXCEPT ![c] = r] /\ r.todo = call[c].todo
      /\ r.hdrs = call[c].hdrs /\ r.kv \in Own(c) \cup {NULL} /\ r.pc \in Parts
  BY <1>4 DEF NextArray
<1>6. \E k \in Nat : AtStage(c, k)'
  BY <1>4, Zenon DEF NextArray
<1>7. /\ r.pc \notin {"idle", "build", "append"} /\ r.pc \in Writing
      /\ call[c].pc \notin {"build", "append"}
  BY <1>1, <1>5 DEF Writing, Parts
<1> QED BY <1>1, <1>2, <1>5, <1>6, <1>7, LaterList DEF Typed

(* send accepts a part of the array. *)
LEMMA SendList == ASSUME ListInv, NEW c \in Calls, Send(c) PROVE ListInv'
<1>1. /\ params' = params /\ node' = node /\ outlock' = outlock /\ Typed /\ curseqno' = curseqno
      /\ connected' = connected /\ fd' = fd /\ passed' = passed
      /\ call[c].pc \in Parts /\ call[c] \in CallRecords
  BY DEF Send, ListInv, Typed
<1>2. Active(c) /\ outlock = c /\ call[c].kv \in Own(c) \cup {NULL}
  BY <1>1 DEF Active, ListInv, LockInv, CallInv, KvInv, Writing, Parts
<1>3. PICK n \in 1..ToSend(c) : call' = [call EXCEPT ![c].written = @ + n]
  BY DEF Send
<1> DEFINE r == [call[c] EXCEPT !.written = call[c].written + n]
<1>4. call' = [call EXCEPT ![c] = r]
  BY <1>3
<1>5. /\ r \in CallRecords /\ r.pc = call[c].pc /\ r.kv = call[c].kv /\ r.rest = call[c].rest
      /\ r.framelen = call[c].framelen /\ r.todo = call[c].todo /\ r.hdrs = call[c].hdrs
  BY <1>1 DEF CallRecords
<1> HIDE DEF r
<1>6. call'[c] = r
  BY <1>1, <1>4 DEF Typed
<1>7. PICK p \in Nat : AtStage(c, p)
  BY <1>1 DEF ListInv, CallInv, StageInv, Writing
<1>8. AtStage(c, p)'
  BY <1>1, <1>5, <1>6, <1>7, StageAs DEF AtStage, AtPos
<1>9. call[c].pc \in Writing /\ call[c].pc \notin {"idle", "build", "append", "returned"}
  BY <1>1 DEF Writing, Parts
<1> QED BY <1>1, <1>2, <1>4, <1>5, <1>8, <1>9, LaterList DEF Typed

(* The ways out of bw2_transact, and the end of the call *)
LEMMA LeaveList ==
    ASSUME ListInv, NEW c \in Calls, FrameDone(c) \/ SendFails(c) \/ Answered(c) PROVE ListInv'
<1>1. /\ params' = params /\ node' = node /\ Typed /\ curseqno' = curseqno
      /\ connected' \in BOOLEAN /\ fd' \in {"open", "closed"} /\ passed' \in BOOLEAN
      /\ call[c] \in CallRecords
      /\ \/ call[c].pc \in Parts /\ outlock' = NULL
         \/ call[c].pc \in {"sent", "unsent"} /\ outlock' = outlock
  BY DEF FrameDone, SendFails, Answered, ListInv, Typed, Parts
<1>2. PICK r \in CallRecords :
         /\ call' = [call EXCEPT ![c] = r] /\ r.pc \in {"sent", "unsent", "returned"}
         /\ r.todo = call[c].todo /\ r.hdrs = call[c].hdrs /\ r.kv = call[c].kv
  <2> DEFINE a == [call[c] EXCEPT !.pc = "sent", !.rv = "0"]
             b == [call[c] EXCEPT !.pc = "returned", !.rv = "CONNECTION_LOST"]
             d == [call[c] EXCEPT !.pc = "returned"]
             u == [call[c] EXCEPT !.pc = "unsent", !.rv = "0"]
  <2>1. \E s \in {a, b, d, u} : call' = [call EXCEPT ![c] = s]
    BY DEF FrameDone, SendFails, Answered
  <2>2. \A s \in {a, b, d, u} :
           /\ s \in CallRecords /\ s.pc \in {"sent", "unsent", "returned"}
           /\ s.todo = call[c].todo /\ s.hdrs = call[c].hdrs /\ s.kv = call[c].kv
    BY <1>1 DEF CallRecords, Pcs, Rvs
  <2> HIDE DEF a, b, d, u
  <2> QED BY <2>1, <2>2
<1>3. Active(c) /\ call[c].kv \in Own(c) \cup {NULL} /\ call[c].pc \notin {"build", "append"}
  BY <1>1 DEF Active, ListInv, CallInv, KvInv, Parts
<1>4. /\ outlock' # c /\ outlock' \in Calls \cup {NULL}
      /\ \A d \in Calls \ {c} : outlock' = d <=> outlock = d
  BY <1>1, WriterAssumption DEF ListInv, LockInv, Typed, Writing, Parts
<1>5. r.pc \notin Writing /\ r.pc \notin {"idle", "build", "append"}
  BY <1>2 DEF Writing, Parts
<1> QED BY <1>1, <1>2, <1>3, <1>4, <1>5, LaterList

(* Every step keeps the invariant. *)
LEMMA ListStep == ASSUME ListInv, [Next]_writerVars PROVE ListInv'
<1>1. ASSUME NEW c \in Calls, CallStep(c) PROVE ListInv'
  BY <1>1, StartList, AddHeaderList, AppendKVList, CheckList, LockList, LengthList,
     SendList, ArrayList, LeaveList DEF CallStep, TransactStep
<1>2. ASSUME params' = params, call' = call, node' = node, curseqno' = curseqno,
             outlock' = outlock, connected' \in BOOLEAN, fd' \in {"open", "closed"},
             passed' = passed
      PROVE  ListInv'
  <2>1. Typed'
    BY <1>2 DEF ListInv, Typed
  <2>2. \A c \in Calls : CallInv(c)'
    BY <1>2, CallFrame DEF ListInv, Typed
  <2>3. \A c \in Calls : Lists(c)' = Lists(c)
    BY <1>2, SameParams
  <2>4. ListsApart' /\ LockInv'
    BY <1>2, <2>3 DEF ListInv, ListsApart, LockInv, Active
  <2> QED BY <2>1, <2>2, <2>4 DEF ListInv
<1>3. ASSUME disconnect PROVE ListInv'
  BY <1>2, <1>3 DEF disconnect
<1>4. ASSUME UNCHANGED writerVars PROVE ListInv'
  BY <1>2, <1>4 DEF writerVars, ListInv, Typed
<1> QED BY <1>1, <1>3, <1>4 DEF Next, Finished

(* The list of headers of a call, and the place where a loop over it is,    *)
(* are what the macros and bw2_appendKV have made of them, in every state.  *)
THEOREM ListsAreBuilt == Spec => []ListInv
<1>1. Init => ListInv
  BY ListInit
<1>2. ListInv /\ [Next]_writerVars => ListInv'
  BY ListStep
<1> QED BY <1>1, <1>2, PTL DEF Spec

(* TypeOK: every variable has the values the code gives it, for any calls   *)
(* and programs.                                                            *)
THEOREM WriterTypeCorrect == Spec => []TypeOK
<1>1. ListInv => TypeOK
  BY DEF ListInv, Typed, TypeOK, CallRecords, NodeRecords, Rvs
<1> QED BY <1>1, ListsAreBuilt, PTL

(* OnlyLiveHeaders: bw2_appendKV, bw2_frameLength and bw2_writeFrame follow *)
(* no header in the stack frame of a call that has returned.                *)
THEOREM HeadersAreLive == Spec => []OnlyLiveHeaders
<1>1. ListInv => OnlyLiveHeaders
  <2> SUFFICES ASSUME ListInv, NEW c \in Calls, Active(c)
               PROVE  call[c].kv \in {NULL} \cup Hashes
                        \cup UNION {Stack(d) : d \in {e \in Calls : Active(e)}}
    BY DEF OnlyLiveHeaders
  <2>1. call[c].kv \in Stack(c) \cup Lists(c) \cup {NULL} /\ Lists(c) \subseteq Hashes
    BY ParamsForm DEF ListInv, Typed, CallInv, KvInv, Own
  <2> QED BY <2>1
<1> QED BY <1>1, ListsAreBuilt, PTL

-----------------------------------------------------------------------------
(* What follows holds as long as send accepts whole arrays: the run         *)
(* shortSend shows what becomes of the wire when it does not.               *)

(* The frame of a call, and the array that its loop is at when it has       *)
(* written p objects, with what it has written before it                    *)
FrameOf(c) == EncodeFrame(Intended(c))
FirstSym(c) == [t |-> "hdr", o |-> Intended(c).cmd]
Base(c, p) == <<FirstSym(c)>> \o Encoded(Requested(c), p)

ArrayAt(c, pc, p) ==
    CASE pc = "frhdr" -> <<FirstSym(c)>>
      [] pc = "local" -> LocalHeader(Requested(c)[p + 1])
      [] pc = "value" -> Value(Requested(c)[p + 1])
      [] pc = "newline" -> <<Sym("nl")>>
      [] pc = "end" -> EndSyms
Before(c, pc, p) ==
    CASE pc \in {"local", "end"} -> Base(c, p)
      [] pc = "value" -> Base(c, p) \o LocalHeader(Requested(c)[p + 1])
      [] pc = "newline" -> (Base(c, p) \o LocalHeader(Requested(c)[p + 1]))
                             \o Value(Requested(c)[p + 1])
      [] OTHER -> <<>>

(* A part of a frame, with the number of objects before it *)
InFrame(c, pc, p) ==
    /\ pc \in Parts /\ p \in 0..Len(Requested(c))
    /\ pc = "frhdr" => p = 0
    /\ pc \in {"local", "value", "newline"} => p < Len(Requested(c))
    /\ pc = "end" => p = Len(Requested(c))

(* The frame is those arrays, one after the other. *)
LEMMA FrameForm ==
    ASSUME Typed, NEW c \in Calls
    PROVE  LET R == Requested(c) IN
           /\ FrameOf(c) \in Seq(Syms) /\ <<FirstSym(c)>> \in Seq(Syms)
           /\ Base(c, 0) = <<FirstSym(c)>>
           /\ \A p \in 0..Len(R) : Base(c, p) \in Seq(Syms)
           /\ \A p \in 0..Len(R) : p < Len(R) =>
                 /\ LocalHeader(R[p + 1]) \in Seq(Syms) /\ Value(R[p + 1]) \in Seq(Syms)
                 /\ Base(c, p + 1) = ((Base(c, p) \o LocalHeader(R[p + 1]))
                                        \o Value(R[p + 1])) \o <<Sym("nl")>>
           /\ FrameOf(c) = Base(c, Len(R)) \o EndSyms
           /\ \A p \in 0..Len(R) : Continues(Base(c, p), FrameOf(c), Syms)
<1> DEFINE R == Requested(c)
           h == <<FirstSym(c)>>
<1>0. params \in Programs /\ call[c].seqno \in Nat
  BY WriterAssumption DEF Typed, CallRecords
<1>1. /\ R \in Seq(AllObjects) /\ Len(R) \in Nat
      /\ \A i \in 1..Len(R) : Encodable(R[i]) /\ R[i] \in AllObjects
      /\ Encoded(R, 0) = <<>> /\ EndSyms \in Seq(Syms)
      /\ \A n \in 0..Len(R) : Encoded(R, n) \in Seq(Syms)
      /\ \A n \in 0..Len(R) : n < Len(R) =>
            Encoded(R, n + 1) = Encoded(R, n) \o EncodeObject(R[n + 1])
      /\ EncodeBody(R) = Encoded(R, Len(R)) \o EndSyms /\ EncodeBody(R) \in Seq(Syms)
      /\ Bytes(EncodeBody(R)) \in Nat
  <2>1. Bytes(EncodeBody(R)) = Bytes(Encoded(R, Len(R))) + 4 /\ Bytes(Encoded(R, Len(R))) \in Nat
    BY <1>0, RequestBody
  <2>2. Bytes(EncodeBody(R)) \in Nat
    BY <2>1
  <2>3. \A i \in 1..Len(R) : Encodable(R[i]) /\ R[i] \in AllObjects
    BY <1>0, RequestBody
  <2>4. R \in Seq(AllObjects) /\ Len(R) \in Nat /\ Encoded(R, 0) = <<>> /\ EndSyms \in Seq(Syms)
        /\ EncodeBody(R) = Encoded(R, Len(R)) \o EndSyms /\ EncodeBody(R) \in Seq(Syms)
    BY <1>0, RequestBody
  <2>5. \A n \in 0..Len(R) : Encoded(R, n) \in Seq(Syms)
    BY <1>0, RequestBody
  <2>6. \A n \in 0..Len(R) : n < Len(R) =>
            Encoded(R, n + 1) = Encoded(R, n) \o EncodeObject(R[n + 1])
    BY <1>0, RequestBody
  <2> QED BY <2>2, <2>3, <2>4, <2>5, <2>6
<1>2. /\ Intended(c).objs = R
      /\ Intended(c).cmd = Object("hdr", Command(c), 0, "none", <<0>>, call[c].seqno,
                                  Bytes(EncodeBody(R)), "none")
  BY DEF Intended, Frame, Requested
<1>3. h \in Seq(Syms)
  <2>1. Command(c) \in Commands
    <3>1. params[c].fn \in APIs
      BY <1>0, ParamsForm DEF IsRequest
    <3> QED BY <3>1 DEF Command, Commands, APIs
  <2>2. Intended(c).cmd \in AllObjects
    BY <1>0, <1>1, <1>2, <2>1 DEF AllObjects, HdrObjects
  <2>3. FirstSym(c) \in Syms
    BY <2>2 DEF FirstSym, Syms, Symbols, SymbolTypes
  <2> QED BY <2>3
<1>4. FrameOf(c) = h \o EncodeBody(R)
  BY <1>2, Zenon DEF FrameOf, EncodeFrame, FirstSym
<1>5. Base(c, 0) = h
  <2>1. h \o <<>> = h
    BY <1>3
  <2> QED BY <1>1, <2>1, Zenon DEF Base
<1>6. \A p \in 0..Len(R) : Base(c, p) \in Seq(Syms)
  <2> HIDE DEF h, R
  <2>1. \A x \in Seq(Syms) : h \o x \in Seq(Syms)
    BY <1>3
  <2> QED BY <1>1, <2>1, Zenon DEF Base, h, R
<1>7. ASSUME NEW p \in 0..Len(R), p < Len(R)
      PROVE  /\ LocalHeader(R[p + 1]) \in Seq(Syms) /\ Value(R[p + 1]) \in Seq(Syms)
             /\ Base(c, p + 1) = ((Base(c, p) \o LocalHeader(R[p + 1]))
                                    \o Value(R[p + 1])) \o <<Sym("nl")>>
             /\ Base(c, p) \in Seq(Syms)
  <2> DEFINE o == R[p + 1]
  <2>1. o \in AllObjects /\ Encodable(o) /\ Nothing \in AllObjects
    BY <1>1, <1>7 DEF AllObjects
  <2>2. LocalHeader(o) \in Seq(Syms) /\ Value(o) \in Seq(Syms)
    <3> HIDE DEF o
    <3> QED BY <2>1, ObjectEncoding DEF Syms
  <2>3. <<Sym("nl")>> \in Seq(Syms)
    BY <2>1 DEF Syms, Symbols, SymbolTypes, Sym
  <2>4. Base(c, p + 1) = h \o (Encoded(R, p) \o EncodeObject(o))
    BY <1>1, <1>7, Zenon DEF Base
  <2>5. EncodeObject(o) = (LocalHeader(o) \o Value(o)) \o <<Sym("nl")>>
    BY Zenon DEF EncodeObject
  <2>7. Encoded(R, p) \in Seq(Syms)
    BY <1>1, <1>7
  <2> HIDE DEF o, h, R
  <2>8. Base(c, p) = h \o Encoded(R, p)
    BY Zenon DEF Base, h, R
  <2>9. h \o (Encoded(R, p) \o ((LocalHeader(o) \o Value(o)) \o <<Sym("nl")>>))
          = (((h \o Encoded(R, p)) \o LocalHeader(o)) \o Value(o)) \o <<Sym("nl")>>
    <3> DEFINE nl == <<Sym("nl")>>
               e == Encoded(R, p)
               l == LocalHeader(o)
               v == Value(o)
    <3>1. h \in Seq(Syms) /\ e \in Seq(Syms) /\ l \in Seq(Syms) /\ v \in Seq(Syms)
          /\ nl \in Seq(Syms)
      BY <1>3, <2>2, <2>3, <2>7
    <3> HIDE DEF nl, e, l, v
    <3>2. Assoc5(h, e, l, v, nl)
      BY <3>1, Bracket5, Zenon
    <3> QED BY <3>2, Zenon DEF Assoc5, nl, e, l, v
  <2>10. Base(c, p + 1) = ((Base(c, p) \o LocalHeader(o)) \o Value(o)) \o <<Sym("nl")>>
    BY <2>4, <2>5, <2>8, <2>9, Zenon
  <2> QED BY <1>6, <1>7, <2>2, <2>10, Zenon DEF o
<1>8. FrameOf(c) = Base(c, Len(R)) \o EndSyms /\ FrameOf(c) \in Seq(Syms)
  <2> HIDE DEF h, R
  <2>1. Encoded(R, Len(R)) \in Seq(Syms)
    BY <1>1
  <2>2. Base(c, Len(R)) = h \o Encoded(R, Len(R))
    BY Zenon DEF Base, h, R
  <2>3. h \o (Encoded(R, Len(R)) \o EndSyms) = (h \o Encoded(R, Len(R))) \o EndSyms
    <3> DEFINE e == Encoded(R, Len(R))
               u == EndSyms
    <3>1. e \in Seq(Syms) /\ u \in Seq(Syms)
      BY <1>1, <2>1
    <3> HIDE DEF e, u
    <3>2. Assoc3(h, e, u)
      BY <1>3, <3>1, Bracket3, Zenon
    <3> QED BY <3>2, Zenon DEF Assoc3, e, u
  <2>4. h \o EncodeBody(R) \in Seq(Syms)
    BY <1>1, <1>3, Bracket3
  <2> QED BY <1>1, <1>4, <2>2, <2>3, <2>4, Zenon
<1>9. ASSUME NEW p \in 0..Len(R) PROVE Continues(Base(c, p), FrameOf(c), Syms)
  <2>0. Len(R) \in 0..Len(R) /\ p <= Len(R) /\ Nothing \in AllObjects
    BY <1>1 DEF AllObjects
  <2> HIDE DEF h, R
  <2>1. Continues(Encoded(R, p), Encoded(R, Len(R)), Syms)
    BY <1>1, <2>0, EncodedMore DEF Syms
  <2>2. Encoded(R, p) \in Seq(Syms) /\ Encoded(R, Len(R)) \in Seq(Syms)
        /\ Base(c, p) \in Seq(Syms) /\ Base(c, Len(R)) \in Seq(Syms)
    BY <1>1, <1>6, <2>0
  <2>3. Continues(h \o Encoded(R, p), h \o Encoded(R, Len(R)), Syms)
    BY <1>3, <2>1, <2>2, ContinuesFacts
  <2>4. Continues(Base(c, p), Base(c, Len(R)), Syms)
    BY <2>3, Zenon DEF Base, h, R
  <2>5. Continues(Base(c, Len(R)), Base(c, Len(R)) \o EndSyms, Syms)
    BY <1>1, <2>2, ContinuesFacts
  <2>6. Continues(Base(c, Len(R)), FrameOf(c), Syms)
    BY <1>8, <2>5, Zenon
  <2> QED BY <1>8, <2>2, <2>4, <2>6, ContinuesFacts
<1> QED BY <1>1, <1>3, <1>5, <1>6, <1>7, <1>8, <1>9, Zenon

(* Each array continues those before it, and the frame continues them all;  *)
(* the last one completes it.                                               *)
LEMMA ArraysForm ==
    ASSUME Typed, NEW c \in Calls, NEW pc, NEW p, InFrame(c, pc, p)
    PROVE  /\ ArrayAt(c, pc, p) \in Seq(Syms) /\ Before(c, pc, p) \in Seq(Syms)
           /\ Continues(Before(c, pc, p) \o ArrayAt(c, pc, p), FrameOf(c), Syms)
           /\ pc = "end" => Before(c, pc, p) \o ArrayAt(c, pc, p) = FrameOf(c)
           /\ pc # "end" => Before(c, PartAfter(c, pc, p), Following(pc, p))
                              = Before(c, pc, p) \o ArrayAt(c, pc, p)
<1> DEFINE R == Requested(c)
           h == <<FirstSym(c)>>
           l == LocalHeader(R[p + 1])
           v == Value(R[p + 1])
           nl == <<Sym("nl")>>
           b == Base(c, p)
           G == FrameOf(c)
<1>0. /\ Len(R) \in Nat /\ p \in 0..Len(R) /\ 0 \in 0..Len(R)
      /\ p < Len(R) => p + 1 \in 0..Len(R)
      /\ EndSyms \in Seq(Syms) /\ nl \in Seq(Syms)
  <2>1. Len(R) \in Nat /\ EndSyms \in Seq(Syms)
    BY RequestBody DEF Typed
  <2>2. nl \in Seq(Syms)
    BY DEF Syms, Symbols, SymbolTypes, Sym, AllObjects
  <2> HIDE DEF R
  <2> QED BY <2>1, <2>2 DEF InFrame, R
<1>1. /\ G \in Seq(Syms) /\ h \in Seq(Syms) /\ Base(c, 0) = h /\ b \in Seq(Syms)
      /\ G = Base(c, Len(R)) \o EndSyms /\ Continues(Base(c, 0), G, Syms)
      /\ Continues(b, G, Syms)
  BY <1>0, FrameForm
<1>2. p < Len(R) =>
        /\ l \in Seq(Syms) /\ v \in Seq(Syms) /\ Base(c, p + 1) = ((b \o l) \o v) \o nl
        /\ Base(c, p + 1) \in Seq(Syms) /\ Continues(Base(c, p + 1), G, Syms)
  BY <1>0, FrameForm
<1>3. CASE pc = "frhdr"
  <2>1. p = 0 /\ Before(c, pc, p) = <<>> /\ ArrayAt(c, pc, p) = h
    BY <1>3 DEF InFrame, Before, ArrayAt
  <2>2. <<>> \o h = h /\ <<>> \in Seq(Syms)
    BY <1>1
  <2>3. Following(pc, p) = 0 /\ PartAfter(c, pc, p) \in {"local", "end"}
    BY <1>3, <2>1 DEF Following, PartAfter
  <2>4. Before(c, PartAfter(c, pc, p), 0) = Base(c, 0)
    BY <2>3 DEF Before
  <2> HIDE DEF h, G, R
  <2>5. Before(c, pc, p) \o ArrayAt(c, pc, p) = h
    BY <2>1, <2>2, Zenon
  <2>6. Before(c, PartAfter(c, pc, p), Following(pc, p)) = h
    BY <1>1, <2>3, <2>4, Zenon
  <2> QED BY <1>1, <1>3, <2>1, <2>2, <2>5, <2>6, Zenon DEF h, G
<1>4. CASE pc \in {"local", "value", "newline"}
  <2>0. p < Len(R)
    BY <1>4 DEF InFrame
  <2>1. /\ l \in Seq(Syms) /\ v \in Seq(Syms) /\ b \o l \in Seq(Syms)
        /\ (b \o l) \o v \in Seq(Syms) /\ Base(c, p + 1) = ((b \o l) \o v) \o nl
        /\ Base(c, p + 1) \in Seq(Syms) /\ Continues(Base(c, p + 1), G, Syms)
    <3>1. l \in Seq(Syms) /\ v \in Seq(Syms)
      BY <1>2, <2>0
    <3> HIDE DEF l, v, b, nl, G
    <3>2. b \o l \in Seq(Syms)
      BY <1>1, <3>1, Bracket3
    <3>3. (b \o l) \o v \in Seq(Syms)
      BY <3>1, <3>2, Bracket3
    <3> QED BY <1>2, <2>0, <3>1, <3>2, <3>3
  <2>2. /\ Continues(((b \o l) \o v) \o nl, G, Syms) /\ Continues((b \o l) \o v, G, Syms)
        /\ Continues(b \o l, G, Syms)
    <3> HIDE DEF l, v, b, nl, G
    <3>1. Continues((b \o l) \o v, ((b \o l) \o v) \o nl, Syms)
      BY <1>0, <2>1, ContinuesFacts
    <3>2. Continues(b \o l, (b \o l) \o v, Syms)
      BY <2>1, ContinuesFacts
    <3>3. Continues(((b \o l) \o v) \o nl, G, Syms) /\ ((b \o l) \o v) \o nl \in Seq(Syms)
      BY <2>1, Zenon
    <3> DEFINE bl == b \o l
               blv == bl \o v
               bn == blv \o nl
    <3>4. bl \in Seq(Syms) /\ blv \in Seq(Syms) /\ bn \in Seq(Syms) /\ Continues(blv, bn, Syms)
          /\ Continues(bl, blv, Syms) /\ Continues(bn, G, Syms)
      BY <2>1, <3>1, <3>2, <3>3
    <3> HIDE DEF bl, blv, bn
    <3>5. Continues(blv, G, Syms)
      BY <1>1, <3>4, ContinuesFacts
    <3>6. Continues(bl, G, Syms)
      BY <1>1, <3>4, <3>5, ContinuesFacts
    <3> QED BY <3>3, <3>5, <3>6, Zenon DEF bl, blv
  <2>3. CASE pc = "local"
    <3>1. Before(c, pc, p) = b /\ ArrayAt(c, pc, p) = l /\ Following(pc, p) = p
          /\ PartAfter(c, pc, p) = "value"
      BY <2>3 DEF Before, ArrayAt, Following, PartAfter
    <3>2. Before(c, "value", p) = b \o l
      BY Zenon DEF Before
    <3> HIDE DEF l, v, b, nl, G
    <3> QED BY <1>1, <2>1, <2>2, <2>3, <3>1, <3>2, Zenon DEF G
  <2>4. CASE pc = "value"
    <3>1. ArrayAt(c, pc, p) = v /\ Following(pc, p) = p
          /\ PartAfter(c, pc, p) = "newline"
      BY <2>4 DEF ArrayAt, Following, PartAfter
    <3>2. Before(c, pc, p) = b \o l /\ Before(c, "newline", p) = (b \o l) \o v
      BY <2>4, Zenon DEF Before
    <3> HIDE DEF l, v, b, nl, G
    <3> QED BY <1>1, <2>1, <2>2, <2>4, <3>1, <3>2, Zenon DEF G
  <2>5. CASE pc = "newline"
    <3>1. ArrayAt(c, pc, p) = nl /\ Following(pc, p) = p + 1
          /\ PartAfter(c, pc, p) \in {"local", "end"}
      BY <2>5 DEF ArrayAt, Following, PartAfter
    <3>2. Before(c, pc, p) = (b \o l) \o v
      BY <2>5, Zenon DEF Before
    <3>3. Before(c, PartAfter(c, pc, p), p + 1) = Base(c, p + 1)
      BY <3>1 DEF Before
    <3> HIDE DEF l, v, b, nl, G
    <3> QED BY <1>0, <1>1, <2>1, <2>2, <2>5, <3>1, <3>2, <3>3, Zenon DEF G
  <2> QED BY <1>4, <2>3, <2>4, <2>5
<1>5. CASE pc = "end"
  <2>1. p = Len(R) /\ Before(c, pc, p) = b /\ ArrayAt(c, pc, p) = EndSyms
    BY <1>5 DEF InFrame, Before, ArrayAt
  <2> HIDE DEF b, G, R
  <2>2. b \o EndSyms = G
    BY <1>1, <2>1, Zenon DEF b
  <2>3. Continues(G, G, Syms)
    BY <1>1, ContinuesFacts
  <2> QED BY <1>0, <1>1, <1>5, <2>1, <2>2, <2>3, Zenon DEF G
<1>6. pc \in {"frhdr", "local", "value", "newline", "end"}
  BY DEF InFrame, Parts
<1> QED BY <1>3, <1>4, <1>5, <1>6

(* The arrays of the code are those of the frame. *)
LEMMA ArrIsPart ==
    ASSUME ListInv, NEW c \in Calls, NEW p \in Nat, AtStage(c, p), call[c].pc \in Parts
    PROVE  InFrame(c, call[c].pc, p) /\ Arr(c) = ArrayAt(c, call[c].pc, p)
<1> DEFINE R == Requested(c)
           pc == call[c].pc
<1>1. /\ AtPos(c, p) /\ p \in 0..Len(R) /\ Len(R) \in Nat /\ Typed
      /\ call[c].framelen = Bytes(EncodeBody(R)) /\ pc \in Parts
      /\ pc = "frhdr" => p = 0
      /\ pc \in {"local", "value", "newline"} => p < Len(R)
      /\ pc = "end" => p = Len(R)
  BY RequestBody DEF AtStage, AtPos, Position, ListInv, Typed
<1>2. InFrame(c, pc, p)
  BY <1>1 DEF InFrame
<1>3. BuiltTo(c, Len(Headers(c)))
  BY <1>1, BuiltAll DEF Active, Parts
<1>4. p < Len(R) => Current(c) = R[p + 1]
  BY <1>1, <1>3, Moves
<1>5. FrameHeader(c) = FirstSym(c)
  BY <1>1 DEF FrameHeader, FirstSym, Intended, Frame, Requested
<1>6. Arr(c) = ArrayAt(c, pc, p)
  <2>1. CASE pc = "frhdr"
    BY <1>5, <2>1 DEF Arr, ArrayAt
  <2>2. CASE pc = "local"
    BY <1>1, <1>4, <2>2 DEF Arr, ArrayAt
  <2>3. CASE pc = "value"
    BY <1>1, <1>4, <2>3 DEF Arr, ArrayAt
  <2>4. CASE pc = "newline"
    BY <2>4 DEF Arr, ArrayAt
  <2>5. CASE pc = "end"
    BY <2>5 DEF Arr, ArrayAt, EndSyms
  <2> QED BY <1>1, <2>1, <2>2, <2>3, <2>4, <2>5 DEF Parts
<1> QED BY <1>2, <1>6

-----------------------------------------------------------------------------
(* The frames of the calls in the order of outlock *)
AllFrames == [c \in Calls |-> FrameOf(c)]
FramesInOrder == [i \in 1..Len(order) |-> AllFrames[order[i]]]
FramesTo(n) == FlattenSeq(Take(FramesInOrder, n))

(* What the first n frames are, and how they grow *)
LEMMA FramesForm ==
    ASSUME Typed, order \in Seq(Calls)
    PROVE  /\ Len(order) \in Nat /\ FramesTo(0) = <<>>
           /\ \A n \in 0..Len(order) : FramesTo(n) \in Seq(Syms)
           /\ \A n \in 0..Len(order) : n < Len(order) =>
                 FramesTo(n + 1) = FramesTo(n) \o FrameOf(order[n + 1])
           /\ \A n, m \in 0..Len(order) : n <= m => Continues(FramesTo(n), FramesTo(m), Syms)
<1> DEFINE m == Len(order)
           g == FramesInOrder
<1>1. m \in Nat /\ \A i \in 1..m : order[i] \in Calls
  OBVIOUS
<1>2. \A d \in Calls : FrameOf(d) \in Seq(Syms)
  BY FrameForm
<1>3. g \in [1..m -> Seq(Syms)]
  BY <1>1, <1>2 DEF FramesInOrder, AllFrames
<1>4. \A i \in 1..m : g[i] = FrameOf(order[i])
  BY <1>1 DEF FramesInOrder, AllFrames
<1>5. /\ FlattenSeq(Take(g, 0)) = <<>>
      /\ \A n \in 0..m : FlattenSeq(Take(g, n)) \in Seq(Syms)
      /\ \A n \in 0..m : n < m => FlattenSeq(Take(g, n + 1)) = FlattenSeq(Take(g, n)) \o g[n + 1]
  <2> HIDE DEF m, g
  <2> QED BY <1>1, <1>3, FlattenTake, Zenon
<1>6. \A p, q \in 0..m :
         p <= q => Continues(FlattenSeq(Take(g, p)), FlattenSeq(Take(g, q)), Syms)
  <2> HIDE DEF m, g
  <2> QED BY <1>1, <1>3, FlattenTakeMore, Zenon
<1>7. ASSUME NEW n \in 0..m, n < m PROVE FramesTo(n + 1) = FramesTo(n) \o FrameOf(order[n + 1])
  <2>1. n + 1 \in 1..m
    BY <1>1, <1>7
  <2>2. g[n + 1] = FrameOf(order[n + 1])
    BY <1>4, <2>1
  <2> HIDE DEF m
  <2> QED BY <1>5, <1>7, <2>2, Zenon DEF FramesTo
<1> HIDE DEF m
<1> QED BY <1>1, <1>5, <1>6, <1>7, Zenon DEF FramesTo, m

(* EncodeFrames of the frames asked for, and of the first i of them *)
LEMMA FramesAsked ==
    ASSUME Typed, order \in Seq(Calls)
    PROVE  /\ EncodeFrames(InOrder) = FramesTo(Len(order))
           /\ \A i \in DOMAIN order : EncodeFrames(SubSeq(InOrder, 1, i)) = FramesTo(i)
<1>1. /\ DOMAIN order = 1..Len(order) /\ Len(order) \in Nat
      /\ InOrder = [i \in 1..Len(order) |-> Intended(order[i])]
  BY DEF InOrder
<1>2. ASSUME NEW n \in 0..Len(order)
      PROVE  EncodeFrames([i \in 1..n |-> Intended(order[i])]) = FramesTo(n)
  <2> DEFINE fs == [i \in 1..n |-> Intended(order[i])]
  <2>1. [i \in DOMAIN fs |-> EncodeFrame(fs[i])] = Take(FramesInOrder, n)
    BY <1>1 DEF Take, FramesInOrder, AllFrames, FrameOf
  <2> QED BY <2>1, Zenon DEF EncodeFrames, FramesTo
<1>3. \A i \in 1..Len(order) : SubSeq(InOrder, 1, i) = [j \in 1..i |-> Intended(order[j])]
  BY <1>1
<1>4. Len(order) \in 0..Len(order) /\ \A i \in 1..Len(order) : i \in 0..Len(order)
  BY <1>1
<1> QED BY <1>1, <1>2, <1>3, <1>4, Zenon

(* A frame depends on the parameters and the sequence number only. *)
LEMMA SameFrame ==
    ASSUME NEW c \in Calls, params' = params, call'[c].seqno = call[c].seqno
    PROVE  /\ FrameOf(c)' = FrameOf(c)
           /\ \A pc, p : Before(c, pc, p)' = Before(c, pc, p)
           /\ \A pc, p : ArrayAt(c, pc, p)' = ArrayAt(c, pc, p)
<1>1. Requested(c)' = Requested(c) /\ Command(c)' = Command(c)
      /\ Headers(c)' = Headers(c) /\ Objects(c)' = Objects(c)
  BY SameParams
<1>2. Intended(c)' = Intended(c)
  BY <1>1, Zenon DEF Intended, Frame, Asked
<1>3. FirstSym(c)' = FirstSym(c)
  BY <1>2 DEF FirstSym
<1> QED BY <1>1, <1>2, <1>3, Zenon DEF FrameOf, Before, ArrayAt, Base

(* The frames so far stay the same when another call gets outlock. *)
LEMMA SameFrames ==
    ASSUME order \in Seq(Calls), order' \in Seq(Calls), params' = params,
           Len(order) <= Len(order'),
           \A i \in 1..Len(order) : order'[i] = order[i],
           \A i \in 1..Len(order) : call'[order[i]].seqno = call[order[i]].seqno
    PROVE  \A n \in 0..Len(order) : FramesTo(n)' = FramesTo(n)
<1> SUFFICES ASSUME NEW n \in 0..Len(order) PROVE FramesTo(n)' = FramesTo(n)
  OBVIOUS
<1>1. ASSUME NEW i \in 1..n PROVE FramesInOrder'[i] = FramesInOrder[i]
  <2>1. i \in 1..Len(order) /\ i \in 1..Len(order')
    OBVIOUS
  <2>2. PICK d \in Calls : d = order[i]
    BY <2>1
  <2>3. FrameOf(d)' = FrameOf(d)
    BY <2>1, <2>2, SameFrame
  <2>4. AllFrames'[d] = FrameOf(d)' /\ AllFrames[d] = FrameOf(d)
    BY DEF AllFrames
  <2>5. FramesInOrder'[i] = AllFrames'[order'[i]] /\ FramesInOrder[i] = AllFrames[order[i]]
    BY <2>1 DEF FramesInOrder
  <2> QED BY <2>1, <2>2, <2>3, <2>4, <2>5
<1>2. Take(FramesInOrder, n)' = Take(FramesInOrder, n)
  BY <1>1 DEF Take
<1> QED BY <1>2, Zenon DEF FramesTo

-----------------------------------------------------------------------------
(* What is on the wire *)

(* What a call has written of its frame: the arrays before the one it is    *)
(* at, and that one too if w symbols of it are.                             *)
WrittenTo(c, pc, p, w) ==
    IF pc \in Parts /\ w # 0 THEN Before(c, pc, p) \o ArrayAt(c, pc, p) ELSE Before(c, pc, p)

(* c has written its part of a frame behind the frames of those before it. *)
Progress(c) ==
    \E p, m, w \in Nat, pc \in Writing :
        /\ Len(order) = m + 1 /\ call[c].pc = pc /\ call[c].written = w /\ AtStage(c, p)
        /\ pc \in Parts => w \in {0, Len(ArrayAt(c, pc, p))}
        /\ wire = FramesTo(m) \o WrittenTo(c, pc, p, w)

Early == {"idle", "build", "append", "lock"}

(* The holder of outlock is the last that got it. *)
OrderInv ==
    /\ order \in Seq(Calls)
    /\ \A c \in Calls : outlock = c => order # <<>> /\ order[Len(order)] = c
    /\ \A i \in 1..Len(order) : call[order[i]].pc \notin Early
    /\ \A c \in Calls : call[c].pc \in Early => call[c].rv = "none"

(* While the descriptor is open, the frames are whole, but for the one that *)
(* is being written.  Once it is closed, no frame is begun.                 *)
WireOpen ==
    fd = "open" /\ ~passed =>
        /\ outlock = NULL => \A n \in Nat : n = Len(order) => wire = FramesTo(n)
        /\ \A c \in Calls : outlock = c => Progress(c)
WireClosed ==
    fd = "closed" /\ ~passed =>
        /\ \A n \in Nat : n = Len(order) => Continues(wire, FramesTo(n), Syms)
        /\ \A c \in Calls : call[c].pc \in Parts => call[c].pc = "frhdr" /\ call[c].written = 0
Acked ==
    ~passed => \A i \in 1..Len(order) :
                  call[order[i]].rv = "0" => Len(wire) >= Len(FramesTo(i))

WireInv == wire \in Seq(Syms) /\ OrderInv /\ WireOpen /\ WireClosed /\ Acked

(* What a call has written is the beginning of its frame. *)
LEMMA WrittenForm ==
    ASSUME ListInv, NEW c \in Calls, NEW p \in Nat, NEW w, NEW pc \in Writing,
           call[c].pc = pc, AtStage(c, p)
    PROVE  /\ WrittenTo(c, pc, p, w) \in Seq(Syms)
           /\ Continues(WrittenTo(c, pc, p, w), FrameOf(c), Syms)
<1>0. Typed
  BY DEF ListInv
<1>1. FrameOf(c) \in Seq(Syms)
  BY <1>0, FrameForm
<1>2. CASE pc = "length"
  <2>1. WrittenTo(c, pc, p, w) = <<>>
    BY <1>2 DEF WrittenTo, Before, Parts
  <2>2. <<>> \in Seq(Syms) /\ FrameOf(c) = <<>> \o FrameOf(c)
    BY <1>1
  <2> QED BY <1>1, <2>1, <2>2, Zenon DEF Continues
<1>3. CASE pc \in Parts
  <2>1. InFrame(c, pc, p)
    BY <1>3, ArrIsPart
  <2> DEFINE b == Before(c, pc, p)
             a == ArrayAt(c, pc, p)
  <2>2. /\ a \in Seq(Syms) /\ b \in Seq(Syms)
        /\ Continues(b \o a, FrameOf(c), Syms)
    BY <1>0, <2>1, ArraysForm
  <2>3. WrittenTo(c, pc, p, w) \in {b, b \o a}
    BY Zenon DEF WrittenTo
  <2> HIDE DEF a, b
  <2>4. b \o a \in Seq(Syms)
    BY <2>2, Bracket3
  <2>5. Continues(b, b \o a, Syms)
    BY <2>2, ContinuesFacts
  <2>6. Continues(b, FrameOf(c), Syms)
    BY <1>1, <2>2, <2>4, <2>5, ContinuesFacts
  <2> QED BY <2>2, <2>3, <2>4, <2>6, Zenon
<1> QED BY <1>2, <1>3 DEF Writing

(* So what is on the wire is the beginning of the frames in order. *)
LEMMA ProgressPrefix ==
    ASSUME ListInv, OrderInv, NEW c \in Calls, outlock = c, Progress(c),
           NEW n \in Nat, n = Len(order)
    PROVE  Continues(wire, FramesTo(n), Syms)
<1>1. PICK p, m, w \in Nat, pc \in Writing :
         /\ Len(order) = m + 1 /\ call[c].pc = pc /\ AtStage(c, p)
         /\ wire = FramesTo(m) \o WrittenTo(c, pc, p, w)
  BY DEF Progress
<1>2. Typed /\ order \in Seq(Calls) /\ n = m + 1 /\ order[n] = c /\ m \in 0..Len(order) /\ m < Len(order)
  BY <1>1 DEF ListInv, OrderInv
<1> DEFINE t == WrittenTo(c, pc, p, w)
<1>3. t \in Seq(Syms) /\ Continues(t, FrameOf(c), Syms) /\ FrameOf(c) \in Seq(Syms)
  BY <1>1, <1>2, WrittenForm, FrameForm
<1>4. FramesTo(m) \in Seq(Syms) /\ FramesTo(m + 1) = FramesTo(m) \o FrameOf(order[m + 1])
  BY <1>2, FramesForm
<1>5. FramesTo(n) = FramesTo(m) \o FrameOf(c)
  BY <1>2, <1>4, Zenon
<1> HIDE DEF t
<1>6. Continues(FramesTo(m) \o t, FramesTo(m) \o FrameOf(c), Syms)
  BY <1>3, <1>4, ContinuesFacts
<1> QED BY <1>1, <1>5, <1>6, Zenon DEF t

(* A call has made progress again after a step. *)
LEMMA ProgressMade ==
    ASSUME NEW c \in Calls, NEW p \in Nat, NEW m \in Nat, NEW pc \in Writing, NEW w \in Nat,
           params' = params, call'[c].seqno = call[c].seqno, Len(order') = m + 1,
           call'[c].pc = pc, call'[c].written = w, AtStage(c, p)', FramesTo(m)' = FramesTo(m),
           pc \in Parts => w \in {0, Len(ArrayAt(c, pc, p))},
           wire' = FramesTo(m) \o WrittenTo(c, pc, p, w)
    PROVE  Progress(c)'
<1>1. Before(c, pc, p)' = Before(c, pc, p) /\ ArrayAt(c, pc, p)' = ArrayAt(c, pc, p)
  BY SameFrame
<1>2. WrittenTo(c, pc, p, w)' = WrittenTo(c, pc, p, w)
  BY <1>1, Zenon DEF WrittenTo
<1>3. wire' = FramesTo(m)' \o WrittenTo(c, pc, p, w)'
  BY <1>2, Zenon
<1>4. pc \in Parts => w \in {0, Len(ArrayAt(c, pc, p)')}
  BY <1>1, Zenon
<1> QED BY <1>3, <1>4, Zenon DEF Progress

(* Init: nothing is on the wire. *)
LEMMA WireInit == ASSUME Init PROVE WireInv
<1>1. wire = <<>> /\ order = <<>> /\ Len(order) = 0 /\ Typed /\ order \in Seq(Calls)
  <2>1. wire = <<>> /\ order = <<>>
    BY DEF Init
  <2>2. Typed
    BY ListInit DEF ListInv
  <2> QED BY <2>1, <2>2
<1>2. FramesTo(0) = <<>>
  BY <1>1, FramesForm
<1>3. \A c \in Calls : call[c].pc = "idle" /\ call[c].rv = "none"
  BY DEF Init, NewCall
<1>4. outlock \notin Calls
  BY WriterAssumption DEF Init
<1>5. wire \in Seq(Syms) /\ OrderInv
  BY <1>1, <1>3, <1>4 DEF OrderInv
<1>6. WireOpen
  BY <1>1, <1>2, <1>4 DEF WireOpen
<1>7. WireClosed /\ Acked
  BY <1>1 DEF WireClosed, Acked, Init
<1> QED BY <1>5, <1>6, <1>7 DEF WireInv

(* A step that is not the holder's leaves what WireInv says of it. *)
LEMMA WireKept ==
    ASSUME ListInv, WireInv, NEW c \in Calls, params' = params, wire' = wire, order' = order,
           fd' = fd, passed' = passed, outlock' = outlock, outlock # c,
           \A d \in Calls \ {c} : call'[d] = call[d], call'[c].pc \notin Parts,
           \A i \in 1..Len(order) : order[i] = c =>
              /\ call'[c].pc \notin Early /\ call'[c].rv = call[c].rv
              /\ call'[c].seqno = call[c].seqno,
           call'[c].pc \in Early => call'[c].rv = "none"
    PROVE  WireInv'
<1>1. /\ order \in Seq(Calls) /\ Typed /\ wire \in Seq(Syms) /\ Len(order) \in Nat
      /\ \A i \in 1..Len(order) : order[i] \in Calls
      /\ OrderInv /\ WireOpen /\ WireClosed /\ Acked
  BY DEF WireInv, OrderInv, ListInv
<1>2. \A n \in 0..Len(order) : FramesTo(n)' = FramesTo(n)
  BY <1>1, SameFrames
<1>3. OrderInv'
  <2>1. \A i \in 1..Len(order) : call'[order[i]].pc \notin Early
    BY <1>1 DEF OrderInv
  <2>2. \A d \in Calls : call'[d].pc \in Early => call'[d].rv = "none"
    BY <1>1 DEF OrderInv
  <2> QED BY <1>1, <2>1, <2>2 DEF OrderInv
<1>4. ASSUME NEW d \in Calls, outlock = d, Progress(d) PROVE Progress(d)'
  <2>1. PICK p, m, w \in Nat, pc \in Writing :
           /\ Len(order) = m + 1 /\ call[d].pc = pc /\ call[d].written = w /\ AtStage(d, p)
           /\ pc \in Parts => w \in {0, Len(ArrayAt(d, pc, p))}
           /\ wire = FramesTo(m) \o WrittenTo(d, pc, p, w)
    BY <1>4 DEF Progress
  <2>2. call'[d] = call[d]
    BY <1>4
  <2>3. AtStage(d, p)'
    BY <2>1, <2>2, StageAs DEF AtStage, AtPos
  <2>4. FramesTo(m)' = FramesTo(m)
    BY <1>1, <1>2, <2>1
  <2>5. wire' = FramesTo(m) \o WrittenTo(d, pc, p, w)
    BY <2>1, Zenon
  <2> QED BY <2>1, <2>2, <2>3, <2>4, <2>5, ProgressMade
<1>5. WireOpen'
  <2>1. ASSUME NEW n \in Nat, n = Len(order), wire = FramesTo(n) PROVE wire' = FramesTo(n)'
    BY <1>1, <1>2, <2>1
  <2> QED BY <1>1, <1>4, <2>1 DEF WireOpen
<1>6. WireClosed'
  <2>1. ASSUME NEW n \in Nat, n = Len(order), Continues(wire, FramesTo(n), Syms)
        PROVE  Continues(wire', FramesTo(n)', Syms)
    <3>1. FramesTo(n)' = FramesTo(n)
      BY <1>1, <1>2, <2>1
    <3> QED BY <2>1, <3>1, Zenon
  <2>2. \A d \in Calls : call'[d].pc \in Parts => d # c
    OBVIOUS
  <2> QED BY <1>1, <2>1, <2>2 DEF WireClosed, Continues
<1>7. Acked'
  <2>1. ASSUME NEW i \in 1..Len(order) PROVE call'[order[i]].rv = call[order[i]].rv
    BY <1>1
  <2>2. \A i \in 1..Len(order) : FramesTo(i)' = FramesTo(i)
    BY <1>1, <1>2
  <2> QED BY <1>1, <2>1, <2>2 DEF Acked
<1> QED BY <1>1, <1>3, <1>5, <1>6, <1>7 DEF WireInv

(* A step of the holder, which goes on writing *)
LEMMA WireHeld ==
    ASSUME ListInv, WireInv, NEW c \in Calls, params' = params, order' = order, fd' = fd,
           passed' = passed, outlock = c, outlock' = c, NEW r, call' = [call EXCEPT ![c] = r],
           r.pc \in Writing, r.rv = call[c].rv, r.seqno = call[c].seqno,
           wire' \in Seq(Syms), Len(wire') >= Len(wire),
           fd = "open" /\ ~passed => Progress(c)',
           fd = "closed" /\ ~passed =>
              wire' = wire /\ (r.pc \in Parts => r.pc = "frhdr" /\ r.written = 0)
    PROVE  WireInv'
<1>1. /\ order \in Seq(Calls) /\ Typed /\ wire \in Seq(Syms) /\ Len(order) \in Nat
      /\ \A i \in 1..Len(order) : order[i] \in Calls
      /\ OrderInv /\ WireOpen /\ WireClosed /\ Acked
  BY DEF WireInv, OrderInv, ListInv
<1>2. call'[c] = r /\ \A d \in Calls \ {c} : call'[d] = call[d]
  BY <1>1 DEF Typed
<1>3. \A n \in 0..Len(order) : FramesTo(n)' = FramesTo(n)
  <2>1. \A i \in 1..Len(order) : call'[order[i]].seqno = call[order[i]].seqno
    BY <1>1, <1>2
  <2> QED BY <1>1, <2>1, SameFrames
<1>4. OrderInv'
  <2>1. \A d \in Calls : call'[d].pc \in Early => call[d].pc \in Early /\ call'[d].rv = call[d].rv
    BY <1>2 DEF Writing, Parts, Early
  <2> QED BY <1>1, <2>1 DEF OrderInv
<1>5. WireOpen'
  <2>1. c # NULL
    BY WriterAssumption
  <2> QED BY <2>1 DEF WireOpen
<1>6. WireClosed'
  <2>1. ASSUME NEW n \in Nat, n = Len(order), Continues(wire, FramesTo(n), Syms), wire' = wire
        PROVE  Continues(wire', FramesTo(n)', Syms)
    <3>1. FramesTo(n)' = FramesTo(n)
      BY <1>1, <1>3, <2>1
    <3> QED BY <2>1, <3>1, Zenon
  <2> QED BY <1>1, <1>2, <2>1 DEF WireClosed, Continues
<1>7. Acked'
  <2>1. ASSUME NEW i \in 1..Len(order) PROVE call'[order[i]].rv = call[order[i]].rv
    BY <1>1, <1>2
  <2>2. \A i \in 1..Len(order) : FramesTo(i)' = FramesTo(i)
    BY <1>1, <1>3
  <2>3. \A i \in 1..Len(order) : Len(FramesTo(i)) \in Nat
    <3>1. \A i \in 1..Len(order) : FramesTo(i) \in Seq(Syms)
      BY <1>1, FramesForm
    <3> QED BY <3>1
  <2>4. Len(wire) \in Nat /\ Len(wire') \in Nat
    BY <1>1
  <2> QED BY <1>1, <2>1, <2>2, <2>3, <2>4 DEF Acked
<1> QED BY <1>4, <1>5, <1>6, <1>7 DEF WireInv

(* The steps of calls that do not hold outlock, before they get it and      *)
(* after they have released it                                              *)
LEMMA OthersWire ==
    ASSUME ListInv, WireInv, NEW c \in Calls,
           Start(c) \/ AddHeader(c) \/ AppendKV(c) \/ Refuse(c) \/ Check(c) \/ Answered(c)
    PROVE  WireInv'
<1>1. /\ params' = params /\ wire' = wire /\ order' = order /\ fd' = fd /\ passed' = passed
      /\ outlock' = outlock /\ Typed /\ OrderInv /\ call[c] \in CallRecords
  BY DEF Start, AddHeader, AppendKV, Refuse, Check, Answered, ListInv, Typed, WireInv
<1>2. call[c].pc \in {"idle", "build", "append", "sent", "unsent"} /\ outlock # c
  <2>1. call[c].pc \in {"idle", "build", "append", "sent", "unsent"}
    BY DEF Start, AddHeader, AppendKV, Refuse, Check, Answered
  <2> QED BY <2>1 DEF ListInv, LockInv, Writing, Parts
<1>3. \A d \in Calls \ {c} : call'[d] = call[d]
  BY <1>1 DEF Start, AddHeader, AppendKV, Refuse, Check, Answered, Typed
<1>4. ASSUME Start(c) \/ AddHeader(c) \/ AppendKV(c) \/ Refuse(c) \/ Check(c)
      PROVE  /\ call[c].pc \in Early /\ call'[c].pc \in Early \cup {"returned"}
             /\ call'[c].pc \in Early => call'[c].rv = "none"
  <2>1. call[c].pc \in Early
    BY <1>4 DEF Start, AddHeader, AppendKV, Refuse, Check, Early
  <2>2. call[c].rv = "none"
    BY <1>1, <2>1 DEF OrderInv
  <2>3. CASE Start(c)
    BY <1>1, <2>3 DEF Start, Typed, NewCall, Early
  <2>4. CASE AddHeader(c)
    BY <1>1, <2>2, <2>4 DEF AddHeader, Typed, CallRecords, Early
  <2>5. CASE AppendKV(c)
    BY <1>1, <2>2, <2>5 DEF AppendKV, Typed, CallRecords, Early
  <2>6. CASE Refuse(c)
    BY <1>1, <2>2, <2>6 DEF Refuse, Typed, CallRecords, Early
  <2>7. CASE Check(c)
    BY <1>1, <2>2, <2>7 DEF Check, Typed, CallRecords, Early
  <2> QED BY <1>4, <2>1, <2>3, <2>4, <2>5, <2>6, <2>7
<1>5. ASSUME Answered(c)
      PROVE  call'[c].pc = "returned" /\ call'[c].rv = call[c].rv /\ call'[c].seqno = call[c].seqno
  BY <1>1, <1>5 DEF Answered, Typed, CallRecords
<1>6. call'[c].pc \notin Parts /\ (call'[c].pc \in Early => call'[c].rv = "none")
  BY <1>4, <1>5 DEF Parts, Early
<1>7. ASSUME NEW i \in 1..Len(order), order[i] = c
      PROVE  /\ call'[c].pc \notin Early /\ call'[c].rv = call[c].rv
             /\ call'[c].seqno = call[c].seqno
  <2>1. call[c].pc \notin Early
    BY <1>1, <1>7 DEF OrderInv
  <2> QED BY <1>4, <1>5, <2>1 DEF Early
<1> QED BY <1>1, <1>2, <1>3, <1>6, <1>7, WireKept

(* A call gets outlock: the frames before its own are whole. *)
LEMMA LockWire == ASSUME ListInv, ListInv', WireInv, NEW c \in Calls, Lock(c) PROVE WireInv'
<1>1. /\ params' = params /\ wire' = wire /\ fd' = fd /\ passed' = passed /\ outlock' = c
      /\ outlock = NULL /\ order' = Append(order, c) /\ call[c].pc = "lock"
      /\ Typed /\ call[c] \in CallRecords
  BY DEF Lock, ListInv, Typed
<1>2. /\ OrderInv /\ WireOpen /\ WireClosed /\ Acked /\ wire \in Seq(Syms)
      /\ order \in Seq(Calls) /\ Len(order) \in Nat /\ \A i \in 1..Len(order) : order[i] \in Calls
  BY DEF WireInv, OrderInv
<1>3. /\ call'[c].pc = "length" /\ call'[c].seqno = call[c].seqno /\ call'[c].rv = call[c].rv
      /\ call'[c].written = call[c].written /\ call[c].written \in Nat
      /\ \A d \in Calls \ {c} : call'[d] = call[d]
  BY <1>1 DEF Lock, Typed, CallRecords
<1>4. /\ order' \in Seq(Calls) /\ Len(order') = Len(order) + 1 /\ order'[Len(order) + 1] = c
      /\ \A i \in 1..Len(order) : order'[i] = order[i]
  BY <1>1, <1>2
<1>5. \A n \in 0..Len(order) : FramesTo(n)' = FramesTo(n)
  <2>1. \A i \in 1..Len(order) : call'[order[i]].seqno = call[order[i]].seqno
    BY <1>2, <1>3
  <2> QED BY <1>1, <1>2, <1>4, <2>1, SameFrames
<1>6. OrderInv'
  <2>1. ASSUME NEW i \in 1..Len(order') PROVE call'[order'[i]].pc \notin Early
    <3>1. CASE i \in 1..Len(order)
      BY <1>2, <1>3, <1>4, <3>1 DEF OrderInv, Early
    <3>2. CASE i = Len(order) + 1
      BY <1>3, <1>4, <3>2 DEF Early
    <3> QED BY <1>2, <1>4, <3>1, <3>2
  <2>2. \A d \in Calls : call'[d].pc \in Early => call'[d].rv = "none"
    BY <1>2, <1>3 DEF OrderInv, Early
  <2>3. order' # <<>> /\ order'[Len(order')] = c
    BY <1>2, <1>4
  <2> QED BY <1>1, <1>4, <2>1, <2>2, <2>3 DEF OrderInv
<1>7. WireOpen'
  <2>0. c # NULL
    BY WriterAssumption
  <2> SUFFICES ASSUME fd = "open", ~passed PROVE Progress(c)'
    BY <1>1, <2>0 DEF WireOpen
  <2>1. PICK m \in Nat : m = Len(order)
    BY <1>2
  <2>2. wire = FramesTo(m) /\ FramesTo(m) \in Seq(Syms)
    BY <1>1, <1>2, <2>1, FramesForm DEF WireOpen
  <2>3. PICK p \in Nat : AtStage(c, p)'
    BY <1>3 DEF ListInv, CallInv, StageInv, Writing
  <2>4. WrittenTo(c, "length", p, call[c].written) = <<>>
    BY DEF WrittenTo, Before, Parts
  <2>5. wire = wire \o <<>>
    BY <1>2
  <2>6. wire' = FramesTo(m) \o WrittenTo(c, "length", p, call[c].written)
    BY <1>1, <2>2, <2>4, <2>5, Zenon
  <2>7. FramesTo(m)' = FramesTo(m) /\ Len(order') = m + 1 /\ "length" \in Writing
        /\ "length" \notin Parts
    BY <1>2, <1>4, <1>5, <2>1 DEF Writing, Parts
  <2> QED BY <1>1, <1>3, <2>3, <2>6, <2>7, ProgressMade
<1>8. WireClosed'
  <2> SUFFICES ASSUME fd = "closed", ~passed
               PROVE  /\ \A n \in Nat : n = Len(order') => Continues(wire', FramesTo(n)', Syms)
                      /\ \A d \in Calls : call'[d].pc \in Parts =>
                            call'[d].pc = "frhdr" /\ call'[d].written = 0
    BY <1>1 DEF WireClosed
  <2>1. PICK m \in Nat : m = Len(order)
    BY <1>2
  <2>2. Continues(wire, FramesTo(m), Syms) /\ FramesTo(m) \in Seq(Syms)
    BY <1>1, <1>2, <2>1, FramesForm DEF WireClosed
  <2>3. /\ FramesTo(m)' \in Seq(Syms) /\ FramesTo(m + 1)' \in Seq(Syms)
        /\ Continues(FramesTo(m)', FramesTo(m + 1)', Syms)
    <3>1. /\ \A n \in 0..Len(order') : FramesTo(n)' \in Seq(Syms)
          /\ \A n, k \in 0..Len(order') : n <= k => Continues(FramesTo(n)', FramesTo(k)', Syms)
      <4>1. \A d \in Calls : FrameOf(d)' = FrameOf(d) /\ FrameOf(d) \in Seq(Syms)
        <5> TAKE d \in Calls
        <5>1. call'[d].seqno = call[d].seqno
          BY <1>3
        <5> QED BY <1>1, <5>1, SameFrame, FrameForm
      <4>2. \A d \in Calls : AllFrames'[d] \in Seq(Syms)
        BY <4>1 DEF AllFrames
      <4> DEFINE g == FramesInOrder'
                 k == Len(order')
      <4>3. k \in Nat /\ g \in [1..k -> Seq(Syms)]
        BY <1>4, <4>2 DEF FramesInOrder
      <4>4. \A n : FramesTo(n)' = FlattenSeq(Take(g, n))
        BY DEF FramesTo, Take
      <4> HIDE DEF g, k
      <4>5. \A n \in 0..k : FlattenSeq(Take(g, n)) \in Seq(Syms)
        BY <4>3, FlattenTake, Zenon
      <4>6. \A n, j \in 0..k :
               n <= j => Continues(FlattenSeq(Take(g, n)), FlattenSeq(Take(g, j)), Syms)
        BY <4>3, FlattenTakeMore, Zenon
      <4> QED BY <4>4, <4>5, <4>6, Zenon DEF k
    <3>2. m \in 0..Len(order') /\ m + 1 \in 0..Len(order') /\ m <= m + 1
      BY <1>4, <2>1
    <3> QED BY <3>1, <3>2
  <2>4. FramesTo(m)' = FramesTo(m)
    BY <1>5, <2>1
  <2>5. Continues(wire, FramesTo(m + 1)', Syms)
    <3> DEFINE f == FramesTo(m)
               g == FramesTo(m + 1)'
    <3>1. f \in Seq(Syms) /\ g \in Seq(Syms) /\ Continues(wire, f, Syms) /\ Continues(f, g, Syms)
      BY <2>2, <2>3, <2>4, Zenon
    <3> HIDE DEF f, g
    <3>2. Continues(wire, g, Syms)
      BY <1>2, <3>1, ContinuesFacts
    <3> QED BY <3>2 DEF g
  <2>6. \A n \in Nat : n = Len(order') => n = m + 1
    BY <1>4, <2>1
  <2>7. \A d \in Calls : call'[d].pc \in Parts => d # c
    BY <1>3 DEF Parts
  <2> QED BY <1>1, <1>2, <1>3, <2>5, <2>6, <2>7, Zenon DEF WireClosed
<1>9. Acked'
  <2>1. \A i \in 1..Len(order) : FramesTo(i)' = FramesTo(i)
    BY <1>2, <1>5
  <2>2. call'[c].rv # "0"
    BY <1>1, <1>2, <1>3 DEF OrderInv, Early
  <2>3. ASSUME NEW i \in 1..Len(order'), call'[order'[i]].rv = "0"
        PROVE  i \in 1..Len(order) /\ call[order[i]].rv = "0"
    <3>1. order'[i] # c
      BY <2>2, <2>3
    <3>2. i \in 1..Len(order)
      BY <1>2, <1>4, <3>1
    <3> QED BY <1>2, <1>3, <1>4, <2>3, <3>1, <3>2
  <2> QED BY <1>1, <1>2, <2>1, <2>3 DEF Acked
<1> QED BY <1>1, <1>2, <1>6, <1>7, <1>8, <1>9 DEF WireInv

(* bw2_frameLength sends nothing. *)
LEMMA LengthWire == ASSUME ListInv, ListInv', WireInv, NEW c \in Calls, FrameLength(c) PROVE WireInv'
<1>1. /\ params' = params /\ wire' = wire /\ fd' = fd /\ passed' = passed /\ order' = order
      /\ outlock' = outlock /\ call[c].pc = "length" /\ Typed /\ call[c] \in CallRecords
      /\ wire \in Seq(Syms) /\ OrderInv /\ WireOpen
  BY DEF FrameLength, ListInv, Typed, WireInv
<1>2. outlock = c
  BY <1>1 DEF ListInv, LockInv, Writing
<1>3. PICK r : call' = [call EXCEPT ![c] = r]
  BY DEF FrameLength
<1>4. call'[c] = r
  BY <1>1, <1>3 DEF Typed
<1>5. /\ r.rv = call[c].rv /\ r.seqno = call[c].seqno /\ r.written \in Nat
      /\ r.pc = "length" \/ (r.pc = "frhdr" /\ r.written = 0)
  <2>1. CASE AtEnd(c)
    <3>1. r = [call[c] EXCEPT !.pc = "frhdr", !.written = 0, !.kv = call[c].hdrs,
                              !.rest = Objects(c)]
      BY <1>1, <1>4, <2>1 DEF FrameLength, Typed
    <3> QED BY <1>1, <3>1 DEF CallRecords
  <2>2. CASE ~AtEnd(c)
    <3>1. r = [Advance(call[c], NextHeader(c)) EXCEPT
                  !.framelen = call[c].framelen + Length(Current(c))]
      BY <1>1, <1>4, <2>2 DEF FrameLength, Typed
    <3> QED BY <1>1, <3>1 DEF CallRecords, Advance
  <2> QED BY <2>1, <2>2
<1>6. r.pc \in Writing /\ (r.pc \in Parts => r.pc = "frhdr" /\ r.written = 0)
  BY <1>5 DEF Writing, Parts
<1>7. ASSUME fd = "open", ~passed PROVE Progress(c)'
  <2>1. PICK k, m, w \in Nat, pc \in Writing :
           /\ Len(order) = m + 1 /\ call[c].pc = pc
           /\ wire = FramesTo(m) \o WrittenTo(c, pc, k, w)
    <3>1. Progress(c)
      BY <1>1, <1>2, <1>7 DEF WireOpen
    <3> QED BY <3>1, Zenon DEF Progress
  <2>2. WrittenTo(c, pc, k, w) = <<>>
    BY <1>1, <2>1 DEF WrittenTo, Before, Parts
  <2>3. PICK q \in Nat : AtStage(c, q)'
    BY <1>4, <1>6 DEF ListInv, CallInv, StageInv
  <2>4. WrittenTo(c, r.pc, q, r.written) = <<>>
    BY <1>5 DEF WrittenTo, Before, Parts
  <2>5. wire' = FramesTo(m) \o WrittenTo(c, r.pc, q, r.written)
    BY <1>1, <2>1, <2>2, <2>4, Zenon
  <2>6. FramesTo(m)' = FramesTo(m)
    <3>1. \A i \in 1..Len(order) : call'[order[i]].seqno = call[order[i]].seqno
      BY <1>1, <1>3, <1>4, <1>5 DEF OrderInv, Typed
    <3>2. order \in Seq(Calls) /\ m \in 0..Len(order)
      BY <1>1, <2>1 DEF OrderInv
    <3> QED BY <1>1, <3>1, <3>2, SameFrames
  <2> QED BY <1>1, <1>4, <1>5, <1>6, <2>1, <2>3, <2>5, <2>6, ProgressMade
<1>8. wire' \in Seq(Syms) /\ Len(wire') >= Len(wire) /\ outlock' = c
  BY <1>1, <1>2
<1>9. r.rv = call[c].rv /\ r.seqno = call[c].seqno
  BY <1>5
<1> QED BY <1>1, <1>2, <1>3, <1>6, <1>7, <1>8, <1>9, WireHeld

(* The frames do not depend on how far a call is. *)
LEMMA FramesStay ==
    ASSUME Typed, OrderInv, NEW c \in Calls, params' = params, order' = order, NEW r,
           call' = [call EXCEPT ![c] = r], r.seqno = call[c].seqno
    PROVE  \A n \in 0..Len(order) : FramesTo(n)' = FramesTo(n)
<1>1. \A i \in 1..Len(order) : call'[order[i]].seqno = call[order[i]].seqno
  BY DEF OrderInv, Typed
<1>2. order \in Seq(Calls)
  BY DEF OrderInv
<1> QED BY <1>1, <1>2, SameFrames

(* send takes the whole array. *)
LEMMA SendWire ==
    ASSUME ~ShortSend, ListInv, ListInv', WireInv, NEW c \in Calls, Send(c) PROVE WireInv'
<1>1. /\ params' = params /\ fd = "open" /\ fd' = fd /\ passed' = passed /\ order' = order
      /\ outlock' = outlock /\ call[c].pc \in Parts /\ Typed /\ call[c] \in CallRecords
      /\ wire \in Seq(Syms) /\ OrderInv /\ WireOpen /\ ToSend(c) > 0
  BY DEF Send, ListInv, Typed, WireInv
<1>2. outlock = c
  BY <1>1 DEF ListInv, LockInv, Writing
<1>3. PICK n \in 1..ToSend(c) :
         /\ n = ToSend(c) /\ wire' = wire \o SubSeq(Arr(c), 1, n)
         /\ call' = [call EXCEPT ![c].written = @ + n]
  BY DEF Send
<1> DEFINE r == [call[c] EXCEPT !.written = call[c].written + n]
<1>4. call' = [call EXCEPT ![c] = r]
  BY <1>3
<1>5. ASSUME NEW p \in Nat, AtStage(c, p)
      PROVE  /\ Arr(c) \in Seq(Syms) /\ Arr(c) = ArrayAt(c, call[c].pc, p)
             /\ Before(c, call[c].pc, p) \in Seq(Syms)
  BY <1>1, <1>5, ArrIsPart, ArraysForm
<1>6. Arr(c) \in Seq(Syms)
  BY <1>1, <1>5 DEF ListInv, CallInv, StageInv, Writing
<1>7. /\ call[c].written \in Nat /\ n \in Nat /\ n = Len(Arr(c)) - call[c].written /\ n > 0
      /\ Len(Arr(c)) \in Nat
  BY <1>1, <1>3, <1>6 DEF ToSend, CallRecords
<1>8. /\ r.pc = call[c].pc /\ r.rv = call[c].rv /\ r.seqno = call[c].seqno
      /\ r.kv = call[c].kv /\ r.rest = call[c].rest /\ r.framelen = call[c].framelen
      /\ r.written = call[c].written + n
  BY <1>1 DEF CallRecords
<1> HIDE DEF r
<1>9. call'[c] = r
  BY <1>1, <1>4 DEF Typed
<1>10. wire' \in Seq(Syms) /\ Len(wire') >= Len(wire)
  <2>1. SubSeq(Arr(c), 1, n) \in Seq(Syms)
    BY <1>6, <1>7
  <2> DEFINE a == SubSeq(Arr(c), 1, n)
  <2> HIDE DEF a
  <2>2. a \in Seq(Syms) /\ wire' = wire \o a
    BY <1>3, <2>1, Zenon DEF a
  <2>3. wire \o a \in Seq(Syms) /\ Len(wire \o a) = Len(wire) + Len(a) /\ Len(a) \in Nat
        /\ Len(wire) \in Nat
    BY <1>1, <2>2
  <2>4. wire' \in Seq(Syms) /\ Len(wire') = Len(wire) + Len(a)
    BY <2>2, <2>3, Zenon
  <2> QED BY <2>3, <2>4
<1>11. ASSUME ~passed PROVE Progress(c)'
  <2>1. PICK p, m, w \in Nat, pc \in Writing :
           /\ Len(order) = m + 1 /\ call[c].pc = pc /\ call[c].written = w /\ AtStage(c, p)
           /\ pc \in Parts => w \in {0, Len(ArrayAt(c, pc, p))}
           /\ wire = FramesTo(m) \o WrittenTo(c, pc, p, w)
    BY <1>1, <1>2, <1>11 DEF WireOpen, Progress
  <2> DEFINE f == FramesTo(m)
             b == Before(c, pc, p)
             a == ArrayAt(c, pc, p)
  <2>2. a \in Seq(Syms) /\ b \in Seq(Syms) /\ Arr(c) = a
    BY <1>5, <2>1
  <2>3. f \in Seq(Syms)
    <3>1. order \in Seq(Calls) /\ m \in 0..Len(order)
      BY <1>1, <2>1 DEF OrderInv
    <3> QED BY <1>1, <3>1, FramesForm
  <2>4. w = 0 /\ n = Len(a) /\ Len(a) # 0
    <3> HIDE DEF a
    <3> QED BY <1>1, <1>7, <2>1, <2>2 DEF a
  <2>5. WrittenTo(c, pc, p, w) = b /\ WrittenTo(c, pc, p, n) = b \o a
    BY <1>1, <2>1, <2>4, Zenon DEF WrittenTo
  <2> HIDE DEF f, b, a
  <2>6. SubSeq(Arr(c), 1, n) = a
    BY <2>2, <2>4
  <2>7. Assoc3(f, b, a)
    BY <2>2, <2>3, Bracket3, Zenon
  <2>8. wire' = f \o (b \o a)
    BY <1>3, <2>1, <2>5, <2>6, <2>7, Zenon DEF Assoc3, f
  <2>9. wire' = FramesTo(m) \o WrittenTo(c, pc, p, n)
    BY <2>5, <2>8, Zenon DEF f
  <2>10. AtStage(c, p)'
    <3>1. AtStage(c, p)
      BY <2>1
    <3> QED BY <1>1, <1>8, <1>9, <3>1, StageAs DEF AtStage, AtPos
  <2>11. FramesTo(m)' = FramesTo(m)
    <3>1. m \in 0..Len(order)
      BY <2>1
    <3> QED BY <1>1, <1>4, <1>8, <3>1, FramesStay
  <2>12. call'[c].written = n /\ n \in {0, Len(ArrayAt(c, pc, p))}
    BY <1>7, <1>8, <1>9, <2>1, <2>4 DEF a
  <2> QED BY <1>1, <1>7, <1>8, <1>9, <2>1, <2>9, <2>10, <2>11, <2>12, ProgressMade
<1>12. r.pc \in Writing
  BY <1>1, <1>8 DEF Writing
<1> QED BY <1>1, <1>2, <1>4, <1>8, <1>10, <1>11, <1>12, WireHeld

(* Once the array is sent, it is one of those before the present one. *)
LEMMA ArrayWire ==
    ASSUME ListInv, ListInv', WireInv, NEW c \in Calls, ArrayDone(c) PROVE WireInv'
<1>1. /\ params' = params /\ wire' = wire /\ fd' = fd /\ passed' = passed /\ order' = order
      /\ outlock' = outlock /\ call[c].pc \in Parts \ {"end"} /\ Typed /\ call[c] \in CallRecords
      /\ wire \in Seq(Syms) /\ OrderInv /\ WireOpen /\ WireClosed /\ ToSend(c) = 0
  BY DEF ArrayDone, ListInv, Typed, WireInv
<1>2. outlock = c
  BY <1>1 DEF ListInv, LockInv, Writing
<1>3. fd = "closed" => passed
  <2> SUFFICES ASSUME fd = "closed", ~passed PROVE FALSE
    OBVIOUS
  <2>1. call[c].pc = "frhdr" /\ call[c].written = 0
    BY <1>1 DEF WireClosed
  <2>2. Len(Arr(c)) = 1
    BY <2>1 DEF Arr
  <2> QED BY <1>1, <2>1, <2>2 DEF ToSend
<1>4. PICK p0 \in Nat : AtStage(c, p0)
  BY <1>1 DEF ListInv, CallInv, StageInv, Writing
<1>5. PICK r : call' = [call EXCEPT ![c] = r] /\ r.pc \in Parts /\ r.seqno = call[c].seqno
               /\ r.rv = call[c].rv
  BY <1>4, ArrayMoved, Zenon DEF NextArray
<1>6. call'[c] = r
  BY <1>1, <1>5 DEF Typed
<1>7. ASSUME fd = "open", ~passed PROVE Progress(c)'
  <2>1. PICK p, m, w \in Nat, pc \in Writing :
           /\ Len(order) = m + 1 /\ call[c].pc = pc /\ call[c].written = w /\ AtStage(c, p)
           /\ wire = FramesTo(m) \o WrittenTo(c, pc, p, w)
    <3>1. Progress(c)
      BY <1>1, <1>2, <1>7 DEF WireOpen
    <3> QED BY <3>1, Zenon DEF Progress
  <2> DEFINE b == Before(c, pc, p)
             a == ArrayAt(c, pc, p)
  <2>2. InFrame(c, pc, p) /\ Arr(c) = a /\ pc \in Parts
    BY <1>1, <2>1, ArrIsPart
  <2>3. PICK q, s : NextArray(c, p, q, s)
    BY <2>1, ArrayMoved
  <2>4. s = r
    BY <1>1, <1>6, <2>3 DEF NextArray, Typed
  <2>5. /\ a \in Seq(Syms) /\ b \in Seq(Syms)
        /\ Before(c, PartAfter(c, pc, p), Following(pc, p)) = b \o a
    BY <1>1, <2>1, <2>2, ArraysForm
  <2>6. /\ r.pc = PartAfter(c, pc, p) /\ q = Following(pc, p) /\ r.written = 0
        /\ q \in Nat /\ AtStage(c, q)'
    BY <2>1, <2>3, <2>4, Zenon DEF NextArray
  <2>7. w = Len(a)
    <3> HIDE DEF a
    <3>1. Len(a) \in Nat /\ Len(a) - w = 0
      BY <1>1, <2>1, <2>2, <2>5 DEF ToSend
    <3> QED BY <3>1
  <2>8. WrittenTo(c, pc, p, w) = b \o a
    <3>1. CASE w # 0
      BY <2>2, <3>1, Zenon DEF WrittenTo
    <3>2. CASE w = 0
      <4>1. WrittenTo(c, pc, p, w) = b
        BY <3>2, Zenon DEF WrittenTo
      <4> HIDE DEF a, b
      <4>2. a = <<>>
        <5>1. a \in Seq(Syms) /\ Len(a) = 0
          BY <2>5, <2>7, <3>2
        <5> QED BY <5>1
      <4>3. b \o a = b
        BY <2>5, <4>2
      <4> QED BY <4>1, <4>3, Zenon
    <3> QED BY <3>1, <3>2
  <2>9. WrittenTo(c, r.pc, q, 0) = b \o a
    BY <2>5, <2>6, Zenon DEF WrittenTo
  <2>10. wire' = FramesTo(m) \o WrittenTo(c, r.pc, q, 0)
    BY <1>1, <2>1, <2>8, <2>9, Zenon
  <2>11. FramesTo(m)' = FramesTo(m)
    <3>1. m \in 0..Len(order)
      BY <2>1
    <3> QED BY <1>1, <1>5, <3>1, FramesStay
  <2>12. r.pc \in Writing /\ 0 \in Nat /\ Len(order') = m + 1
    BY <1>1, <1>5, <2>1 DEF Writing
  <2> QED BY <1>1, <1>5, <1>6, <2>6, <2>10, <2>11, <2>12, ProgressMade
<1>8. r.pc \in Writing /\ Len(wire') >= Len(wire) /\ fd \in {"open", "closed"}
  BY <1>1, <1>5 DEF Writing, Typed
<1> QED BY <1>1, <1>2, <1>3, <1>5, <1>7, <1>8, WireHeld

(* The holder releases outlock. *)
LEMMA WireReleased ==
    ASSUME ListInv, WireInv, NEW c \in Calls, params' = params, order' = order, wire' = wire,
           outlock = c, outlock' = NULL, NEW r, call' = [call EXCEPT ![c] = r],
           r.pc \in {"sent", "unsent", "returned"}, r.seqno = call[c].seqno,
           fd' = "open" /\ ~passed' => \A n \in Nat : n = Len(order) => wire = FramesTo(n),
           fd' = "closed" /\ ~passed' =>
              \A n \in Nat : n = Len(order) => Continues(wire, FramesTo(n), Syms),
           ~passed' => ~passed,
           ~passed' /\ r.rv = "0" =>
              \A i \in 1..Len(order) : Len(wire) >= Len(FramesTo(i))
    PROVE  WireInv'
<1>1. /\ order \in Seq(Calls) /\ Typed /\ wire \in Seq(Syms) /\ Len(order) \in Nat
      /\ \A i \in 1..Len(order) : order[i] \in Calls
      /\ OrderInv /\ Acked
  BY DEF WireInv, OrderInv, ListInv
<1>2. call'[c] = r /\ \A d \in Calls \ {c} : call'[d] = call[d]
  BY <1>1 DEF Typed
<1>3. \A n \in 0..Len(order) : FramesTo(n)' = FramesTo(n)
  BY <1>1, FramesStay
<1>4. \A n \in Nat : n = Len(order) => FramesTo(n)' = FramesTo(n)
  BY <1>1, <1>3
<1>5. \A d \in Calls : d # NULL
  BY WriterAssumption
<1>6. OrderInv'
  <2>1. \A d \in Calls : call'[d].pc \in Early => call[d].pc \in Early /\ call'[d].rv = call[d].rv
    BY <1>2 DEF Early
  <2>2. \A i \in 1..Len(order) : call'[order[i]].pc \notin Early
    BY <1>1, <2>1 DEF OrderInv
  <2> QED BY <1>1, <1>5, <2>1, <2>2 DEF OrderInv
<1>7. WireOpen'
  <2>1. ASSUME fd' = "open", ~passed', NEW n \in Nat, n = Len(order)
        PROVE  wire' = FramesTo(n)'
    BY <1>4, <2>1
  <2> QED BY <1>5, <2>1 DEF WireOpen
<1>8. WireClosed'
  <2>1. ASSUME fd' = "closed", ~passed', NEW n \in Nat, n = Len(order)
        PROVE  Continues(wire', FramesTo(n)', Syms)
    <3>1. Continues(wire, FramesTo(n), Syms) /\ FramesTo(n)' = FramesTo(n)
      BY <1>4, <2>1
    <3> QED BY <3>1, Zenon
  <2>2. \A d \in Calls : call'[d].pc \notin Parts
    <3> TAKE d \in Calls
    <3>1. CASE d = c
      BY <1>2, <3>1 DEF Parts
    <3>2. CASE d # c
      BY <1>2, <3>2 DEF ListInv, LockInv, Writing
    <3> QED BY <3>1, <3>2
  <2> QED BY <2>1, <2>2 DEF WireClosed, Continues
<1>9. Acked'
  <2> SUFFICES ASSUME ~passed', NEW i \in 1..Len(order), call'[order[i]].rv = "0"
               PROVE  Len(wire) >= Len(FramesTo(i)')
    BY DEF Acked
  <2>1. FramesTo(i)' = FramesTo(i)
    BY <1>1, <1>3
  <2>2. CASE order[i] = c
    BY <1>2, <2>1, <2>2
  <2>3. CASE order[i] # c
    BY <1>1, <1>2, <2>1, <2>3 DEF Acked
  <2> QED BY <2>2, <2>3
<1> QED BY <1>1, <1>6, <1>7, <1>8, <1>9 DEF WireInv

(* bw2_writeFrame returns: the frame is complete. *)
LEMMA DoneWire == ASSUME ListInv, WireInv, NEW c \in Calls, FrameDone(c) PROVE WireInv'
<1>1. /\ params' = params /\ wire' = wire /\ fd' = fd /\ passed' = passed /\ order' = order
      /\ outlock' = NULL /\ call[c].pc = "end" /\ Typed /\ call[c] \in CallRecords
      /\ wire \in Seq(Syms) /\ OrderInv /\ WireOpen /\ WireClosed /\ ToSend(c) = 0
      /\ order \in Seq(Calls) /\ Len(order) \in Nat
  BY DEF FrameDone, ListInv, Typed, WireInv, OrderInv
<1>2. outlock = c /\ call[c].pc \in Parts
  BY <1>1 DEF ListInv, LockInv, Writing, Parts
<1> DEFINE r == [call[c] EXCEPT !.pc = "sent", !.rv = "0"]
<1>3. call' = [call EXCEPT ![c] = r]
  BY <1>1 DEF FrameDone, Typed
<1>4. r.pc \in {"sent", "unsent", "returned"} /\ r.seqno = call[c].seqno
  BY <1>1 DEF CallRecords
<1> HIDE DEF r
<1>5. ASSUME ~passed
      PROVE  /\ fd = "open"
             /\ \A n \in Nat : n = Len(order) => wire = FramesTo(n)
             /\ \A i \in 1..Len(order) : Len(wire) >= Len(FramesTo(i))
  <2>1. fd = "open"
    BY <1>1, <1>2, <1>5 DEF WireClosed, Typed
  <2>2. PICK p, m, w \in Nat, pc \in Writing :
           /\ Len(order) = m + 1 /\ call[c].pc = pc /\ call[c].written = w /\ AtStage(c, p)
           /\ pc \in Parts => w \in {0, Len(ArrayAt(c, pc, p))}
           /\ wire = FramesTo(m) \o WrittenTo(c, pc, p, w)
    <3>1. Progress(c)
      BY <1>1, <1>2, <1>5, <2>1 DEF WireOpen
    <3> QED BY <3>1, Zenon DEF Progress
  <2>3. InFrame(c, "end", p) /\ pc = "end"
    BY <1>1, <1>2, <2>2, ArrIsPart
  <2>4. Before(c, "end", p) \o ArrayAt(c, "end", p) = FrameOf(c)
    BY <1>1, <2>3, ArraysForm
  <2>5. w # 0
    <3>1. Len(Arr(c)) = 2
      BY <1>1 DEF Arr
    <3> QED BY <1>1, <2>2, <3>1 DEF ToSend
  <2>6. WrittenTo(c, pc, p, w) = FrameOf(c)
    BY <1>1, <1>2, <2>3, <2>4, <2>5, Zenon DEF WrittenTo
  <2>7. m \in 0..Len(order) /\ m < Len(order) /\ m + 1 \in 0..Len(order) /\ order[m + 1] = c
    BY <1>1, <1>2, <2>2 DEF OrderInv
  <2>8. FramesTo(m + 1) = FramesTo(m) \o FrameOf(order[m + 1])
    BY <1>1, <2>7, FramesForm
  <2>9. wire = FramesTo(m + 1)
    BY <2>2, <2>6, <2>7, <2>8, Zenon
  <2>10. ASSUME NEW i \in 1..Len(order) PROVE Len(wire) >= Len(FramesTo(i))
    <3>1. i \in 0..Len(order) /\ i <= m + 1
      BY <1>1, <2>2
    <3>2. /\ FramesTo(i) \in Seq(Syms) /\ FramesTo(m + 1) \in Seq(Syms)
          /\ Continues(FramesTo(i), FramesTo(m + 1), Syms)
      BY <1>1, <2>7, <3>1, FramesForm
    <3>3. Len(FramesTo(i)) <= Len(FramesTo(m + 1)) /\ Len(FramesTo(i)) \in Nat
          /\ Len(FramesTo(m + 1)) \in Nat
      BY <3>2, ContinuesFacts
    <3> QED BY <2>9, <3>3
  <2> QED BY <2>1, <2>2, <2>9, <2>10
<1>6. fd' = "open" /\ ~passed' => \A n \in Nat : n = Len(order) => wire = FramesTo(n)
  BY <1>1, <1>5
<1>7. ~(fd' = "closed" /\ ~passed')
  BY <1>1, <1>5
<1>8. ~passed' /\ r.rv = "0" => \A i \in 1..Len(order) : Len(wire) >= Len(FramesTo(i))
  BY <1>1, <1>5
<1> QED BY <1>1, <1>2, <1>3, <1>4, <1>6, <1>7, <1>8, WireReleased

(* send fails: the frame is cut off, and is the last one, or the error is   *)
(* passed over.                                                             *)
LEMMA FailsWire == ASSUME ListInv, WireInv, NEW c \in Calls, SendFails(c) PROVE WireInv'
<1>1. /\ params' = params /\ wire' = wire /\ order' = order
      /\ outlock' = NULL /\ call[c].pc \in Parts /\ Typed /\ call[c] \in CallRecords
      /\ wire \in Seq(Syms) /\ OrderInv /\ WireOpen /\ WireClosed
      /\ order \in Seq(Calls) /\ Len(order) \in Nat
  BY DEF SendFails, ListInv, Typed, WireInv, OrderInv
<1>2. outlock = c
  BY <1>1 DEF ListInv, LockInv, Writing
<1>3. CASE fd' = "closed" /\ passed' = passed
           /\ call' = [call EXCEPT ![c].pc = "returned", ![c].rv = "CONNECTION_LOST"]
  <2> DEFINE r == [call[c] EXCEPT !.pc = "returned", !.rv = "CONNECTION_LOST"]
  <2>1. call' = [call EXCEPT ![c] = r]
    BY <1>1, <1>3 DEF Typed
  <2>2. r.pc \in {"sent", "unsent", "returned"} /\ r.seqno = call[c].seqno /\ r.rv # "0"
    BY <1>1 DEF CallRecords
  <2> HIDE DEF r
  <2>3. ASSUME ~passed, NEW n \in Nat, n = Len(order) PROVE Continues(wire, FramesTo(n), Syms)
    <3>1. CASE fd = "open"
      <4>1. Progress(c)
        BY <1>1, <1>2, <2>3, <3>1 DEF WireOpen
      <4> QED BY <1>1, <1>2, <2>3, <4>1, ProgressPrefix
    <3>2. CASE fd = "closed"
      BY <1>1, <2>3, <3>2 DEF WireClosed
    <3> QED BY <1>1, <3>1, <3>2 DEF Typed
  <2>4. fd' # "open"
    BY <1>3
  <2>5. fd' = "closed" /\ ~passed' =>
           \A n \in Nat : n = Len(order) => Continues(wire, FramesTo(n), Syms)
    BY <1>3, <2>3
  <2>6. ~passed' => ~passed
    BY <1>3
  <2> QED BY <1>1, <1>2, <2>1, <2>2, <2>4, <2>5, <2>6, WireReleased
<1>4. CASE passed' = TRUE /\ call' = [call EXCEPT ![c].pc = "unsent", ![c].rv = "0"]
  <2> DEFINE r == [call[c] EXCEPT !.pc = "unsent", !.rv = "0"]
  <2>1. call' = [call EXCEPT ![c] = r]
    BY <1>1, <1>4 DEF Typed
  <2>2. r.pc \in {"sent", "unsent", "returned"} /\ r.seqno = call[c].seqno
    BY <1>1 DEF CallRecords
  <2> HIDE DEF r
  <2> QED BY <1>1, <1>2, <1>4, <2>1, <2>2, WireReleased
<1> QED BY <1>3, <1>4 DEF SendFails

(* bw2_disconnect takes outlock: no frame is cut off by it. *)
LEMMA DisconnectWire == ASSUME ListInv, WireInv, disconnect PROVE WireInv'
<1>1. /\ params' = params /\ wire' = wire /\ order' = order /\ call' = call /\ passed' = passed
      /\ outlock = NULL /\ outlock' = outlock /\ fd' = "closed" /\ Typed
      /\ wire \in Seq(Syms) /\ OrderInv /\ WireOpen /\ WireClosed /\ Acked
      /\ order \in Seq(Calls) /\ Len(order) \in Nat
  BY DEF disconnect, ListInv, Typed, WireInv, OrderInv
<1>2. \A n \in 0..Len(order) : FramesTo(n)' = FramesTo(n)
  BY <1>1, SameFrames
<1>3. OrderInv'
  BY <1>1 DEF OrderInv
<1>4. WireOpen'
  BY <1>1 DEF WireOpen
<1>5. WireClosed'
  <2>1. ASSUME ~passed, NEW n \in Nat, n = Len(order) PROVE Continues(wire', FramesTo(n)', Syms)
    <3>1. FramesTo(n)' = FramesTo(n)
      BY <1>1, <1>2, <2>1
    <3>2. Continues(wire, FramesTo(n), Syms)
      <4>1. CASE fd = "open"
        <5>1. wire = FramesTo(n) /\ Continues(wire, wire, Syms)
          BY <1>1, <2>1, <4>1, ContinuesFacts DEF WireOpen
        <5> QED BY <5>1, Zenon
      <4>2. CASE fd = "closed"
        BY <1>1, <2>1, <4>2 DEF WireClosed
      <4> QED BY <1>1, <4>1, <4>2 DEF Typed
    <3> QED BY <1>1, <3>1, <3>2, Zenon
  <2>2. \A d \in Calls : call'[d].pc \notin Parts
    <3>1. \A d \in Calls : outlock # d
      BY <1>1, WriterAssumption
    <3> QED BY <1>1, <3>1 DEF ListInv, LockInv, Writing
  <2> QED BY <1>1, <2>1, <2>2 DEF WireClosed, Continues
<1>6. Acked'
  <2>1. \A i \in 1..Len(order) : FramesTo(i)' = FramesTo(i)
    BY <1>1, <1>2
  <2> QED BY <1>1, <2>1 DEF Acked
<1> QED BY <1>1, <1>3, <1>4, <1>5, <1>6 DEF WireInv

(* Nothing happens. *)
LEMMA StutterWire == ASSUME ListInv, WireInv, UNCHANGED writerVars PROVE WireInv'
<1>1. /\ params' = params /\ wire' = wire /\ order' = order /\ call' = call /\ passed' = passed
      /\ outlock' = outlock /\ fd' = fd /\ node' = node /\ curseqno' = curseqno
      /\ connected' = connected
  BY DEF writerVars
<1>2. \A d \in Calls : FrameOf(d)' = FrameOf(d)
  BY <1>1, SameFrame
<1>3. FramesInOrder' = FramesInOrder
  BY <1>1, <1>2 DEF FramesInOrder, AllFrames
<1>4. \A n : FramesTo(n)' = FramesTo(n)
  BY <1>3, Zenon DEF FramesTo
<1>5. ASSUME NEW d \in Calls, Progress(d) PROVE Progress(d)'
  <2>1. PICK p, m, w \in Nat, pc \in Writing :
           /\ Len(order) = m + 1 /\ call[d].pc = pc /\ call[d].written = w /\ AtStage(d, p)
           /\ pc \in Parts => w \in {0, Len(ArrayAt(d, pc, p))}
           /\ wire = FramesTo(m) \o WrittenTo(d, pc, p, w)
    BY <1>5, Zenon DEF Progress
  <2>2. AtStage(d, p)'
    <3>1. AtStage(d, p)
      BY <2>1
    <3> QED BY <1>1, <3>1, StageAs DEF AtStage, AtPos
  <2>3. wire' = FramesTo(m) \o WrittenTo(d, pc, p, w)
    BY <1>1, <2>1, Zenon
  <2> QED BY <1>1, <1>4, <2>1, <2>2, <2>3, ProgressMade
<1>6. WireOpen'
  BY <1>1, <1>4, <1>5 DEF WireInv, WireOpen
<1>7. WireClosed'
  BY <1>1, <1>4, Zenon DEF WireInv, WireClosed
<1>8. OrderInv' /\ Acked'
  BY <1>1, <1>4 DEF WireInv, OrderInv, Acked
<1> QED BY <1>1, <1>6, <1>7, <1>8 DEF WireInv

(* Every step keeps the wire as WireInv says. *)
LEMMA WireStep ==
    ASSUME ~ShortSend, ListInv, WireInv, [Next]_writerVars PROVE WireInv'
<1>1. ListInv'
  BY ListStep
<1>2. ASSUME NEW c \in Calls, CallStep(c) PROVE WireInv'
  BY <1>1, <1>2, OthersWire, LockWire, LengthWire, SendWire, ArrayWire, DoneWire, FailsWire
     DEF CallStep, TransactStep
<1> QED BY <1>2, DisconnectWire, StutterWire DEF Next, Finished

(* WireInv follows from Spec, if send accepts whole arrays. *)
THEOREM WireIsBuilt == ~ShortSend /\ Spec => []WireInv
<1>1. Init => WireInv
  BY WireInit
<1>2. ~ShortSend /\ ListInv /\ WireInv /\ [Next]_writerVars => WireInv'
  BY WireStep
<1>3. ASSUME ~ShortSend PROVE Spec => []WireInv
  <2>1. ListInv /\ WireInv /\ [Next]_writerVars => WireInv'
    BY <1>2, <1>3
  <2> QED BY <1>1, <2>1, ListsAreBuilt, PTL DEF Spec
<1> QED BY <1>3

(* WireIsFrames: for any calls and programs, what reaches the agent is a    *)
(* prefix of the frames the callers asked for, in the order of outlock.     *)
THEOREM FramesReachAgent == ~ShortSend /\ Spec => []WireIsFrames
<1>1. ListInv /\ WireInv => WireIsFrames
  <2> SUFFICES ASSUME ListInv, WireInv, ~passed PROVE IsPrefix(wire, EncodeFrames(InOrder))
    BY DEF WireIsFrames
  <2>1. /\ Typed /\ order \in Seq(Calls) /\ OrderInv /\ wire \in Seq(Syms) /\ Len(order) \in Nat
        /\ fd \in {"open", "closed"} /\ outlock \in Calls \cup {NULL} /\ WireOpen /\ WireClosed
    BY DEF ListInv, Typed, WireInv, OrderInv
  <2>2. PICK n \in Nat : n = Len(order)
    BY <2>1
  <2>3. n \in 0..Len(order) /\ FramesTo(n) \in Seq(Syms)
    BY <2>1, <2>2, FramesForm
  <2>4. Continues(wire, FramesTo(n), Syms)
    <3>1. CASE fd = "open" /\ outlock = NULL
      <4>1. wire = FramesTo(n) /\ Continues(wire, wire, Syms)
        BY <2>1, <2>2, <3>1, ContinuesFacts DEF WireOpen
      <4> QED BY <4>1, Zenon
    <3>2. CASE fd = "open" /\ outlock \in Calls
      <4>1. PICK c \in Calls : outlock = c /\ Progress(c)
        BY <2>1, <3>2 DEF WireOpen
      <4> QED BY <2>1, <2>2, <4>1, ProgressPrefix
    <3>3. CASE fd = "closed"
      BY <2>1, <2>2, <3>3 DEF WireClosed
    <3> QED BY <2>1, <3>1, <3>2, <3>3
  <2>5. IsPrefix(wire, FramesTo(n))
    BY <2>1, <2>3, <2>4, ContinuesFacts
  <2>6. EncodeFrames(InOrder) = FramesTo(n)
    BY <2>1, <2>2, FramesAsked, Zenon
  <2> QED BY <2>5, <2>6, Zenon
<1>2. ASSUME ~ShortSend PROVE Spec => []WireIsFrames
  <2>1. Spec => []WireInv
    BY <1>2, WireIsBuilt
  <2> QED BY <1>1, <2>1, ListsAreBuilt, PTL
<1> QED BY <1>2

(* SentIsWritten: a call whose frame was accepted, and that goes on to wait *)
(* for its answer, has its whole frame on the wire.                         *)
THEOREM AcceptedIsWritten == ~ShortSend /\ Spec => []SentIsWritten
<1>1. ListInv /\ WireInv => SentIsWritten
  <2> SUFFICES ASSUME ListInv, WireInv, NEW i \in DOMAIN order, call[order[i]].rv = "0", ~passed
               PROVE  Len(wire) >= Len(EncodeFrames(SubSeq(InOrder, 1, i)))
    BY DEF SentIsWritten
  <2>1. Typed /\ order \in Seq(Calls) /\ Acked /\ i \in 1..Len(order)
    BY DEF ListInv, WireInv, OrderInv
  <2>2. EncodeFrames(SubSeq(InOrder, 1, i)) = FramesTo(i)
    BY <2>1, FramesAsked, Zenon
  <2>3. Len(wire) >= Len(FramesTo(i))
    BY <2>1 DEF Acked
  <2> QED BY <2>2, <2>3
<1>2. ASSUME ~ShortSend PROVE Spec => []SentIsWritten
  <2>1. Spec => []WireInv
    BY <1>2, WireIsBuilt
  <2> QED BY <1>1, <2>1, ListsAreBuilt, PTL
<1> QED BY <1>2
=============================================================================
