--------------------------- MODULE MCFrameWriter ----------------------------
(* FrameWriter for TLC: pairs of API calls, among them every API function   *)
(* with and without its optional parameters, and calls that use the same    *)
(* structures one after the other.  Keys and texts are short; lengths and   *)
(* numbers have one digit or two.                                           *)
EXTENDS FrameWriter

CONSTANTS r1, r2

P(fn, set, hashes, pos, ros) ==
    [fn |-> fn, set |-> set, list |-> hashes, pos |-> pos, ros |-> ros,
     chain |-> r1, to |-> r2]

Pos == <<PoObject(9, 0, "po1"), PoObject(10, 10, "po2")>>
Ros == <<RoObject(9, 9, "ro1"), RoObject(10, 1, "ro2")>>

AllSet == {"autochain", "expiry", "primaryAccessChain", "elaboratePAC",
           "doNotVerify", "persist", "leavePacked", "contact", "comment",
           "omitCreationDate", "unElaborate"}
Nothings == {"expiryDelta"}

Entity == P("createEntity", {}, <<r2, r1>>, <<>>, <<>>)
Unsub  == P("unsubscribe", {}, <<>>, <<>>, <<>>)
First ==
    {P("publish", AllSet, <<>>, Pos, Ros), P("publish", Nothings, <<>>, <<>>, <<>>),
     P("subscribe", AllSet, <<>>, <<>>, Ros), P("query", Nothings, <<>>, <<>>, <<>>),
     P("list", AllSet, <<>>, <<>>, <<>>), P("setEntity", {}, <<>>, Pos, <<>>),
     P("createDOT", AllSet, <<r1, r2>>, <<>>, <<>>),
     P("createDOT", {"isPermission"}, <<r1, r2>>, <<>>, <<>>),
     P("createEntity", AllSet, <<r1>>, <<>>, <<>>),
     P("createDOTChain", {}, <<r1, r2>>, <<>>, <<>>),
     P("buildChain", {}, <<>>, <<>>, <<>>)}

CONSTANTS c1, c2
Pairs == {[c \in Calls |-> IF c = c1 THEN p ELSE q] : p \in First, q \in {Entity, Unsub}}
OnePair == {[c \in Calls |-> Unsub]}

HashSizes == [h \in Hashes |-> IF h = r1 THEN [len |-> 2, strlen |-> 1]
                               ELSE [len |-> 1, strlen |-> 3]]
TextLens == [t \in Texts |-> CASE t = "true" -> 4 [] t = "false" -> 5
                               [] t = "uri" -> 10 [] t = "comment" -> 0
                               [] OTHER -> 1]
KeyLens == [k \in Keys |-> IF k = "to" THEN 2 ELSE 1]
=============================================================================
