------------------------------ MODULE MCClient ------------------------------
(* Client for TLC: each run chooses which API functions the calls invoke. *)
EXTENDS Client, TLC

CONSTANTS c1, c2, c3   \* calls, as model values

KindNormal == c1 :> "createDOT" @@ c2 :> "subscribeHandle"
KindFaults == c1 :> "publish" @@ c2 :> "query" @@ c3 :> "createDOTChain"
KindEntity == c1 :> "createEntity"
KindQuery  == c1 :> "query"
KindPub    == c1 :> "publish"
=============================================================================
