------------------------------ MODULE OneShot -------------------------------
(* What a reqctx promises the API calls that block on it: an event that     *)
(* happens once, after which every waiting call comes back, and before      *)
(* which none does.  Client takes the blocking of a call in this form.      *)
CONSTANT Waiters

VARIABLES fired,    \* the response, or the loss of the connection, is known
          returned  \* the waiting calls that have come back

oneShotVars == <<fired, returned>>

OneShotInit == fired = FALSE /\ returned = {}

Fire == fired' = TRUE /\ UNCHANGED returned

ComeBack(w) == /\ fired /\ w \notin returned
               /\ returned' = returned \cup {w}
               /\ UNCHANGED fired

OneShotNext == Fire \/ \E w \in Waiters : ComeBack(w)

OneShotSafety == OneShotInit /\ [][OneShotNext]_oneShotVars

OneShotSpec ==
    OneShotSafety /\ \A w \in Waiters : WF_oneShotVars(ComeBack(w))
=============================================================================
