---------------------------- MODULE ReqCtxProofs ----------------------------
(* Theorems about the blocking half of a reqctx, for any number of threads. *)
EXTENDS ReqCtx, TLAPS

(* Who holds the lock is where the lock says: the critical sections of      *)
(* bw2_reqctxWait, Signalled and Signal exclude each other, as long as the   *)
(* lock is not destroyed.                                                   *)
LockHeld ==
    /\ \A w \in Waiters : wpc[w] \in {"check", "sleep", "unlock"} <=> lock = w
    /\ \A p \in Pollers : /\ lock = p => ppc[p] = "read"
                          /\ ppc[p] = "read" => lock = p \/ destroyed
    /\ kpc \in {"set", "wake", "unlock"} <=> lock = "waker"

(* What the progress of bw2_reqctxSignal says about rv and ready. *)
WakerOrder == /\ rv <=> kpc # "start"
              /\ ready <=> kpc \in {"wake", "unlock", "done"}

(* A thread that saw ready saw it with the lock, hence after Signal; one    *)
(* that saw it unset has kept the lock, and it still is.                    *)
SawReady == /\ \A w \in Waiters : wpc[w] \in {"unlock", "done"} => kpc = "done"
            /\ \A w \in Waiters : wpc[w] = "sleep" => ~ready
            /\ saw # {} => ready

Asleep == \A w \in Waiters : w \in cond <=> wpc[w] = "asleep"

(* The calls are through when the lock is destroyed; callbacks need not be. *)
DestroyedLast == destroyed => \A w \in Waiters : wpc[w] = "done"

ReqCtxInv == /\ TypeOK /\ LockHeld /\ WakerOrder /\ SawReady
             /\ Asleep /\ DestroyedLast /\ NoLostWakeup

(* The next-state relation, action by action. *)
LEMMA ReqCtxActions ==
    ASSUME [Next]_reqctxVars
    PROVE  \/ SetRv \/ WakeLock \/ SetReady \/ Wake \/ WakeUnlock \/ Destroy
           \/ \E w \in Waiters : \/ WaitLock(w) \/ CondWait(w) \/ SpuriousWakeup(w)
                                 \/ TestReady(w) \/ WaitUnlock(w)
           \/ \E p \in Pollers : PollLock(p) \/ PollRead(p)
           \/ UNCHANGED reqctxVars
BY DEF Next, WakerStep, WaiterStep, Finished

(* bw2_reqctxInit establishes the invariant. *)
LEMMA ReqCtxInit == Init => ReqCtxInv
BY ReqCtxAssumption
   DEF Init, ReqCtxInv, TypeOK, LockHeld, WakerOrder, SawReady, Asleep,
       DestroyedLast, NoLostWakeup

(* Every lock or condition variable operation keeps the invariant. *)
LEMMA ReqCtxStep == ReqCtxInv /\ [Next]_reqctxVars => ReqCtxInv'
<1> SUFFICES ASSUME ReqCtxInv, [Next]_reqctxVars PROVE ReqCtxInv'
  OBVIOUS
<1> USE DEF ReqCtxInv, TypeOK, LockHeld, WakerOrder, SawReady, Asleep,
            DestroyedLast, NoLostWakeup
<1>1. CASE SetRv
  BY <1>1 DEF SetRv
<1>2. CASE WakeLock
  BY <1>2, ReqCtxAssumption DEF WakeLock
<1>3. CASE SetReady
  BY <1>3, ReqCtxAssumption DEF SetReady
<1>4. CASE Wake
  BY <1>4, ReqCtxAssumption DEF Wake, Woken
<1>5. CASE WakeUnlock
  BY <1>5, ReqCtxAssumption DEF WakeUnlock
<1>6. CASE Destroy
  BY <1>6 DEF Destroy
<1>7. ASSUME NEW w \in Waiters, WaitLock(w) PROVE ReqCtxInv'
  BY <1>7, ReqCtxAssumption DEF WaitLock, Goto
<1>8. ASSUME NEW w \in Waiters, CondWait(w) PROVE ReqCtxInv'
  BY <1>8, ReqCtxAssumption DEF CondWait, Goto
<1>9. ASSUME NEW w \in Waiters, SpuriousWakeup(w) PROVE ReqCtxInv'
  BY <1>9, ReqCtxAssumption DEF SpuriousWakeup, Goto
<1>10. ASSUME NEW w \in Waiters, TestReady(w) PROVE ReqCtxInv'
  BY <1>10, ReqCtxAssumption DEF TestReady, Goto
<1>11. ASSUME NEW w \in Waiters, WaitUnlock(w) PROVE ReqCtxInv'
  BY <1>11, ReqCtxAssumption DEF WaitUnlock, Goto
<1>12. ASSUME NEW p \in Pollers, PollLock(p) PROVE ReqCtxInv'
  BY <1>12, ReqCtxAssumption DEF PollLock
<1>13. ASSUME NEW p \in Pollers, PollRead(p) PROVE ReqCtxInv'
  BY <1>13, ReqCtxAssumption DEF PollRead
<1>14. CASE UNCHANGED reqctxVars
  BY <1>14 DEF reqctxVars
<1> QED
  BY ReqCtxActions, <1>1, <1>2, <1>3, <1>4, <1>5, <1>6, <1>7, <1>8, <1>9,
     <1>10, <1>11, <1>12, <1>13, <1>14

(* The inductive invariant holds in every reachable state. *)
LEMMA ReqCtxInvariant == Spec => []ReqCtxInv
<1>1. QED BY ReqCtxInit, ReqCtxStep, PTL DEF Spec

(* When bw2_reqctxDestroy runs, and ever after, bw2_reqctxSignal is over, no *)
(* waiter uses the reqctx, and callbacks still to come find ready set: a     *)
(* thread that saw ready had the lock, which the waker keeps until it has    *)
(* signalled.  Callbacks that ask are at any point.                         *)
THEOREM DestroyIsSafe == Spec => []DestroyedIsQuiet
<1>1. ReqCtxInv => DestroyedIsQuiet
  BY ReqCtxAssumption
     DEF ReqCtxInv, TypeOK, LockHeld, WakerOrder, SawReady, Asleep,
         DestroyedLast, DestroyedIsQuiet
<1> QED BY <1>1, ReqCtxInvariant, PTL

(* Whoever is back from bw2_reqctxWait, or saw the flag through             *)
(* bw2_reqctxSignalled, comes after the assignment to rv.                   *)
THEOREM WaitSeesRv == Spec => []RvIsSet
<1>1. ReqCtxInv => RvIsSet
  BY DEF ReqCtxInv, WakerOrder, SawReady, RvIsSet
<1> QED BY <1>1, ReqCtxInvariant, PTL

(* bw2_reqctxSignal wakes its single waiter, bw2_reqctxBroadcast them all,  *)
(* and nobody falls asleep afterwards.                                      *)
THEOREM WakeupIsNotLost == Spec => []NoLostWakeup
<1>1. ReqCtxInv => NoLostWakeup
  BY DEF ReqCtxInv
<1> QED BY <1>1, ReqCtxInvariant, PTL

(* A reqctx implements the safety part of the one-shot event: ready is set  *)
(* once and for all, and a call comes back only after it, one at a time.    *)
THEOREM RefinesOneShot == Spec => Event!OneShotSafety
<1>1. Init => Event!OneShotInit
  BY DEF Init, Event!OneShotInit
<1>2. ReqCtxInv /\ [Next]_reqctxVars => [Event!OneShotNext]_(Event!oneShotVars)
  <2> SUFFICES ASSUME ReqCtxInv, [Next]_reqctxVars
               PROVE  [Event!OneShotNext]_(Event!oneShotVars)
    OBVIOUS
  <2> DEFINE Back == {w \in Waiters : wpc[w] = "done"}
  <2> USE DEF Event!OneShotNext, Event!oneShotVars
  <2>1. CASE UNCHANGED ready /\ Back' = Back
    BY <2>1
  <2>2. CASE SetReady
    BY <2>2 DEF SetReady, Event!Fire
  <2>3. ASSUME NEW w \in Waiters, WaitUnlock(w) PROVE Event!ComeBack(w)
    <3>1. ready /\ UNCHANGED ready /\ w \notin Back
      BY <2>3 DEF WaitUnlock, ReqCtxInv, SawReady, WakerOrder
    <3>2. Back' = Back \cup {w}
      BY <2>3 DEF WaitUnlock, Goto, ReqCtxInv, TypeOK
    <3> QED BY <3>1, <3>2 DEF Event!ComeBack
  <2>4. CASE Wake
    <3>1. \A w \in Waiters : wpc'[w] = "done" <=> wpc[w] = "done"
      BY <2>4 DEF Wake, Woken, ReqCtxInv, TypeOK, Asleep
    <3> QED BY <2>1, <3>1, <2>4 DEF Wake
  <2>5. CASE SetRv \/ WakeLock \/ WakeUnlock \/ Destroy \/ UNCHANGED reqctxVars
             \/ \E p \in Pollers : PollLock(p) \/ PollRead(p)
    BY <2>1, <2>5 DEF SetRv, WakeLock, WakeUnlock, Destroy, PollLock, PollRead,
                      reqctxVars
  <2>6. ASSUME NEW w \in Waiters,
               WaitLock(w) \/ CondWait(w) \/ SpuriousWakeup(w) \/ TestReady(w)
        PROVE  UNCHANGED ready /\ Back' = Back
    BY <2>6 DEF WaitLock, CondWait, SpuriousWakeup, TestReady, Goto,
                ReqCtxInv, TypeOK, Asleep
  <2> QED
    BY ReqCtxActions, <2>1, <2>2, <2>3, <2>4, <2>5, <2>6
<1> QED
  BY <1>1, <1>2, ReqCtxInvariant, PTL DEF Spec, Event!OneShotSafety
=============================================================================
