------------------------------- MODULE ReqCtx -------------------------------
(***************************************************************************)
(* The blocking half of struct bw2_reqctx: the mutex, the condition        *)
(* variable and the flag ready, used by the threads that wait              *)
(* (bw2_reqctxWait) and by the BOSSWAVE thread that wakes them             *)
(* (bw2_reqctxSignal or bw2_reqctxBroadcast), and by callbacks that only    *)
(* ask (bw2_reqctxSignalled), at the grain of the single lock and condition *)
(* variable operations.                                                    *)
(*                                                                         *)
(* The waiters are calls whose bw2_transact went well; that one which       *)
(* failed is destroyed without a wait is part of Client (GiveUp).           *)
(***************************************************************************)
CONSTANTS Waiters,    \* threads that call bw2_reqctxWait
          Pollers,    \* callbacks of frames, which call bw2_reqctxSignalled
          Broadcast   \* the waker calls bw2_reqctxBroadcast, not Signal

ASSUME ReqCtxAssumption == 
    /\ Broadcast \in BOOLEAN
    /\ Waiters # {}
    /\ Waiters \cap Pollers = {}
    /\ {"waker", "free"} \cap (Waiters \cup Pollers) = {}

VARIABLES lock,       \* who holds rctx->lock, "free" when nobody does
          cond,       \* threads asleep on rctx->condvar
          ready,      \* rctx->ready
          rv,         \* rctx->rv has been set
          wpc,        \* where each waiting thread is
          ppc,        \* where each polling callback is
          saw,        \* the polling callbacks that were told ready is set
          kpc,        \* where the BOSSWAVE thread is
          destroyed   \* bw2_reqctxDestroy has been called

reqctxVars == <<lock, cond, ready, rv, wpc, ppc, saw, kpc, destroyed>>

(* bw2_reqctxInit *)
Init ==
    /\ lock = "free" /\ cond = {} /\ ready = FALSE /\ rv = FALSE
    /\ wpc = [w \in Waiters |-> "start"]
    /\ ppc = [p \in Pollers |-> "start"] /\ saw = {}
    /\ kpc = "start" /\ destroyed = FALSE

Goto(w, l) == wpc' = [wpc EXCEPT ![w] = l]

-----------------------------------------------------------------------------
(* bw2_reqctxWait *)

(* Mutant: an if where the code has a while. *)
WaitLock_noLoop(w) ==
    /\ wpc[w] \in {"start", "relock"} /\ lock = "free"
    /\ lock' = w /\ Goto(w, IF wpc[w] = "relock" THEN "unlock" ELSE "check")
    /\ UNCHANGED <<cond, ready, rv, ppc, saw, kpc, destroyed>>

(* The first lock, or the one bw2_condWait takes again before it returns. *)
WaitLock(w) ==
    /\ wpc[w] \in {"start", "relock"} /\ lock = "free"
    /\ lock' = w /\ Goto(w, "check")
    /\ UNCHANGED <<cond, ready, rv, ppc, saw, kpc, destroyed>>

(* The test of the loop reads the flag ... *)
TestReady(w) ==
    /\ wpc[w] = "check"
    /\ Goto(w, IF ready THEN "unlock" ELSE "sleep")
    /\ UNCHANGED <<lock, cond, ready, rv, ppc, saw, kpc, destroyed>>

(* ... and bw2_condWait comes later: it releases the lock and puts the      *)
(* thread to sleep in one step.                                             *)
CondWait(w) ==
    /\ wpc[w] = "sleep"
    /\ lock' = "free" /\ cond' = cond \cup {w} /\ Goto(w, "asleep")
    /\ UNCHANGED <<ready, rv, ppc, saw, kpc, destroyed>>

(* A thread asleep on a condition variable may wake for no reason. *)
SpuriousWakeup(w) ==
    /\ w \in cond
    /\ cond' = cond \ {w} /\ Goto(w, "relock")
    /\ UNCHANGED <<lock, ready, rv, ppc, saw, kpc, destroyed>>

WaitUnlock(w) ==
    /\ wpc[w] = "unlock"
    /\ lock' = "free" /\ Goto(w, "done")
    /\ UNCHANGED <<cond, ready, rv, ppc, saw, kpc, destroyed>>

(* bw2_reqctxSignalled: asked by the callback of any frame, the last ones   *)
(* long after the call has destroyed the lock.  What such a lock does is     *)
(* undefined: it works as before, or bw2_mutexLock fails and, as nobody      *)
(* looks at its result, the flag is read without it.                        *)
PollLock(p) ==
    /\ ppc[p] = "start"
    /\ \/ lock = "free" /\ lock' = p
       \/ destroyed /\ UNCHANGED lock
    /\ ppc' = [ppc EXCEPT ![p] = "read"]
    /\ UNCHANGED <<cond, ready, rv, wpc, saw, kpc, destroyed>>

PollRead(p) ==
    /\ ppc[p] = "read"
    /\ lock' = (IF lock = p THEN "free" ELSE lock)
    /\ ppc' = [ppc EXCEPT ![p] = "done"]
    /\ saw' = IF ready THEN saw \cup {p} ELSE saw
    /\ UNCHANGED <<cond, ready, rv, wpc, kpc, destroyed>>

(* bw2_reqctxDestroy: the call is back from bw2_reqctxWait.  Callbacks of    *)
(* this reqctx may be at any point, or be still to come.                    *)
Destroy ==
    /\ ~destroyed
    /\ \A w \in Waiters : wpc[w] = "done"
    /\ destroyed' = TRUE
    /\ UNCHANGED <<lock, cond, ready, rv, wpc, ppc, saw, kpc>>

-----------------------------------------------------------------------------
(* A callback sets rv, then calls bw2_reqctxSignal or bw2_reqctxBroadcast. *)

SetRv ==
    /\ kpc = "start"
    /\ rv' = TRUE /\ kpc' = "lock"
    /\ UNCHANGED <<lock, cond, ready, wpc, ppc, saw, destroyed>>

(* Mutant: the flag is set without the lock. *)
WakeLock_unlocked ==
    /\ kpc = "lock" /\ lock = "free"
    /\ kpc' = "set"
    /\ UNCHANGED <<lock, cond, ready, rv, wpc, ppc, saw, destroyed>>

WakeLock ==
    /\ kpc = "lock" /\ lock = "free"
    /\ lock' = "waker" /\ kpc' = "set"
    /\ UNCHANGED <<cond, ready, rv, wpc, ppc, saw, destroyed>>

(* Mutant: the lock is given back before the condition variable is signalled. *)
SetReady_unlocks ==
    /\ kpc = "set"
    /\ ready' = TRUE /\ lock' = "free" /\ kpc' = "wake"
    /\ UNCHANGED <<cond, rv, wpc, ppc, saw, destroyed>>

SetReady ==
    /\ kpc = "set"
    /\ ready' = TRUE /\ kpc' = "wake"
    /\ UNCHANGED <<lock, cond, rv, wpc, ppc, saw, destroyed>>

(* Those asleep that the wakeup reaches: everybody, or somebody if any. *)
Woken_nobody == {{}}
Woken ==
    IF Broadcast THEN {cond}
    ELSE IF cond = {} THEN {{}} ELSE {{w} : w \in cond}

Wake ==
    /\ kpc = "wake"
    /\ \E S \in Woken :
          /\ cond' = cond \ S
          /\ wpc' = [w \in Waiters |-> IF w \in S THEN "relock" ELSE wpc[w]]
    /\ kpc' = "unlock"
    /\ UNCHANGED <<lock, ready, rv, ppc, saw, destroyed>>

WakeUnlock ==
    /\ kpc = "unlock"
    /\ lock' = "free" /\ kpc' = "done"
    /\ UNCHANGED <<cond, ready, rv, wpc, ppc, saw, destroyed>>

-----------------------------------------------------------------------------
WaiterStep(w) == WaitLock(w) \/ TestReady(w) \/ CondWait(w) \/ WaitUnlock(w)
WakerStep == SetRv \/ WakeLock \/ SetReady \/ Wake \/ WakeUnlock

Finished == destroyed /\ kpc = "done" /\ UNCHANGED reqctxVars

Next == WakerStep \/ Destroy \/ Finished
        \/ \E w \in Waiters : WaiterStep(w) \/ SpuriousWakeup(w)
        \/ \E p \in Pollers : PollLock(p) \/ PollRead(p)

Spec == Init /\ [][Next]_reqctxVars

(* Every thread that can take a step takes one: a mutex is handed on to     *)
(* every thread that keeps asking for it.  Spurious wakeups are not owed.   *)
Fairness == /\ WF_reqctxVars(WakerStep) /\ SF_reqctxVars(WakeLock)
            /\ \A p \in Pollers : WF_reqctxVars(PollRead(p))
            /\ \A w \in Waiters : /\ WF_reqctxVars(WaiterStep(w))
                                  /\ SF_reqctxVars(WaitLock(w))

FairSpec == Spec /\ Fairness

-----------------------------------------------------------------------------
TypeOK ==
    /\ lock \in Waiters \cup Pollers \cup {"free", "waker"}
    /\ cond \subseteq Waiters
    /\ ready \in BOOLEAN /\ rv \in BOOLEAN /\ destroyed \in BOOLEAN
    /\ wpc \in [Waiters -> {"start", "check", "sleep", "asleep", "relock",
                          "unlock", "done"}]
    /\ ppc \in [Pollers -> {"start", "read", "done"}] /\ saw \subseteq Pollers
    /\ kpc \in {"start", "lock", "set", "wake", "unlock", "done"}

(* bw2_reqctxDestroy never meets bw2_reqctxSignal: the BOSSWAVE thread, in   *)
(* it a moment before, is out of it, nobody sleeps, and no lock is held but  *)
(* by a callback that asks.  So a call without such callbacks may let its    *)
(* stack frame go.  The callbacks of a stream do lock the destroyed mutex;   *)
(* they find ready set, whatever that lock is worth, so that none takes its  *)
(* frame for the response and signals again.                                *)
DestroyedIsQuiet ==
    destroyed => /\ ready /\ kpc = "done" /\ cond = {}
                 /\ lock \notin Waiters \cup {"waker"}

(* A call that is back from bw2_reqctxWait, or was told by                  *)
(* bw2_reqctxSignalled that the request is over, reads an rv that was set.  *)
RvIsSet == /\ \A w \in Waiters : wpc[w] = "done" => rv
           /\ saw # {} => rv

(* Nobody sleeps past the wakeup: once bw2_reqctxSignal or Broadcast is     *)
(* about to give the lock back, no thread is asleep, nor falls asleep       *)
(* later, although the flag was read, and the thread put to sleep, at       *)
(* different moments.  bw2_reqctxSignal only promises it to one waiter,     *)
(* which is all a request of this library has.                              *)
NoLostWakeup ==
    (Broadcast \/ \A v, w \in Waiters : v = w)
        => (kpc \in {"unlock", "done"} => cond = {})

(* A reqctx behaves as a one-shot event, whether a thread is asleep, about  *)
(* to sleep, woken for nothing or late when bw2_reqctxSignal comes.         *)
Event == INSTANCE OneShot
           WITH fired <- ready, returned <- {w \in Waiters : wpc[w] = "done"}
ImplementsOneShot == Event!OneShotSpec
=============================================================================
