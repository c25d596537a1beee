# Verification of bw2c

TLA+ models, model-checking runs and machine-checked proofs for **bw2c**, the C
bindings of BOSSWAVE 2: a client library that keeps one TCP connection to a
local agent, multiplexes requests over it, and delivers results to blocking API
calls and to user functions.

Everything is translated from the C source. `PROJECT.json` maps each definition
to the lines it models, and lists runs, mutants, findings, hazards and theorems.

## 1. Inventory

| Part | State | Operations | Interacts with |
|---|---|---|---|
| Connection (`api.c`, `struct bw2_client`) | `connfd`, `connected`, `curseqno`, three locks | `clientInit`, `connect`, `disconnect`, `isConnected`, `getSeqNo` | starts the BOSSWAVE thread; `connected` is written by three parties |
| API calls and callbacks (`api.c`) | one `bw2_reqctx` per call, on the stack or in a context of the application | ten calls: `setEntity` ... `unsubscribe` | link a reqctx, wait; their callbacks run on the BOSSWAVE thread |
| Request list and thread (`daemon.c`) | `client->reqs`, a cursor into it | `transact`, `daemon` | reads frames, invokes callbacks under `reqslock`, unlinks requests |
| Request context (`daemon.c`, `osutil.c`) | mutex, condition variable, `ready`, `rv` | `reqctxInit`, `Wait`, `Signalled`, `Signal`, `Broadcast`, `Destroy` | between a call and the BOSSWAVE thread |
| Frame reader (`frame.c`, `utils.c`) | position in the stream, frame heap, three lists | `readFrame` and its helpers, `frameFreeResources` | socket below, BOSSWAVE thread above |
| Frame writer, request macros (`frame.c`, `utils.c`, `api.c`) | a list of headers, on the stack and in structures of the application, and lists of objects | `BW2_REQUEST_ADD_*`, `KVInit`, `appendKV`, `frameLength`, `writeFrame`, `write_full_array` | socket; `outlock` keeps the frames of several threads apart |
| Pure helpers (`utils.c`, `objects.c`) | none | dot forms, time formats, setters | |

What is hard: callbacks run on another thread than the call they belong to, and
the memory they work on belongs to that call or to the application; the
connection can be closed by three parties; a frame arrives in arbitrary pieces
and may stop anywhere; a frame goes out in many pieces, from lists that partly
belong to the application and are used again; errors in the middle of `transact`, `connect` and
`readFrame` leave things half done.

What makes each part correct:

* connection: `connected` means an open descriptor and a thread that reads it;
* calls: each returns, with its own answer, and 0 only when the agent said okay;
  user functions get their own results, in order, and nothing after the last;
* request list: it never links memory that is gone, and the thread never uses any;
* request context: a one-shot event; whoever waited for it may destroy it without
  meeting the thread that signalled;
* reader: frames come out as they went in, stores stay inside their blocks,
  nothing is leaked but what an error leaves of one frame, a well-formed stream
  is read to its end;
* writer: the agent gets whole frames, one after the other, with exactly the
  headers and objects that were asked for and the length they have; headers of
  calls that have returned are not followed; `outlock` is always released.

## 2. Modules

| Module | Models |
|---|---|
| `Client` | connection, API calls, callbacks, request list and BOSSWAVE thread, with the agent and the application as environment |
| `MCClient` | the assignments of API functions to calls used by the runs |
| `ClientProofs` | type correctness and the connection invariants, in every environment |
| `ClientMemoryProofs` | memory safety and "nothing after final", on a connection that stays up |
| `ClientOrderProofs` | answers and results reach their own request, in order, in every environment |
| `ClientRpcProofs` | every call returns its own answer; the refinement of `Rpc`, on a connection that stays up |
| `OneShot` | what a request context promises: an event that happens once |
| `ReqCtx` | the request context at the grain of lock and condition variable operations |
| `MCReqCtx`, `ReqCtxProofs` | its model values; its theorems, the refinement of `OneShot` among them |
| `Rpc` | what calls, thread and list promise together: a call returns its own response, results come in order |
| `OobFormat` | the layout of frames on the wire, shared by reader and writer |
| `FrameReader` | `bw2_readFrame`, the frame heap, the hello frame, the start of the thread and the release of frames |
| `MCFrameReader` | the streams and settings of the runs |
| `FrameReaderProofs` | the heap and malloc theorems; what an agent sent is what is handed on |
| `FrameWriter` | the request macros, the lists of a frame, `bw2_writeFrame` and the sending half of `bw2_transact` |
| `MCFrameWriter` | the pairs of API calls of the runs |
| `FormatProofs` | lemmas about `OobFormat`: concatenations, decimal digits, bytes of an encoding, where frames and objects begin in a stream |
| `FrameWriterProofs` | the lists of headers stay in their memory; the wire carries the frames that were asked for |

### Client

A call is one invocation of one API function. All ten functions have one life
cycle (`idle`, `enqueue`, `write`, `wait` or `failed`, `returned`: `GetSeqNo`,
`Enqueue`, `Write`, `Return`, `GiveUp`), and the records `setEntity` ...
`unsubscribe` hold what distinguishes them: whether the reqctx is on the stack,
what follows a failed `bw2_transact`, whether the caller's memory is filled,
which context the callback gets. `OneShotCallback`, `StreamResponse` and
`StreamDeliver` are the callbacks. `client->reqs` is the sequence `reqs`, the
cursor of `bw2_daemon` the index `pos`; `freed` is the set of reqctxs whose
memory is gone. After an access to such memory, or to a NULL context, the model
stops (`Undefined`).

`bw2_daemon` is cut where other threads can interleave: reading, taking
`reqslock`, closing, each round of the drain loop, each element of the scan, the
callback, and the unlinking after it. Between the callback and the unlinking a
call that was signalled can return; this is where a wrong order would bite.
Critical sections under one lock that touch only what it guards are one step.
`EnterRead`/`ReadFail` keep the difference between a `recv` that is entered on a
closed descriptor and one that was blocked when it was closed. A read of
`reqctx.rv` that nothing has set gives 0 or not 0 (`ReadRv`).

The blocking of a call is the flag `ready`: that mutex, condition variable and
flag amount to this is what `ReqCtx` shows. A frame arrives whole: that pieces
make no difference is what `FrameReader` shows.

Environment (`Env`): failing connects, end of stream while connected or during
`bw2_connect`, send errors of the two kinds `bw2_transact` tells apart,
disconnects, an application that frees its context as early as the README of
the library allows (`freeEarly`), and one that gives up the context of a call
that returned an error (`freeFailed`). The agent answers a request once and may stream results.

`Rpc` is the abstract specification: no threads, no list, no sequence numbers.
`ImplementsRpc` maps `asked` to the calls that have begun, `reply` to the
agent's answers, `status` to what a returned call returned, `got` and `closed`
to what the user functions have received.

### ReqCtx and OneShot

One step per `mutexLock`, `condWait`, assignment, `condSignal`, `mutexUnlock`.
Waiting threads may wake spuriously. `Destroy` is the call's `bw2_reqctxDestroy`,
at any moment once `bw2_reqctxWait` is back. It looks at nobody else: the
callbacks of a stream ask (`PollLock`, `PollRead`) before, during and after it.
In the code `bw2_subscribe`, `bw2_query`, `bw2_list` and `bw2_buildChain` destroy
the lock right after the wait, and the callback of each later frame locks it
again (`api.c:438`, `546`, `779`). What that does is undefined; in the model the
lock works as before or `bw2_mutexLock` fails and the flag is read without it.
`DestroyedIsQuiet` therefore does not say that a destroyed lock is left alone. It
says that `bw2_reqctxSignal` and all waiters are through, which is all that a
reqctx on the stack of a call needs, and that the callbacks still to come find
`ready` set. In the library the asking callbacks and the waker run one after the
other on the BOSSWAVE thread; the model has them at any time. A call whose
`bw2_transact` failed destroys its reqctx without a wait; that is in `Client`.

### FrameReader

The stream is a sequence of symbols: the 27 byte header and the 3 byte tags are
one symbol each (reading them has no intermediate state that survives), all
other bytes one each, labelled with the object they belong to. `recv` returns
any number of value bytes up to what was asked for. A token is followed by its
length, since the length of the text is what decides between the paths of
`_bw2_frame_read_token`; what it says (a number, the fields of a dot form) is in
the object, and `ParseNumber` does with it what `strtoull`, the casts and
`bw2_ponum_from_dot_form` do. Sizes are computed modulo `SizeMax`, as in
`size_t`. Writes through NULL lead to `crash`.

The first frame is read by `bw2_connect` (phase `hello`): `Hello` checks it,
`StartDaemon` places the arguments of the thread in the frame heap or in malloc'd
memory, `Trampoline` takes them over. From then on (phase `daemon`) `HandOn` and
`NotConnected` are what `bw2_daemon` does with a frame. A setting says whether
there is a frame heap and how large it is, whether malloc and the creation of
the thread may fail, and whether the client may be disconnected meanwhile.

### FrameWriter

`Headers(c)` is the list of headers an API function adds: one operator per
macro, in the order of the source. A header is a node of memory, in the stack
frame of the call or in a `bw2_vkHash`/`bw2_dotHash` of the application; nodes
start out pointing anywhere (`Wild`) and keep their content after the call.
`AddHeader` and `AppendKV` are `bw2_KVInit` and `bw2_appendKV` with its loop to the
end of the list; `FrameLength` is one round of `bw2_frameLength`; `Send` and
`ArrayDone` are `bw2_write_full_array` and the order of the arrays in
`bw2_writeFrame`; `SendFails` is what `bw2_transact` makes of an error. A call goes
on to wait as `sent` when its frame is out, and as `unsent` when an unlisted `errno`
was passed over: `bw2_transact` returns 0 in both cases. `Answered` is the return
from that wait, for an `unsent` call only at the end of the connection. `params` are
the arguments of the calls; the properties compare `wire` with the frames that
`OobFormat` says these arguments should become. The application gives a revoker
or DOT structure to one call at a time (`Start`): with less, two calls write the
same header, which is a listed hazard.

## 3. Runs

Passing:

| Run | Checks |
|---|---|
| `client_normal` | `TypeOK`, `ReturnsOwnAnswer`, `ResultsInOrder`, `FinalIsLast`, `NoDanglingRequest`, `NoUseAfterFree`, `EveryCallReturns`, `ImplementsRpc` (with liveness): a one-shot call and a subscription, two sequence numbers so that they wrap, two results, all four kinds of response |
| `client_faults` | `ConnectedFdOpen`, `LostMeansDisconnected`, `WaitedForOkay` under every fault of `Env` at once, for three calls that treat a failed `bw2_transact` in the three ways there are |
| `reqctx_signal` | `DestroyedIsQuiet`, `RvIsSet`, `NoLostWakeup`, `ImplementsOneShot` (with liveness) |
| `reader` | `TypeOK`, `BlocksApart`, `WritesInBlock`, `DargsInHeap`, `DeliveredAsSent`, `FailsAtEnd`, `FreedBetweenFrames`, `LeaksOneFrame`, `EveryFrameDelivered` (liveness) on good, malformed, oversized and truncated streams, with malloc and with two frame heaps |
| `writer` | `TypeOK`, `WireIsFrames`, `SentIsWritten`, `OnlyLiveHeaders`, `OutlockHandedOn` (liveness) for two calls at a time, among them every API function, with send errors and disconnects |

Violations, each a disagreement between code and documentation (quoted in
`PROJECT.json`, `findings`):

| Run | What it shows |
|---|---|
| `client_drainFinal` | the loop over pending requests at the end of the connection never advances: one user function is called for ever |
| `client_uninit` | seven calls return an unset `reqctx.rv` when the request could not be sent |
| `client_connectRace` | `connected` is set after the BOSSWAVE thread may have ended |
| `client_freeEarly` | freeing a context on `final`, as documented, races with the call |
| `client_disconnect` | after `bw2_disconnect` the thread stays in a `recv` that nothing wakes |
| `reader_heapFull` | a value that does not fit the heap leads to a write through NULL |
| `writer_shortSend` | after a short `send` the beginning of the array is sent again |

The models contain further behaviour of this kind, which the same properties
show when a configuration asks for it: `EveryCallReturns` fails with `eof` and
two requests (the same loop), with a `query` and `disconnect` (`bw2_query`
waits although `bw2_transact` failed) and with `sendError` (an unlisted `errno`
of `send` is taken for success); `NoDanglingRequest` fails with `sendTimeout` (a
failed write leaves the reqctx of a finished call in the list); `NoUseAfterFree`
fails with `freeFailed` (the callback reads `rctx->rv` after the signal); `NoCrash` fails
with a routing object number of the maximum length. The second frame of
`bw2_buildChain` is delivered with a NULL context (`DeadContext`), streaming
calls destroy the lock that their later callbacks take, and a connection that
ends inside a frame, or a `bw2_connect` that rejects its first frame, leaks the
objects read so far (`LeaksOneFrame` bounds the leak; 0 would be violated).

Each property of a passing run has a mutant of a mapped definition that breaks
it (`NextSeqNo_unmasked`, `Matches_any`, ...); the mutants stand next to the
definitions they change.

### Bounds

Two or three calls: a request is first, last or in between in the list (the
theorems hold for any number). `SeqSpace` is 2 to 4 instead of 2^31, so that
the counter wraps, and never smaller than the number of calls: in the code, too,
a number comes back only after 2^31 calls (a subscription that lives that long is
a listed hazard). `MaxResults` is at most 2: the response, a result and a last
result differ, further results repeat. `client_faults` has okay as the only
response, since `client_normal` has the others and the faults do not depend on it.

In `FrameReader`, structures of 2 bytes, a `size_t` of 5 bits, octets of 2 bits and a
heap of 14 bytes let heap exhaustion, overflow and numbers out of range happen
with short streams; streams have up to four frames and are cut after every
symbol. In `FrameWriter`, keys have 1 or 2 characters, values 0 to 10 bytes and
numbers one digit or two, so that the digits of a length change; the 22 pairs of
calls combine each API function, with all and with none of its optional
parameters, with a call that uses the same structures in the opposite order or a
plain one; two sequence numbers make the counter wrap.

### Fairness

`Client`: weak fairness for `bw2_connect`, each call, the BOSSWAVE thread and
the agent's answer to a request it received. Each is a thread that runs when it
can; `reqslock` is released and retaken with a blocking read in between.
Nothing forces the application to start a call, nor the agent to send results,
nor any fault. `ReqCtx`: weak fairness of the threads, and strong fairness of
taking the mutex, since a thread asking for it repeatedly is served; spurious
wakeups are not forced. `FrameReader`: weak fairness of the thread; the stream
ends, so `recv` always returns. `FrameWriter`: weak fairness of what a call does
from its first header until `bw2_transact` returns (`TransactStep`), which holds
one assumption about the outside: `send` returns. Nothing forces a call to start
or a request to be answered: a call whose request never went out, or whose
connection was closed, may stay in `bw2_reqctxWait` for ever, and
`OutlockHandedOn` is about `outlock` only. `outlock` is asked for once per call,
so weak fairness suffices.

## 4. Proofs

* `ClientProofs` (any calls, any environment): `TypeCorrect`,
  `ConnectedDescriptorIsOpen`, `LostIsTrue`. The inductive invariant `ConnInv`
  adds that before `bw2_connect` is over nobody has closed anything or been told
  of a loss (`BeforeUp`), and that whoever holds or is about to read
  `CONNECTION_LOST` does so on a disconnected client (`LostNews`).
* `ClientMemoryProofs` (any number of calls, a connection that stays up:
  assumption `Reliable`, which excludes the faults whose runs are violations, and
  the two ways in which an application may free its context before its last
  result and its call are over, `freeEarly` and `freeFailed`):
  `ListIsValid`, `MemorySafety`, `NothingAfterFinal`. `MemInv` says that a call
  is linked at most once and only between its `Enqueue` and its unlinking
  (`LinkedOnce`), that a call which was answered for good but is still linked
  is the one under the cursor (`LeavingAtCursor`), and that memory is given up
  only by calls that are through (`FreedWhenDone`).
* `ClientOrderProofs` (any environment; hypothesis `NumbersSuffice`: no more calls
  than sequence numbers, so none is used twice): `ResultsAreInOrder`,
  `WaitIsForOwnOkay`. `OrderInv` adds to `ConnInv` that the calls that have
  begun have distinct numbers (`Numbered`), that nothing is sent for or given to a
  request before it is linked (`Phases`), that the frames under way continue
  what the user functions already have, without repetition (`FrameOrder`) or gap
  (`NoGap`), that a set `rv` is the answer to that call or the end of the
  connection (`RvRight`), and that what stays linked after its answer is an
  accepted stream (`AtUnlink`, `StreamsLive`). Without the hypothesis a frame may go
  to another call with the same number, the hazard listed for a wrap.
* `ClientRpcProofs` (hypotheses `NumbersSuffice` and `AlwaysUp`: `Reliable`, and
  `bw2_connect` succeeds): `EveryCallGetsItsAnswer` and `RefinesRpc`. `RpcInv` joins
  `OrderInv` and `MemInv` with `ReturnRight`, what a returned call has returned; the
  refinement goes through the actions one by one under the mapping of
  `ImplementsRpc` and shows each to be a step of `Rpc` or a stutter.
* `ReqCtxProofs` (any number of threads): `DestroyIsSafe`, `WaitSeesRv`,
  `WakeupIsNotLost` and `RefinesOneShot`, from mutual exclusion (`LockHeld`), the
  order of the waker's steps (`WakerOrder`) and the fact that a thread that saw
  `ready` saw it after the waker had released the lock, while one that saw it
  unset has kept the lock until it sleeps (`SawReady`). `LockHeld` excludes the
  callbacks from each other only until the lock is destroyed; by then the waker
  and the waiters are through (`DestroyedLast`, `SawReady`).
* `FrameReaderProofs` (any stream, heap size and width of `size_t`):
  `ReaderTypeCorrect`, `HeapBlocksApart`, `ValueFitsItsBlock`, `FramesAreFreed`,
  `LeakIsBounded`, `ThreadArgumentsFit`.
  `WrapDetected` is the arithmetic behind `hdrlen >= vallen`; `BelowUsed` keeps
  the blocks in order below `heapused`; `LiveCount` balances malloc and free. That
  the thread's arguments fit follows from the version header that `Hello` has
  found: it was stored in the same heap and is at least as large.
* `FrameReaderProofs` also has the reader's side of the wire:
  `FramesArriveAsSent` (`DeliveredAsSent`) and `GivesUpAtEnd` (`FailsAtEnd`), for a
  stream that is the encoding of some frames, cut off anywhere (`FromAgent`). The
  frames are any (`Readable`): an identifier has a character at least, a length
  is below `SizeMax`, and `num` is what the text means in the octets it has; that
  the Horner form of `bw2_ponum_from_dot_form` computes it is part of the proof.
  `GivesUpAtEnd` also needs what a well-formed stream is (`Conforming`): numbers in
  an accepted form and a hello with a version first; a stream that is not may be
  rejected in the middle. `PlaceInv` says that what is still to come is the
  encoding from `ReadSoFar` on (`Follows`), and that for some `k` and `n` the
  reader has read `k` frames and `n` objects of the next (`Reading`): its position
  is the one its `pc` and `got` tell (`Between`, `InTokens`, `InValue`), the lists
  of the frame are those objects (`FirstStored`), and the frames behind the hello
  have been handed on (`HandedOn`). Neither `wire` nor the lists alone would do: the
  next symbol is known only from the position, and the position only from the
  symbols read. The symbols at each position come from the layout lemmas of
  `FormatProofs` (`StreamLayout`, `FrameLayout`, `ObjectLayout`).
  `NoNullWithMemory`: with malloc that succeeds and objects within the token
  buffers (`StorableFrames`) no such stream leads to a write through NULL (`NoCrash`),
  so the crash of `reader_heapFull` is one of memory that does not suffice.
  `WrittenObjectsReadable` shows that objects as `frame.c` writes them, with a key
  that is not empty and numbers within their octets, meet these hypotheses: the
  layout `FramesReachAgent` ends with is the one the reader's theorems start from.

* `FormatProofs` holds what the theorems about the wire need of `OobFormat`: that
  `FlattenSeq` appends, that `Digits` exists, is unique and grows as the loop of
  `num_digits` expects, that `Bytes` adds up over a concatenation, how the
  encoding of a list grows by one object, and where in a stream each frame, each
  object and each part of an object stands (`Sits`, `FrameAt`, `Place`). These are
  inductions over data; they are done with sets of naturals (`NatSetInduction`),
  since an induction rule with an operator parameter cannot be used.
* `FrameWriterProofs` (any calls, parameters and sizes): `WriterTypeCorrect`,
  `HeadersAreLive`, `FramesReachAgent`, `AcceptedIsWritten`. `ListInv` (theorem
  `ListsAreBuilt`) says that the headers a call adds lie in its own stack frame
  and structures, none twice (`HeaderList`), that the first `k` of them are linked in
  their order and end in NULL (`BuiltTo`), that the loops of `bw2_frameLength` and
  `bw2_writeFrame` stand at some position of the list of what was asked for
  (`AtStage`), with `framelen` the bytes of the objects counted so far or, once
  it is sent, of the whole body, and that no structure is in the lists of two
  calls (`ListsApart`). `WireInv` (`WireIsBuilt`) says that the holder of `outlock` is
  the last in `order`, that the wire is the frames of those before it and the
  part of its own that its position tells (`Progress`), that nothing follows a
  descriptor that was closed (`WireClosed`), and that a call that got 0 has its
  frame on the wire (`Acked`). The theorems about the wire have the hypothesis
  `~ShortSend`: with short sends they are false, as `writer_shortSend` shows.

The assumptions are those of the modules (`ClientAssumption`, `ReqCtxAssumption`,
`FrameAssumption`, `WriterAssumption`), which TLC evaluates in every run.
`WriterAssumption` has no structure twice in one list of revokers or DOTs: each is
linked through its own `next` (`objects.h`).

Only model-checked: liveness (`EveryCallReturns`, `EveryFrameDelivered`,
`OutlockHandedOn`, the fairness half of `ImplementsOneShot` and of `ImplementsRpc`),
which is beyond the prover, and `DeliveredAsSent` for streams that no agent sends
(malformed ones, of which the run `reader` has some).

## 5. Not modelled

String comparison by prefix (`strncmp` with the received length: the agent sends
status and finished in full), the text of time formats, the setters of result
objects (a copy of at most a fixed size), the contents of result structures,
logging, generated payload object names, reconnecting a client, SIGPIPE, error
returns of the OS layer (but for a destroyed mutex), alignment inside the frame heap, a revoker or DOT
structure that two threads use at once.

## 6. Plan

Every invariant of the passing runs is also a theorem, under the hypotheses of
section 4. What a next step would add lies in the model: two threads that share
a revoker or DOT structure, a second connection of one client, and the value
accessors that compare by prefix.
