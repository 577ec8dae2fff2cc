# Verification of vllm-riva-frontend

A TLA+ development of the compatibility front end in `src/src/vllm_riva_frontend`:
what it promises about the engine lease of a session, about admission, about its three
client surfaces and about shutdown, checked with TLC on small instances and proved with
TLAPS for every value of the constants wherever that is a matter of safety.

## 1. The system

The package is a plugin inside a host process. It accepts speech sessions in three
dialects (Riva gRPC, NIM realtime WebSocket, NIM HTTP), turns their audio into
16 kHz samples and drives exactly one *engine lease* per session through one object,
`DirectLeaseOwner`. Everything runs in one asyncio event loop: tasks interleave at
`await` only, and a task can be cancelled at any `await`.

| Component | State it keeps | Operations | What makes it correct |
|---|---|---|---|
| `DirectLeaseOwner` (`lease.py`) | `_lock`, `_open_started`, `_lease`, `_terminal`, `_tail`, `_terminal_error`, background task of a late open | `open`, `feed`, `update_locale`, `complete`, `cancel` | each engine call made once and in contract order, calls never overlap silently, an abandoned lease is closed or reported, a transcript means finished and released |
| `LoadShedGate`, `LoadShedRegistration` (`admission.py`) | `_closed`, `_active`, `_lock`; `_released` | `register`, `release`, `close` | exact slot count, never above the cap, nothing admitted after close |
| `CompatibilityOwnerRegistry`, `OwnerToken` (`lifecycle.py`) | `_owners`, `_lock`; `_released` | `register`, `release`, `drain` | tracks exactly the running owners; drain misses nobody |
| `PluginLifetime` (`lifecycle.py`) | `ready`, `live`, `_quiesced`, `_cleanup_faults`, `_failure`, health service, listener | `__aenter__`, `mark_serving`, `_record_cleanup_fault`, `quiesce_and_drain` | faults are latched and withdraw readiness, shutdown ends, a clean verdict means nothing is left |
| WebSocket adapter (`nim_ws.py`) | configured, terminal, frontend, deadlines, last hypothesis, registrations | `run`, `_handle`, `_update`, `_append`, `_done`, `_fail`, `_abort` | one completion, last; owner settled before its registrations; idle deadline moved by accepted audio only |
| gRPC servicer (`grpc.py`) | per call: registrations, owner, frontend, header, credit, deadlines, status | `StreamingRecognize`, `Recognize` | the same order of settlement; one final result, last; exact credit; no result for a truncated file |
| HTTP endpoint (`nim_http.py`) | per request: parser, registrations, owner, credit, deadlines | `handle`, `parse_transcription_multipart` | the body is bounded however it is cut, and read as sent; settled and released before the answer |
| audio frontend (`frontend.py`) | byte tail, resampler state | `push`, `flush`, `sniff_riff` | what is found, decoded and produced does not depend on how the input was cut |
| configuration, provenance, errors, operational endpoints | constants; none | validation, projection | relations between limits; one error code, one projection |

How they interact. An adapter takes host admission (`HostAdmission.try_acquire`),
registers at the gate, which registers the task in the registry under the gate's
lock, creates a `DirectLeaseOwner`, opens, feeds, and completes or cancels it, then
releases the registration and last the host admission. The owner reports cleanup
faults to `PluginLifetime._record_cleanup_fault`, which withdraws readiness and
health. `quiesce_and_drain` withdraws health, closes the gate, waits for the
registry's tasks, cancels what is left once, and stops the gRPC server in a `finally`.

Hard behaviours: cancellation at every await; engine calls that go on under
`asyncio.shield` after their waiter left; `wait_for` timers racing results; several
deadlines on one await, told apart only by which comes first; the background cleanup of
a late open, which runs outside the owner's lock; repeated and concurrent
`complete`/`cancel`; release called up to three times; credits the engine may give
twice, late or not at all; a body, a header or a sample cut anywhere; shutdown racing
admission, faults and `mark_serving`. `PROJECT.json` lists each as a hazard at its
line, with the properties that cover it.

## 2. Modules

| Module | Models | Role |
|---|---|---|
| `LeaseContract` | the order in which `SessionLease`'s calls may be made | abstract specification |
| `OwnerOutcome` | what the plugin sees of an owner: how far its lease has come, and which turns are reported | abstract specification |
| `DirectLeaseOwner` | `lease.py`, every method, await by await | implements `LeaseContract` and `OwnerOutcome` |
| `OwnerInvariant` | the inductive invariant of `DirectLeaseOwner` | shared by the proofs |
| `CleanupBudget` | the time of `lease.py`'s abnormal cleanup, on a discrete clock | shows what the documentation does not say |
| `AdmissionContract` | seats: at most `MaxSessions`, one per session, none after closing | abstract specification |
| `LoadShedGate` | `admission.py` with the registry it feeds | implements `AdmissionContract`, reused by `PluginLifetime` |
| `PluginLifetime` | `lifecycle.py` from a successful entry to the end of the drain, composed with the gate and with sessions whose leases move as `OwnerOutcome` says | composition, implements `LoadShedGate` |
| `SessionContract` | what a session of any surface promises the host: a lease only while admitted, settled before admission is given up, served from a settled lease | abstract specification |
| `RivaRpc` | one call of `grpc.py`, streaming or unary | implements `SessionContract` |
| `Multipart` | the body of an HTTP request, message by message and callback by callback | part of `NimHttp` |
| `NimHttp` | one request of `nim_http.py` | implements `SessionContract` |
| `NimRealtime` | one session of `nim_ws.py`: the dispatch and `_Connection` against a client, an engine and a clock | implements `SessionContract` |
| `AudioFrontend` | one upload through `sniff_riff`, the intake of its pieces and `StreamingAudioFrontend` | |
| `MC…` | instances and symmetry for TLC | |
| `…Proofs` | theorems | |

The three adapters see the lease owner from outside, as `DirectLeaseOwner` shows itself
to a caller: `open` and `complete` settle it themselves when they fail or are given up,
everything else leaves it live until `cancel()`, which settles it (`MethodsSettle`, proved)
and returns (`CleanupReturns` of the `Owner` run). They see the gate as one step (its awaits are in `LoadShedGate`), and the
frontend as a choice of how many samples it makes, which `AudioFrontend` counts.

### DirectLeaseOwner

A step takes one task from one `await` to the next. `at[a]` is the await an actor
stands at, `op[a]` the method it runs, `got[a]` how its last call ended; the other
variables are the attributes of the object (`lock`, `started`, `lease`, `terminal`)
and two ghosts of the outside world: `call[c]`, how far each factory or lease call
came, and `faults`, what was reported to the host. `open`, `abort` and `release` run
under `asyncio.shield` in tasks of their own, so their end (`Settle`) is a step
independent of whoever waits; `flush`, `finish` and `feed` end with their await. The
actor `Late` is the task `_track_late_open` creates; it does not take the lock.
`Interrupt` is a task cancellation delivered at any await of a caller. A `wait_for`
may expire at any moment, also when the operation has just ended: this covers every
relation between the timers and the engine. What a cancellation at an await that
has just finished does differs between Python versions (up to 3.11 `wait_for` may
return the result instead); both are covered, because the interruption and the
normal return are both enabled then.

### LoadShedGate

`seat[s]` is how far a session's registration is. `register` awaits the `owner_register`
port under the gate's lock. The registry's own port never suspends there (its lock is
never held across an await), so in the plugin the whole method is one step; the
constant `Suspending` adds the general case, in which the lock is really contended.
`leaked` marks sessions interrupted between `_released = True` and `_active -= 1`, which
only a port that suspends makes possible: `PortInv` proves that the plugin leaks none.
`SlotsCounted` counts a leaked session as the holder of its slot.

### PluginLifetime

EXTENDS the gate. Each session's lease is one of the outcomes of `OwnerOutcome` (`late` and
`lateFailing`: the background task has it; `failing`: abort was reported and release is
being tried; `stuck`: cleanup is over and failed; `lost`: the second interruption of
`open`). A move that is reported latches a fault. Both directions are proved: the leases
make no other moves (`LeasesMoveAsOwnersDo`), and every one of them (`OwnersMayMove`). The
adapters are here only as the order they share. A session slot serves one task
after another, which lets registrations recur without an unbounded set. `admitted` stands
for the host's admission, which is external: the host admits a session or not, as it likes.
`mark_serving` (once) and `quiesce_and_drain` are called by the host and nothing in the
sources orders them: each goes on between the awaits of the other, and `mark_serving` may
begin when the shutdown has begun or is over. `republished` is history: the services and
the readiness that `mark_serving` set after quiesce had begun.

### RivaRpc

`kind` chooses between `StreamingRecognize` and `Recognize`, whose try blocks, except
and finally clauses are the same operators here (`Fail`, `Quit`, `Leave`, `Outcome`).
`at` is the await. A unary call has its whole input when it registers and then uses the
same `opening`, `feeding`, `tail` and `completing`. The code's nested functions are
operators: `_bounded_feed` is `Submit` with `Credit` as `on_accepted`, `_await_until` and
`_await_stream_activity` are `Await` and `Activity`, and `First` is how they choose the
code of the deadline they report. `outstanding` and `credited` are `outstanding[0]` and
`credit[0]`. A RIFF header is "being collected" (`~bound`, `pending`) and its data a
count of bytes still announced (`remaining`). `left` and `piece` split what one push
makes into handoffs. A yield is an await of the transport: the generator resumes or is
closed there; one yield stands for all hypotheses a feed returned. `gone` is `context.cancelled()`, which does not by itself stop the task.
`context.abort` is grpc.aio's: the first status given stays.

### Multipart and NimHttp

`Multipart` is `parse_transcription_multipart`: `Message` and `BadMessage` are what
`receive()` returns, and each callback of the external parser (`on_part_begin`,
`on_header_field` and `on_header_value`, `on_header_end`, `on_headers_finished`,
`on_part_data`, `on_part_end`, `on_end`) is an action. The parser eats one message to its
end without an await, so a header or a part's data may be split between messages at any
byte. Bytes are counted; the grammar is reduced to one boundary byte before each part and
at the end, because it is library code. `headers` is the list of names accumulated in
`current_header_name`, which the code empties only when a part begins. `sent` is history:
the bytes that came under each name.

`NimHttp` EXTENDS it with the task: admission, registration, the receive loop, `_validate`
(a choice of refusals that the fields allow), the decoded file as two numbers of samples
(`left`, `tail`), hand-off, completion and both deadlines. `request_timeout` is a
cancellation by the code's own timer and bounds every await; the finally clauses give back
what is held before the answer is sent.

### NimRealtime

One ASGI task, so the control state is one await (`at`), the frames still to be sent
(`out`) and where the task goes then (`next`). `_fail` and `_abort` are operators that
every failing action uses, so the order of settling, releasing and sending is in one
place, as in the code. `ctx` says whether an exception reaches `run`'s handlers.
Deadlines are clocks that stop at their limit; the idle clock is reset by `Credit` only.
`_riff_bytes` is "empty or not", `_riff_remaining` a small number or `NoFile`, hypotheses
"a suffix to show or none". The middleware's decision is the first step: a connection is
turned away, or admitted and accepted. An owner whose `complete()` returned a transcript is
`completed`, any other settled one `settled`. Owner token, slot and host admission are
given back in one step, so `SessionContract` orders them after the owner but not among
themselves. `foreign` is history: a `TimeoutError` that is not one of the
adapter's deadlines. A peer that is gone stays gone.

### AudioFrontend

An upload is a record: chunk ids, sizes, formats and offsets (`IsLayout`), known to the
module's reader and not to the code, which sees the first `received` bytes. `Sniff(n)` is
`sniff_riff` on a prefix, `Decider` the chunk that ends its walk. The intake is what
`grpc.py` and `nim_ws.py` both do: keep the prefix, sniff it again with every piece, push
the first data bytes when it resolves and cut later pieces at the announced size. The
frontend is `_byte_tail` as a count, `_initial_skip`, and the samples emitted; `decoded` is
history, the offsets of the bytes that were decoded.

## 3. Runs

| Run | Question | Bounds |
|---|---|---|
| `Owner` | every order of two tasks on one owner; it implements `LeaseContract` and `OwnerOutcome`, closing returns, a late lease is aborted | 2 tasks, 3 cancellations, the background task; 72,906 states |
| `Owner_lost` | a docstring the code does not keep | 2 cancellations suffice |
| `Gate_safety` | exact counting; it implements `AdmissionContract` | 4 sessions, 2 slots, a suspending port |
| `Lifetime` | what a shutdown leaves behind and still shows, and that it ends | 2 sessions, 2 slots; once `mark_serving` sets something after quiesce, one session at work (`OneBusyOnceRepublished`); 583,910 states |
| `Lifetime_readiness` | a fault withdraws readiness (it does not) | |
| `Budget` | the documented time of a cleanup (it takes longer) | a timeout of 5 ticks |
| `Riva` | every interleaving of one gRPC call with client, engine, clocks, cancellation; it implements `SessionContract`, silent, finishing and bounded calls end | limits of 1 to 3 ticks, with and without a maximal duration and a gRPC deadline, handoffs of 2 samples, 3 bytes; 290,134 states |
| `Http` | the same for one HTTP request and its body | envelope 9, 2 parts, 2 header bytes, files of 2, texts of 1, messages of up to 3 bytes, a declared length that fits, one that does not and none; 3 ticks; 182,928 states |
| `Http_headers` | a refusal the code means to make and does not | |
| `Realtime` | every interleaving of one session with client, engine, clocks, lost peer, shutdown; it implements `SessionContract`, sessions end | 2 locales, limits of 1 to 3 ticks, with and without a maximal duration, 2 bytes; 384,520 states |
| `Realtime_header` | a line of the documentation the code does not keep | |
| `Frontend` | every cut of an upload into pieces, with a declared and a deferred format | 13 layouts at their real sizes, a header limit of 60 bytes; 9,525 states |

Why the bounds are enough. The owner's lock admits one caller at a time, so two tasks and
the background task already give every pair of methods every order; the deepest chain of
interruptions the code distinguishes is two (open, then settling), a third one reaches
the next await. Two sessions give a holder and a late arrival around close, snapshot and
drain. Where `mark_serving` overlaps the shutdown one session at work is enough: sessions and
`mark_serving` meet in nothing but a fault, which one session can cause at any moment, and
`OnlyMarkServingRepublishes` is proved without this bound. It keeps the liveness checks
within reach. The cap itself is contended in `Gate_safety`, with four sessions on two slots. In
the adapters a clock matters only as reached or not, and limits that differ give both
orders of any two deadlines. A handoff of 2 with 3 samples needs a second piece, 3 bytes
give a push below, at and beyond the end of a file, and two locales a change and its
reversal. Each limit of `Multipart` is small enough to be met exactly and to be passed by
one byte, within one message and across two, and 9 bytes are room for two whole parts with
their boundaries. The layouts of `Frontend` have odd and even chunks, a format before, after and
missing from the data, two formats, a second data chunk, an empty one, and headers below
and above the limit; with 20 samples of delay the sizes cannot be smaller. The theorems of
section 4 remove the bounds for what they prove.

Deadlock is checked except where the program may stop: after a finished shutdown with no
session left (`PluginLifetime`), after a finished cleanup (`CleanupBudget`), after a
session, a call or a request (`NimRealtime`, `RivaRpc`, `NimHttp`), and when an upload is
flushed (`AudioFrontend`).

Fairness. The event loop resumes a task whose await ended and fires timers, so steps
bounded by a timer are weakly fair: `Bounded`, `LateOpen` and `Closing(Late)` in
`DirectLeaseOwner`, `Bounded` in `PluginLifetime`. Neither the engine (`Settle`) nor peers
nor the host are fair. A shutdown that began is carried on (`WF(quiesced /\ Shutdown)`), because every await
in it is bounded by a timer or by work of the loop itself. In the adapters time passes
(`Tick`), and the steps of the loop, its timers and code without an await are fair (`Own`,
and `Start` for the dispatch and the gate's lock); client, engine and transport are not. A send of
`NimRealtime` returns or raises: the transport is outside the sources, and the adapter has
no timer on it. In `RivaRpc` the transport may keep a yield waiting for ever, and the
liveness properties say so (`<>[](at \in Writes)`).

### What the violations say

* `Owner_lost`: a second interruption of a cancelled `open` loses the lease, against
  `lease.py:188`. `SilentMeansClean` is what does hold.
* `Lifetime_readiness`: `mark_serving` overrides a latched failure, against
  `lifecycle.py:492`.
* `Budget`: `abort` and `release` have a `wait_for` of `session_cleanup_timeout` each
  (`lease.py:124`), so that a cleanup of nearly two of them goes unreported, against
  `docs/configuration.md:69`, where one is for both. With an exact clock no slow loop is to
  blame. A cancelled `open` waits for a third before (`lease.py:204`), and the drain keeps
  one in reserve for the owners it cancels (`lifecycle.py:143`): `DrainFails` covers those
  it then finds running.
* `Realtime_header`: a session that ends inside a RIFF header is completed, against
  `docs/surfaces.md:148`; `CompletedIsWhole` is what does hold, and `FinalIsWhole` shows
  that the gRPC adapter does refuse it.
* `Http_headers`: the name of a part's header is never emptied before the next one
  (`nim_http.py:409`), so the refusal of a repeated header (`nim_http.py:408`) is never
  reached. `AcceptedAsSent` is not affected.

### Other disagreements, visible in the models

Four more places where the code and its documentation differ have no run of their own;
the property that does hold is worded around each:

* An interruption inside `abort` leads to `release` while `abort` still runs under its
  shield (`lease.py:137` against `:146`): `OverlapReported` allows exactly this overlap.
* A `mark_serving` that overlaps `quiesce_and_drain` makes the plugin ready again and its
  health SERVING; only a later fault withdraws them (`lifecycle.py:657-662` against "Become
  non-ready", `:666`): `QuiesceWithdraws` says that only this does it, and names what is
  shown then. Admission stays closed all the same (`PluginKeepsAdmission`).
* A `TimeoutError` the engine raises is reported as one of the adapter's deadlines
  (`nim_ws.py:1061` against `docs/surfaces.md:134`): the disjunct `foreign` of each
  `TimeoutsAreTrue`.
* An expired gRPC deadline is reported under the code of the adapter's first deadline
  (`grpc.py:287`, `:307`, `:333` against `docs/surfaces.md:137`): the disjunct
  `Expired("rpc")` in `RivaRpc`.

## 4. Proofs

Everything is proved from the named assumptions on the constants (`OwnerAssumption`,
`GateAssumption`, `RivaAssumption`, `MultipartAssumption`,
`HttpAssumption`, `RealtimeAssumption`, `FrontendAssumption`): any number of tasks,
cancellations and sessions, any cap, timeout and limit, files and bodies of any size and
any layout. Every safety property of the passing runs is a theorem, and so is the type
invariant of every module that has one; types are proved rather than run.

* `DirectLeaseOwnerProofs`: `IInv` (module `OwnerInvariant`) is inductive. The safety
  properties are not inductive alone: that a call is made once needs to know where
  every other actor stands (`LockInv`, `SiteInv`), and that the background task is
  alone (`LateInv`) needs the history kept in `call` and `terminal` (`OpenInv`,
  `UndecidedInv`, `NormalInv`, `AbnormalInv`). From it follow the type invariant, the
  safety invariants, the action properties and the refinement of `LeaseContract`. For
  `OwnerOutcome` (`ImplementsOwnerOutcome`) the outcome is first read off the await of
  whoever works on the lease (`OutcomeAtEachAwait`), then each step is one turn: of a
  calling task (`OutcomeOfTask`), of the background task, of the engine or none. It needs
  one more invariant, `FaultInv`: which faults can have been reported at which await.
  `MethodsLeaveItSettled` is what the surfaces assume of a method that came back.
* `LoadShedGateProofs`: the counter is the cardinality of the sessions that hold a
  slot (`GateInv`), by the cardinality lemmas of finite sets; closing is final. Every step
  is one of `AdmissionContract` (`ImplementsAdmission`): a release interrupted between its
  two awaits is a departure whose seat never comes back.
* `PluginLifetimeProofs`: the plugin implements the gate (`PluginImplementsGate`), so the
  gate's theorems hold of it, admission included; then `LifeInv` gives the clean verdict,
  the snapshot and the coverage by host admission. `ServingInv` follows readiness and health
  through the two awaits of each withdrawal and the drain: what is shown from a given step
  of the shutdown on is in the history of `mark_serving` (`OnlyMarkServingRepublishes`).
  Three theorems tie the sessions of the plugin to the other models (below).
* `RivaRpcProofs`: `RpcInv` says at which awaits a lease is open (`Open`), what is held, how
  the try block may have been left (`StatusInv`) and what has come of the file (`FileInv`);
  none of the properties mentions all of it and none is inductive without it. `CreditInv`
  adds that nothing is outstanding outside a handoff, which is what makes every handoff
  fit. `StatusTrue` adds the clocks: a deadline that is first while another one is due is
  due itself (`FirstReached`). From these follow the safety properties, the types and the
  refinement of `SessionContract`.
* `NimHttpProofs`: `HttpInv` for the task, its credit and its clocks; `ParseInv` for the parse,
  where the number of parts begun is the number of fields, and one more inside a part
  (`WholeInv`, by cardinality), and every byte that came under a name is in its field or in
  the part at hand. From these the limits, the accepted body, the types and the refinement
  of `SessionContract`.
* `NimRealtimeProofs`: `SettlementInv` relates the await the task stands at, the handler an
  exception would reach (`ctx`) and what is still held; with the owner each await works for
  (`StageInv`) every step is one of `SessionContract`. `ProtocolInv` adds that the frames
  still to be sent have one of a few shapes (`QueueInv`), what the last frame says of the
  lease and of the file (`WireInv`, `WholeInv`) and which locale is in force where
  (`LocaleInv`): a property of the last frame sent is not inductive without the frames
  that will be sent next.
* `AudioFrontendProofs`: a chunk that ends the sniffer's walk still does when more is seen
  (`DeciderStable`), so a decision is final (`SniffStable`) and names the file's first data
  chunk (`ResolvesFirstData`). `DecodedInv` ties the bytes still announced to those decoded,
  `SamplesInv` the byte kept and the delay left to the samples emitted (`Straddle`,
  `DelayOnce`), for pieces of any length.

How the parts fit. The plugin's model and the adapters' models leave out what happens
inside an owner and inside the gate. The following theorems say that nothing is lost by it:

1. an owner implements `OwnerOutcome`, for any tasks and cancellations;
2. the leases of the plugin make the moves of `OwnerOutcome` and no others, with a fault
   latched when one is reported, and are free to make each of them;
3. the gate implements `AdmissionContract` even with an owner port that suspends, and the
   plugin implements the gate, so the plugin keeps that contract;
4. the three surfaces implement `SessionContract`, on the assumption that an owner whose
   method came back is settled, which `MethodsLeaveItSettled` proves of the owner;
5. each task of the plugin keeps `SessionContract` too (`SessionsAreSurfaces`), from the
   moment it takes its slot until it hands it on.

What remains informal is the other half of 5: that every session of the surfaces is one the
plugin's model lets happen. `PluginLifetime` has their common order of admission,
registration, lease and release, not their code, and does not tell what was served.

Only model-checked: the liveness properties (`CleanupReturns`, `AbandonedIsAborted`,
`ShutdownEnds`, `CancelledOwnersLeave`, `SilentSessionEnds`, `DoneEnds`, `EverySessionEnds`,
`SilentStreamEnds`, `FinalizationEnds`, `BoundedRpcEnds`, `RequestEnds`; the prover has
neither fairness reasoning of this kind nor ENABLED) and the five violations, which TLC finds.

## 5. Not modelled

* `__aenter__`'s validation of versions, context and routes, and the binding of the
  listener: one pass before any concurrency. `wait_ready` and `wait_failed` only wait for
  what `PluginLifetime` sets.
* The numbers the filters and the G.711 tables compute: floating-point signal processing is
  out of TLC's reach; `AudioFrontend` counts samples instead.
* The texts of headers, multipart dispositions, session fields and hypotheses, and the
  validation of single configuration fields: each is a choice among its outcomes.
* `config.py`, `deployment.py`, `errors.py`, `operational.py`, `__init__.py` and `version.py`: constants,
  a filter, a table, three read-only answers and a record. They keep no state; limits are
  CONSTANTS of the modules they bound.
* Logging and event payloads.

What the models take for granted: an engine call that is cancelled stops; grpc.aio keeps
the first status of a call; the multipart library calls back in the order of its grammar;
a file's chunks are laid out as `IsLayout` says. The plugin builds its gRPC and HTTP
endpoints without an `owner_register` of their own (`lifecycle.py:584-617`), so the
await of an owner token in the adapters is immediate, and releasing a registration does
not suspend.

## 6. Plan

Done, in this order: the lease owner and its contract; the gate, the registry and the
shutdown; the WebSocket adapter; the gRPC and HTTP adapters; the audio frontend; proofs of
every safety property and type invariant; the abstract specifications that tie the modules
together (`OwnerOutcome`, `AdmissionContract`, `SessionContract` for all three surfaces).

What could still be added: a startup model of `__aenter__` with its failures half way; the
surfaces as sessions of the plugin, by a refinement of `PluginLifetime`'s session steps (the
other direction of `SessionsAreSurfaces`); the
relation of configured limits to each other as an assumption shared by the adapters; safety
lemmas behind the liveness properties, such as which steps can stop a clock.
