# Model Router: a verification project

TLA+ models of this repository, the TLC configurations that check them on small
instances, and TLAPS proofs of the main results for every value of the constants.
Paths below are relative to the repository. `PROJECT.json` lists the components, the
runs, the hazards with their lines, and for every definition the code it models.

## 1. The system

| Part | Files | State it keeps | Operations |
|---|---|---|---|
| Router lifecycle | `src/router.cpp` | `running`, `shutting_down`, epochs, boot | `start`, `shutdown` |
| Catalog mutations | `src/router.cpp`, `src/catalog.cpp` | models, backends with their evidence, fences, watermarks, policy, budget, SLO, trust, cost, indexes | `register_*`, `unregister_backend`, `retire_model`, `fence_backend_boot`, `publish_capabilities`, `update_*`, `set_*` |
| Routing pass | `src/router_route.cpp` | retained decisions and their eviction order | `route` |
| Ranking | `src/ranking.cpp`, `src/candidate.cpp` | the last winner of a tenant | factors, score, order |
| Revalidation, dispatch, completion | `src/router_dispatch.cpp` | decision status, dispatch index | `revalidate`, `dispatch`, `record_completion` |
| Reroute and fallback | `src/router_dispatch.cpp` | the same | `reroute`, `commit_single_candidate` |
| Authority | `src/authority.cpp` | none | `required_mask`, `compare_authority` |
| Persistence and recovery | `src/persistence.cpp`, `src/router_persist.cpp` | the state file and its temporary file | `save`, `load`, export, import, encode, decode |
| Wire protocol | `src/distributed/protocol.cpp` | none | frames and 27 message types, written and read |
| Transport | `src/distributed/transport.cpp` | queues, socket, session thread of a connection | `send`, `receive`, `close`, the session loop |
| Reference coordinator | `reference/coordinator.cpp` | sessions, backend links, pending results | accept, message handlers, dispatcher, `stop` |
| Reference worker and harness | `reference/backend_worker_main.cpp`, `reference/reference_harness_main.cpp` | one connection each | register, publish, execute; control requests |
| Eligibility, policy, evidence, requests, limits | `src/eligibility.cpp`, `src/policy.cpp`, ... | none | verdicts, validation |
| Inspection, explanations | `src/router_inspect.cpp`, `src/explanation.cpp`, ... | none | `check_invariants`, snapshots, text, JSON |

**How they interact.** Clients and the coordinator's session threads call the router
from any thread. The router has one `shared_mutex`. Short operations take it once.
`route`, `revalidate`, `dispatch`, `reroute` and `start` take it several times and
work on copies in between, because no lock is held across evidence providers,
ranking, persistence or the dispatch handler. Every mutation that changes authority
ends with a pass that marks decisions `STALE` when what they are bound to is no longer
what the catalog holds. Dispatch hands the decision to a `DispatchHandler`. The
reference one runs in the session thread of a control client: it looks up the link of
the target incarnation, sends a frame through the transport to the worker, and waits
until the worker's own session thread brings the result or ends.

**What is hard.** Everything that happens between two locks of one call: a fence, a
restart, a publication, an eviction, a completion, a shutdown. Publications out of
order. Eviction at the history limit while other threads hold ids. Crashes between the
steps of a save and what a restart may revive. Sessions of two incarnations of one
backend that overlap. Waits without a timeout. Partial writes and wake-ups that may be
lost. Hand-written codecs whose two halves only agree by their text. Integer overflow in
a score.

**What makes each part correct.**

- Authority: a decision that reads `CURRENT` is bound to the live incarnation and to the
  newest generation of everything it depends on; a fenced incarnation never returns;
  generations never move back.
- Decisions: what is marked is what was judged; a completion is of something that was
  handed off; a reroute retires a decision only for a newer current one.
- History: order list, route map and bound agree. Indexes equal a scan.
- Lifecycle: nothing of an older epoch is revived.
- Recovery: the file always loads; nothing from it is current; saved fences hold and
  saved identities are not issued again.
- Codecs: what is written is read back, and what was damaged is refused.
- Transport: frames arrive whole, once and in order; `close` returns.
- Coordinator: `handoff` is what the router takes it for; every session that ends fences
  its incarnation; `stop` joins everything and returns.
- Ranking: one order, whatever the discovery order; no gain from missing evidence; no
  overflow; no flapping.

## 2. Modules

| Module | Content |
|---|---|
| `Router` | The canonical state and every action on it, the specification and its properties |
| `MCRouter` | Catalogs, requests and publications of the small instances, symmetry |
| `RouterClaims` | A statement of the code's comments that the code does not give |
| `RouterProofs` | Theorems about the authority of `Router` and their proofs |
| `RouterHistoryProofs` | Theorems about its route history, dispatches and indexes; extends `RouterProofs` |
| `Ranking`, `MCRanking` | Factors, score, order, and the continuity between two routes of a tenant |
| `RankingProofs` | Theorems about `Ranking` and their proofs |
| `LeastNumber` | Induction over numbers and what a recursive function over `0..n` computes, for the three proof modules that need it |
| `Recovery` | Saves, crashes, restarts and loads over a catalog of one backend |
| `RecoveryProofs` | Theorems about `Recovery` and their proofs |
| `Codec` | The byte layer under both codecs: layouts, widths, limits, checksums |
| `Wire` | Frame header and the writer's and the reader's layout of every message |
| `StateImage` | The state file: header, records, validation, canonical order |
| `Codecs` | Encode, carry (intact or damaged), decode, for both, over any limits and inputs |
| `MCCodecs` | The inputs and limits of the small instance: a value of every layout in each variant |
| `CodecsProofs` | Theorems about `Codecs` and their proofs |
| `Transport` | One connection: session loop of either platform, `send`, `receive`, `close` at both ends |
| `TransportProofs` | Theorems about `Transport` and their proofs |
| `DispatchHandler` | Abstract specification of what the router relies on when it calls `handoff` |
| `Coordinator` | The reference coordinator with its workers and control clients, on either platform |
| `MCCoordinator` | The platforms and options the runs of `Coordinator` explore |
| `CoordinatorProofs` | Theorems about `Coordinator`, the refinement among them |

`Coordinator` refines `DispatchHandler`, which is what `dispatch_handoff` of `Router`
leaves open. It uses connections as `Transport` shows them to be: reliable queues that
lose what is in flight when an end closes. `Recovery` stands to `StateImage` as a file to
its bytes: a torn image does not load.

### 2.1 `Router`

`catalog` is the part of `CanonicalState` that authority is compared with: epoch,
model, backends, fences and the policy, budget and SLO snapshots. `watermark`,
`trust`, `index`, `routes`, `route_order` and `dispatch_index` are the containers of
the same names; `routes[d].status = "ABSENT"` is an id that is not in the map.
`next_decision` and `next_dispatch` stand for `IdAllocator`. `call[t]` holds the
local variables of the API call thread `t` is in: `pc` says which lock it takes
next. `handed` counts what the dispatch handler saw. `now` is the clock.

One critical section is one action, with everything it calls:

| Code | Actions |
|---|---|
| `route` | `route` (snapshot, admission), `route_discover` (copies, eligibility, ranking), `route_bind` (second read of the generations), `commit` or `commit_refused` |
| `revalidate` | `revalidate` (lookup), `revalidate_observe`, `revalidate_mark_stale` or `revalidate_authorize` |
| `dispatch` | `dispatch`, `dispatch_revalidate` and the steps of `revalidate`, `dispatch_snapshot`, `dispatch_resolve`, `dispatch_handoff` (external), `dispatch_record` or `dispatch_refused` |
| `reroute` | `reroute`, `reroute_fallback` per stored fallback with `commit`, `reroute_exhausted`, `reroute_route` and the steps of `route`, `reroute_supersede` |
| `start` | `start`, `start_publish` |
| the other operations | one action each |

`publish_capabilities` and the five `update_*` calls of `apply_evidence` are one
action with the evidence kind as a parameter; `set_policy`, `set_budget` and
`set_slo` are `set_snapshot`. A rejected call changes no state, so it is a false
guard or a step that only returns. Where the code reads the clock before it takes
the lock, the action takes any earlier time `t0`.

Data abstraction:

- One model, bound by every backend. A registration fixes backend, provider and
  endpoint generation together, and they are one generation. The registration generation is
  kept apart from it: a backend may register again with the same boot and generation, and
  every decision bound to the earlier registration is then stale. The two epochs always
  advance together and are one.
- Evidence is a generation, a verdict and an expiry. `draining` stands for
  `RETIRED` and `DRAINING` health, which the code treats alike.
- Policy, budget and SLO are a generation and the set of backends they refuse. A
  request names the budget and SLO generation that are current when it is judged.
  Policy expiry and the verdicts of the request's own policy are part of the refusal
  sets.
- Ranking is a free choice among the eligible candidates, so every result holds for
  any ranking.
- Evidence providers are absent (`providers.*` null, except the dispatcher), tenants
  and namespaces match; loading and saving are in `Recovery`.
- `IdAllocator` is one counter per id kind; only distinctness is used.
- `seen`, `via`, `fresh`, `gone` and `handed` record history for the properties. No
  action reads them, except that `via` tells a call which of two commits it is in.

### 2.2 `Ranking`

All 29 factors of `build_factors` in their order, each with the condition under which
it is unknown; `mul_div` with its saturation over integers of a small width;
`candidate_ranks_before`; `std::stable_sort` from any order; and `last_winner_by_tenant`,
which a route and a committed fallback write and the next route reads as its continuity
reference. `fallback` leaves any candidate there: the fallback path does not rank. An
observation is a number or `Unknown`. Every candidate is its own model, provider and
backend. The failure-domain diversity factor is always unknown, because no caller sets its
reference. `ranked` holds what a route would build from the present evidence.

### 2.3 `Recovery`

One backend. The catalog calls are those of `Router`, reduced to what is saved or decides
what a restart makes current. A save is four steps (export under the shared lock, open
of `path.tmp`, write and close, rename), with a failure branch and a crash between any
two. Concurrent saves share the temporary file as on Windows, where `fopen_s` opens it
exclusively: a second open, and a rename of the open file, fail. `boot_process` is a new
process with `load_on_start`; `start`, `load` and `shutdown` act within one. A load replaces
the router's limits by those of the image, which has no field for
`max_backend_incarnations`: from then on the process lives under the default,
`DefaultIncarnations`. `by` and `durable` are history.

### 2.4 `Codec`, `Wire`, `StateImage`, `Codecs`

A layout is the sequence of `put_` or `get_` calls of a codec. Writer and reader have a
layout each, transcribed separately, so a field that is written and read in another order
or width is a difference between two definitions. The byte layer gives every kind its real
width and byte order, and the limits are compared where the code compares them. Layouts
contain layouts (a registration holds a backend, a backend its bindings, a binding its
cost), at most three levels below the first, and each operator of the byte layer has one instance per depth: `bytes_0` to `bytes_2` and
`writer_bytes`, `read_0` to `read_2` and `read`. `read_records` is the loop of `decode`: it
takes one record at a time until the payload ends or one is refused. `canonicalize` sorts as
`std::sort` does, into the order of the keys.

A state carries the ranking weights and all limits, as `export_persistent_state` fills them
in (`router_persist.cpp:21`). `encode` writes neither the weights nor the limits outside the
meta record, and what `decode` returns has the defaults; `Durable` is the part of a state
that an image holds.

CRC-32C and SHA-256 are stand-ins that detect one changed byte. A number is itself up to 31
bits, and `Huge` stands for whatever is larger. `limits` and `Inputs` are constants. The
four stages of `Codecs` take an input, encode it, carry it with at most one fault, and decode
it. The samples of `MCCodecs` are empty, typical, at a limit, over it, or have a bad
enumeration, and give every field a value of its own.

### 2.5 `Transport`

Both ends of a connection, each with its session thread, a caller of `send`, a reader in
`receive` and a caller of `close`. A frame is two chunks, so writes, reads and decodes stop
in the middle of one. `sock` is what the operating system reports: on Windows
edge-triggered events and a binary wake event, on POSIX a level-triggered poll and a blocking
write. The listener is reduced to its connection slot.

### 2.6 `Coordinator` and `DispatchHandler`

Threads: accept thread, main thread in `stop`, one `serve` per connection, with the
dispatcher's `handoff` inside the session of a control client. `worker` is the process of
one incarnation; it may crash at any point. Steps end where a lock is released: between
the registration in the router and `links_`, between the three locks of the clean-up,
between the look-up, the send and the wait of `handoff`. Evidence publication is one
frame; a decision is the boot it is bound to; of the admin operations those that touch
links, registry or life of the coordinator are actions.

`options` holds the platform and the options that decide between paths: the limit on
session threads, the limit on fences (`max_backend_incarnations`, at which
`fence_backend_boot` refuses and `serve` does not notice), and `save_on_shutdown` with a
path. `CloseReturns` is what `close` waits for: nothing on Windows, the other end on POSIX,
whether it is called by `stop` (`stop_close`), by `serve` after `stop` made its `receive`
fail (`close_connection`), by a worker that returns (`Return`), or by the accept thread for
a connection it refuses, which then holds `mutex_` (`MutexFree` guards whatever takes
it). `stop_end` shuts the router down after the sessions are joined, and is stuck there with
`save_on_shutdown`.

The refinement mapping takes the
calls of the control sessions: `called` while `handoff` runs, `target` the boot of the
decision, `ran` how often the target's process executed the dispatch id, `handed` the
result.

## 3. What the runs check

Deadlock is not checked in any run: the router is passive and stops when nobody calls,
processes end, connections close, and every instance has bounds. Liveness properties say
what may not be waited for.

| Run | Instance | Shows |
|---|---|---|
| `authority` | 2 threads, 1 backend, 2 boots, 2 epochs, 1 decision | fences, restarts, bad evidence, shutdown and start against `route`, `revalidate` and `dispatch`: `CurrentAuthority`, `NoHandoffAfterFence`, `OldEpochNeverRevived` |
| `history` | 2 threads, 3 decisions, history limit 2, 1 dispatch, changing evidence | eviction under concurrent commits, revalidations, dispatches and completions: `HistoryConsistent`, `CompletionTraceable`, `JudgesItsRecord`, `TypeOK` |
| `fallback` | 1 thread, 2 backends, 2 decisions, 2 epochs, 1 time step | evidence, price, expiry and shutdown against the fallback walk: `FallbackJudged`, `SupersededWasReplaced`, `CurrentAuthority` |
| `catalog_calls` | no thread, 1 backend, generations and boots up to 2 | every mutation in every order: `IndexMatchesScan`, `FencedNotRegistered`, `AuthorityMonotone` |
| `recovery` | 1 saver, 2 processes, 2 boots, 2 ids, 3 epochs, limits 1, default limit 2 | crashes at every point of a save, loads in every state: `FileLoads`, `RecoveredNeverCurrent`, `SavedFencesSurvive`, `DurableIdNotReissued`, `TypeOK` |
| `coordinator` | 2 incarnations of a backend, 1 control client with 2 requests; Windows with 3 session threads and 2 fences, Windows with 1 and 1 and `save_on_shutdown`, POSIX with 2 and 1 | incarnations that come, crash and overlap while the client routes, dispatches, fences and shuts down: `HandoffImplementsHandler` (refinement), `HandoffReturnsEventually`, `StopReturns`, `EndedSessionIsFenced`, `StopJoinsEverySession`, `TypeOK` |
| `transport` | both platforms, 3 frames (one oversize), queues of 2 and 1, a wire of 2 chunks | partial writes, full buffers, closes at any time: `FramesConserved`, `DeliveredInOrder`, `ClosedReleasesSlot`, `CloseReturns`, `AcceptedArrives`, `TypeOK` |
| `codecs` | every message and the state file, 6 variants, limits of 1 to 3 | intact and with one fault: `MessageSurvives`, `StateSurvives`, `DamageRefused`, `ImageDeterministic`, `TypeOK` |
| `ranking` | 3 candidates, 2 requests, everything or nothing observed at first, one changed observation of any candidate, integers up to 1023 | `RankingCanonical`, `ScoreExact`, `MissingNeverFavoured`, `WinnerStays`, `TypeOK` |

**Why the bounds are enough.** A hazard of the router needs one call caught between two
locks and one mutation, so two threads (or one thread and the mutations) show it; two
boots, generations and epochs give an old and a new value. `history` puts the limit below
the number of decisions, so eviction happens while ids are held. `recovery` needs one
process that saves and crashes and one that loads, and a third epoch to start again after
the load. `coordinator` needs an old and a new incarnation whose sessions overlap. With one or two
session threads the accept thread refuses one of three connections, with three it never
does; with one fence the second session to end finds the table full, with two none does.
Each of the three option sets is there for a path that the other two do not have.
`transport` has more frames than either queue holds, and a wire that holds one frame, so
every queue fills and every write is cut; the oversize frame is one that `send` accepts and the
receiver refuses to decode.
`codecs` gives each field a value of its own, which exposes any two that are exchanged, and
puts every list and string below, at and above its limit. In `ranking`, 60 times the
scale of 20 exceeds 1023, so the saturating branch of `mul_div` is taken.
Symmetry is used for threads only: they differ in nothing but their name.

**Fairness.** `Router`, `Recovery`, `Codecs` and `Ranking` state none, because they state
safety. In `Transport`, the session thread, a `close` that has begun and the readers are
weakly fair: each is a thread of its own in a loop that runs whenever it is not blocked, and
the model blocks them exactly where the code waits. In `Coordinator`, the accept thread,
`stop` once begun, each session thread and each live worker process are weakly fair for the
same reason. Nobody is obliged to connect, send, ask, leave, crash, close or type `quit`.
No strong fairness is used: a critical section is one step, so that a mutex is not a wait.
The exception is `mutex_` of the coordinator on POSIX, which the accept thread may hold in a
`close`; each connection is refused at most once, so it is free for good or held for good in
the end, and weak fairness is enough.

**Exceptions the liveness properties name.** `CloseReturns` and `AcceptedArrives` are about
Windows: the POSIX loop never looks at `stop_requested`, so `close` waits until the peer
closes (`transport.cpp:323`), and a POSIX write blocks with the mutex held.
`HandoffReturnsEventually` excludes a link that `links_` has lost and a session that
ended without finding its link; on POSIX also a session or a worker that waits in `close`
for the other end, and a refused connection that stays, for which `mutex_` is held.
`StopReturns` presupposes that the peers `stop` does not disconnect leave by themselves (on
POSIX that is every peer, the workers whose links it closes included), that no handoff waits
on a link nobody will close, and that `save_on_shutdown` is off, because with it `stop` never
returns. Each exception is needed: without it TLC finds a counterexample in the run.

**Refinement.** `HandoffImplementsHandler` states that `Coordinator`, under the mapping of
section 2.6, implements `DispatchHandler`: each call is executed at most once, by the
incarnation the decision was bound to, and is reported as handed off only after that. It
is the assumption under which `dispatch_handoff` of `Router` is external.

### 3.1 Claims the code does not meet

Each run `claim_*` checks one statement of the repository and ends in a counterexample;
`PROJECT.json` quotes the statement.

| Run | Statement | What happens |
|---|---|---|
| `claim_judged` | a mutation that landed during a routing pass cannot leave its decision current | evidence published between discovery and bind is bound unjudged, and the re-check compares it with itself; the pre-dispatch revalidation still refuses the decision |
| `claim_session_fence` | a closed backend session fences its incarnation | a worker that dies before its registration is acknowledged stays registered: `serve` leaves its loop before it has looked up its link |
| `claim_saved_state` | after a restart durable state is restored | `encode` accepts an image of up to `max_persistence_bytes`, `decode` refuses a payload over the smaller `max_payload_bytes` |

### 3.2 Observations without a run

What else became plain while modelling. The properties are stated so that they hold beside
these, and say so.

Router:

- `revalidate` sets `CURRENT` under its last lock without a second look at the status or at
  `shutting_down`: a shutdown or a completion in between is overwritten
  (`router_dispatch.cpp:402`). `reroute` checks the status before and writes `SUPERSEDED` after
  (`router_dispatch.cpp:752`; `tests/test_races.cpp:837` expects that completion and
  supersession are never both recorded). `dispatch` records a decision that went `STALE`
  after its revalidation as `DISPATCHED`.
- `register_model` has no stale pass (`router.cpp:464`), so a `CURRENT` decision may bind a
  model generation that is gone; `CurrentAuthority` is stated without the model.
- A fence that names another generation than the registered one fences the incarnation and
  leaves it registered (`router.cpp:725`). `FencedNotRegistered` is for callers that name no
  generation.
- `unregister_backend` adds a fence without the limit check (`router.cpp:581`). `set_policy`
  accepts other contents at the same generation. A pass admitted before `shutdown` may
  commit between the two locks of `start`. `dispatch_index` is never evicted with its
  decisions (`router_dispatch.cpp:585`). `update_capacity` takes a second lock
  (`router.cpp:864`).

Recovery:

- A fence is durable once a save has succeeded. A crash before that, or loading an older
  file, forgets it, and the incarnation can register again (`router_persist.cpp:213`; the
  README, line 233, says it "can never become authoritative again, in any process, at any
  epoch"). `SavedFencesSurvive` is about saved fences. An epoch that was never saved is
  used again likewise.
- Two saves share one temporary name (`persistence.cpp:1176`). With `Savers` of two members
  `SavedFencesSurvive` fails: one save exports, a fence lands, a second save exports and
  writes, the first overwrites the temporary file, and the second renames it and reports
  success for an image that lacks its fence. On POSIX, where `fopen` does not exclude a second
  writer, the file may also mix the bytes of both; the model has the Windows rule.
- With `save_on_shutdown`, `shutdown` holds the unique lock and exports, which takes the same
  mutex shared (`router.cpp:409`). With `SaveOnShutdown = TRUE` the process is stuck.
- Weights and the limits outside the meta record are not in the file, and an import replaces
  the router's by the defaults (`router_persist.cpp:134`); `src/README.md:240` counts
  "configuration and ranking weights" as durable. `StateSurvives` says what does come back.
  One consequence: a router whose option for `max_backend_incarnations` is below the default
  may, after a load, save more fences than the next process, under that option, accepts.
  `FileLoads` is therefore about a reader with the larger of the two limits.
- Import allocates plan ids before it observes the imported ones.

Transport:

- An overflowing receive queue sets `closed` itself, so its connection slot is never
  returned (`transport.cpp:528`); `ClosedReleasesSlot` excludes it.
- A socket error found with the mutex held locks it again. `close` resets the state that a
  concurrent `receive` is using. The model has both, as `stuck` and `Crashed`.

Coordinator:

- `serve` ignores what `fence_backend_boot` answers (`coordinator.cpp:277`). At
  `max_backend_incarnations` fences the answer is `REJECT_LIMIT` (`router.cpp:714`), and the
  incarnation whose session ended stays unfenced, and registered. `EndedSessionIsFenced` names
  the full table as its exception.
- On POSIX `close` waits for the other end (`transport.cpp:323`). `stop` therefore hangs as long
  as a healthy worker is connected. `accept_loop` closes a refused connection with `mutex_`
  held (`coordinator.cpp:225`), so that until that peer leaves no link is found, inserted or
  erased and no decision is kept. A worker that ends its loop stays in its own `close` until
  the coordinator closes, which does not happen while its session waits for a frame.
- With `save_on_shutdown` and a path, `stop` joins every session and then hangs in
  `router_->shutdown()` (`coordinator.cpp:187`, `router.cpp:409`).
- `serve` erases `links_` by backend id, so a session that ends late removes the link of the
  next incarnation (`coordinator.cpp:274`).
- A `SHUTDOWN` request makes the later `stop` return at once, without joining.
  Sessions that ended are not reaped before `stop`, and count against the session limit.
- A handoff has no timeout (`coordinator.cpp:807`) and may report `REJECT_UNAVAILABLE` while the
  worker still executes: the abstract handler permits that. A worker that is still
  publishing when a `DISPATCH` arrives exits.

Ranking:

- The cold-start penalty is subtracted from warmth only while it is known
  (`ranking.cpp:207`), so losing it raises the factor. README line 165 says "Missing
  evidence never becomes a favorable score". `MissingNeverFavoured` names this exception.
- Expired capacity detail still counts as known (`ranking.cpp:322`).

## 4. What is proved

Every theorem holds for all values of the constants that satisfy the named assumptions.
Those say that bounds are numbers and inputs have their types, and what is given below where
they say more. TLC evaluates them on every run, and checked every inductive invariant before
it was proved. Every property of a passing run is a theorem except the four of 4.8.

### 4.1 Authority (`RouterProofs`)

From `RouterAssumption` (types, and a history limit of at least one), for every number of
threads, backends, decisions and every workload:

| Theorem | Statement |
|---|---|
| `TypeCorrect` | `Spec => []TypeOK` |
| `CurrentAuthorityHolds` | `Spec => []CurrentAuthority` |
| `RevalidationJudgesItsRecord` | `Spec => []JudgesItsRecord` |
| `FencedStaysOut` | `Spec => []FencedNotRegistered`, when fences name no generation |
| `AuthorityAdvances` | `Spec => AuthorityMonotone` |

`CurrentAuthority` is not inductive. `revalidate_authorize` marks a record `CURRENT`
because the copy in `call[t]` is dispatchable, so the copy must be the authority of
the record: `JudgesItsRecord`. That in turn is kept only because a record's
authority never changes and no commit reuses an id a call still holds, so every id
in a call, in the route map or in the order list lies below `next_decision`:
`Allocated`. The inductive invariant is `TypeOK /\ BoundInv`, where
`BoundInv == Allocated /\ JudgesItsRecord /\ CurrentAuthority`. For the catalog
mutations the argument is one lemma: after the stale pass, whatever is `CURRENT` is
dispatchable in the new catalog, and dispatchable implies bound. `register_model`
has no such pass, and `CurrentAuthority` is stated without the model so that it
holds. `FencedStaysOut` needs its hypothesis (see 3.2). It is proved with `TypeOK` and
itself as the invariant.

### 4.2 History, dispatch and indexes (`RouterHistoryProofs`)

| Theorem | Statement |
|---|---|
| `HistoryStaysConsistent` | `Spec => []HistoryConsistent` |
| `CompletionsTraceable` | `Spec => []CompletionTraceable` |
| `FallbackBindsWhatItJudged` | `Spec => []FallbackJudged` |
| `SupersededHasSuccessor` | `Spec => []SupersededWasReplaced` |
| `FencedIsNotHandedOff` | `Spec => []NoHandoffAfterFence` |
| `OldEpochStaysOut` | `Spec => OldEpochNeverRevived` |
| `IndexStaysExact` | `Spec => []IndexMatchesScan` |

Two lemmas carry the thirty actions: `RecordStep` (a step leaves a record, marks it stale,
or gives it another status in one of four ways) and `CallStep` (where a call may go). The invariant
is `HistoryInv`, over `BoundInv`. Each property needs what calls in progress hold, because
what one lock writes was decided under an earlier one:

- `FallbackInv`: a fallback call about to commit holds evidence equal to what it judged.
- `ReplacedInv`: a call about to write `SUPERSEDED` already has its successor, which may have
  been evicted since.
- `GoneInv`: a dispatch that began after the fence never gets past its own revalidation; until
  there it holds an authority whose incarnation stays fenced.
- `TraceableInv`: a call about to record has handed off, and no recorded dispatch id will be
  issued again.

The index is proved exact from the helpers that maintain it, with `TypeOK` as the only other
invariant.

### 4.3 Recovery (`RecoveryProofs`)

From `RecoveryAssumption` (types of the bounds, a history limit of at least one), for every
number of processes, boots, epochs and identities:

| Theorem | Statement |
|---|---|
| `TypeCorrect` | `Spec => []TypeOK` |
| `RecoveredStaysStale` | `Spec => []RecoveredNeverCurrent` |
| `StateFileLoads` | `Spec => []FileLoads`, for any number of concurrent saves and any two limits |
| `DurableIdsStay` | `Spec => DurableIdNotReissued`, likewise |
| `SavedFencesHold` | `Spec => []SavedFencesSurvive`, when at most one thread saves |

`RecoveredNeverCurrent` is not inductive: a revalidation makes any decision current that binds
the present epoch. `RoutesBound` adds that only decisions of this process do, which a load
keeps because the import advances the epoch beyond the saved one; that needs every image to be
newer than its decisions (`Sound`), in the file, in the temporary file once it may be renamed
and in every save in progress (`FileSound`, `TmpSound`, `SavesSound`). The crux of `TmpSound`
is that a temporary file somebody has closed is whole unless somebody else has it open,
and then it cannot be renamed. `Observed` says that a live process has taken the file's
highest identity into account. Together they are `RecoveryInv`. The fences have an
invariant of their own, `FencesKept`, which is false with two savers (see 3.2).

### 4.4 Coordinator (`CoordinatorProofs`)

For any number of incarnations, control clients and requests, either platform, any limit on
sessions and fences, with and without `save_on_shutdown`:

| Theorem | Statement |
|---|---|
| `TypeCorrect` | `Spec => []TypeOK` |
| `StopJoinsAll` | `Spec => []StopJoinsEverySession` |
| `EndedSessionStaysFenced` | `Spec => []EndedSessionIsFenced` |
| `HandoffRefinesHandler` | `Spec => HandoffImplementsHandler` (refinement of `DispatchHandler`) |

`TypeOK` bounds the size of `sessions`, so its invariant adds that the set is finite.
`SessionInv` says that every `serve` thread is in `sessions`, and how far the clean-up of each
session has come: link closed, then `links_` without its entry, then fenced, or the table of
fences full. Nothing undoes a stage, because links are not reopened, an incarnation has one
connection, the router refuses a fenced incarnation, and fences are never removed, so a full
table stays full. `EndedSessionIsFenced` is its last stage.

The refinement needs `DispatchInv`: an id is at most once among what is on its way to a
worker and what it executed; a result on its way back or in the link is of an id the worker executed; a call
waits for an id of its own, sent to the incarnation of its decision. Then
each step is a step of the abstract handler or a stutter: an execution adds the first and
only run of its id, and a return as handed off finds the result of a run that happened.

### 4.5 Transport (`TransportProofs`)

From `TransportAssumption` (types, and a wire that holds something), for both session loops,
any number of frames, queue limits and capacity of the wire, and whichever ends send and read:

| Theorem | Statement |
|---|---|
| `TypeCorrect` | `Spec => []TypeOK` |
| `FramesStayConserved` | `Spec => []FramesConserved` |
| `DeliveryInOrder` | `Spec => []DeliveredInOrder` |
| `SlotReleased` | `Spec => []ClosedReleasesSlot` |

The bytes of one direction are one `Stream`: what was decoded, the receive buffer, the wire,
the write in progress, the queue. Accepting a frame extends it at one end, and every other
step moves one boundary within it. That needs no induction over the stream: one lemma per
boundary, from the associativity of concatenation and from `EncodedPlaces`, which says which half
of which frame stands at a place. `Decode` is sound only on a buffer that begins at a
frame and holds the halves of frames in turn (`Aligned`), and a buffer is aligned because it
continues whole frames within the bytes of `accepted`.

`FramesConserved` is not inductive: it is about two open ends, and a sender that closes
does not stop the reader, who must go on to deliver a prefix. `StreamInv` therefore asks only
that the reading thread lives. `EndInv` says that a socket is released only by a thread that
ends; without it a write to a released socket, which is discarded, could lose bytes of a
reader that lives. `OrderInv` keeps the prefix after the stream is cut off. `SlotInv` says
that whatever is closed and did not overflow has given its slot back. Together with `TypeOK`
they are `TransportInv`.

### 4.6 Ranking (`RankingProofs`)

From `RankingAssumption` and `InputsAssumption`, for any candidates, requests, weights and
observations:

| Theorem | Statement |
|---|---|
| `TypeCorrect` | `Spec => []TypeOK` |
| `RankingIsCanonical` | `Spec => []RankingCanonical` |
| `ScoresAreExact` | `Spec => []ScoreExact` |
| `MissingIsNotFavoured` | `Spec => MissingNeverFavoured` |
| `ContinuityKeepsWinner` | `Spec => WinnerStays` |

The assumptions say that the scale times a weight, and times the reference of a
lower-is-better factor, fit the machine integer, and that there is a candidate, since a route
without one has no winner. In the code the scale is 10^6, the integer has 64 bits, and
`RankingWeights::validate` refuses a weight above 10^7. `RankingScales::validate` only asks that a
reference is positive: the assumption leaves out references above 9 * 10^12 (microseconds or
micro-units, where the defaults are at most 2 * 10^7), for which `mul_div` would saturate early.

The argument goes from arithmetic to order. The quotient of two numbers is monotone and
below its bound, so each of the 29 factors is in the scale and does not rise when an
observation is lost; where the guarded product saturates, the exact factor is zero as well.
The score is a recursive function over the 29 factors, and its partial sums are compared, with
the lemmas of `LeastNumber`, to the exact sums and to those of another row. The order of
candidates is irreflexive, transitive and total because ids differ, so the number of
candidates ahead of each is its rank, whatever order the sort began with. The inductive invariant
is `RankingInv`: the types, `ranked` is what the evidence makes of it, and a last winner that
a route left won the ranking of the evidence it was judged by. `WinnerStays` needs the last
part: continuity only adds to the candidate that was already ahead. A fallback leaves a
candidate that won nothing, and the next route may well prefer another, so the property is
about two routes with no fallback between them.

### 4.7 Codecs (`CodecsProofs`)

From `LimitsAssumption` and `InputsAssumption`, for every limit and every set of messages and
states:

| Theorem | Statement |
|---|---|
| `MessageLayout` | the reader of each message makes its writer's calls, and they nest within the depth of `read` |
| `CanonicalOnce` | `canonicalize` of a canonical state is that state |
| `CodecInvariant` | `Spec => []CodecInv`, the inductive invariant |
| `TypeCorrect` | `Spec => []TypeOK` |
| `MessagesSurvive` | `Spec => []MessageSurvives` |
| `StatesSurvive` | `Spec => []StateSurvives` |
| `DamageIsRefused` | `Spec => []DamageRefused` |
| `ImagesDeterministic` | `Spec => []ImageDeterministic` |

The assumptions: every limit is a number below `Huge`, which all defaults of `limits.hpp` are. A
field of an input holds what its C++ type can (a number up to 31 bits), and the characters
that are hashed are integers. No two models, backends, fences or decisions of a state, and no two
bindings of a backend, have the same key: they come from maps, and
`BackendDescriptor::canonicalize` removes a second binding to the same model. Without that, `std::sort` may
leave equal keys in either order and the image would depend on it. Weights and limits of a
state are arbitrary; `StatesSurvive` says that its `Durable` part is read back. Values beyond the limits
and enumerations out of range are inputs too: the theorems say that those are refused.

The argument is built from the bottom up, because a reader has to find a value among bytes that it
cannot delimit beforehand:

1. *Numbers.* A number of each width is read back from its bytes, wherever they stand.
2. *Strings and lists.* A length, then the parts. The partial results of a loop are a
   function over `0..n` (`LeastNumber`); after `k` parts the reader stands at the sum of
   the first `k` lengths, with the first `k` values.
3. *Layouts.* By depth of nesting, once for each of the four depths: what was written is
   read back wherever it stands exactly if it is allowed (`Decodes`), and what was read from a prefix is
   read the same from the whole (`Extends`). The second part is what refuses a
   payload with a byte more or less: a reader that succeeds on both would stop at the same place in
   both, and only one of them ends there.
4. *Messages and records.* Each reader makes the calls of its writer, one lemma per
   message and per record kind.
5. *Checksum and frame.* One changed byte changes the stand-in checksum (`CrcChanges`), so a
   flipped byte is refused by the checksum that covers it, and a flipped byte of a checksum or
   of the digest by the bytes that checksum or digest covers.
6. *Canonical order.* Distinct keys make one sorted order of a list, and a list and its
   reverse have the same one.
7. *Image.* Header, payload and the loop over records: after `k` records the loop has the meta record and the
   first `k - 1` others, in the lists of their kinds.

`CodecInv` says which bytes each stage holds: those of the encoder unless a fault happened,
otherwise bytes that decoding refuses; and that the outcome is what decoding them gives. The
properties are about the last stage and are not inductive, since nothing in them connects the
bytes of the stages before it to the input.

### 4.8 Only model-checked

- Liveness is out of the prover's reach: `HandoffReturnsEventually` and `StopReturns` of
  `Coordinator`, `CloseReturns` and `AcceptedArrives` of `Transport`.
- The `claim_*` runs end in a counterexample and have nothing to prove.

The library's induction theorems take a predicate as a parameter, which the installed provers
cannot instantiate. `LeastNumber` states induction with a set in place of the predicate,
which is enough for functions over numbers and for loops over sequences.

## 5. Not modelled, and the plan

Not modelled, because it keeps no state of the system:

- Text and JSON of outcomes and explanations, snapshots, inspection (they only read).
- SHA-256 and CRC-32C as algorithms: standard functions, too large for TLC.
- The CUDA probe, tools, examples, benchmarks, the harness's scenarios and process control.
- The sockets of listener and connector before a connection is established.
- Request and option validation, and the capability sets: predicates of one call's
  arguments, whose verdict the models take as given.

Modelled in part, and open:

- `register_provider`, `set_compatibility`, the second lock of `update_capacity`, the model and
  provider indexes; the allow and deny lists of a policy and `fallback_permitted`.
- The ceiling of 2^64 of an id counter, which no execution reaches.
- Admin operations of the coordinator that only call the router and reply.

Proofs that remain: the steps of the liveness arguments (which action is enabled, and what
each one brings closer to the end) could be stated as safety lemmas; the arguments themselves
stay with TLC. The codec theorems are about the stand-in checksum; for the CRC-32C of the code the
fact used is that it detects one changed byte, which holds of every CRC.
