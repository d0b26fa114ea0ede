------------------------------- MODULE Router -------------------------------
(***************************************************************************)
(* The canonical state of ModelRouter::Impl and every operation on it.     *)
(*                                                                         *)
(* The router has one shared_mutex.  A critical section is one action; a   *)
(* call that takes the mutex several times (route, revalidate, dispatch,   *)
(* reroute, start) is a sequence of actions of one thread, and everything  *)
(* it read under an earlier lock lives in call[t].  A call that is         *)
(* rejected leaves the canonical state alone, so a rejection is either a   *)
(* false guard or a step that only returns.                                *)
(*                                                                         *)
(* Data abstraction.  One model, bound by every backend.  A backend        *)
(* generation stands for the backend, provider and endpoint generations    *)
(* that a registration fixes together; a model generation for the model    *)
(* and artifact pair.  Router epoch and coordinator epoch always advance   *)
(* together and are one epoch.  Evidence is a generation and a verdict;    *)
(* policy, budget and SLO are a generation and the set of backends they    *)
(* refuse.  Generation 0 is the invalid generation of ids.hpp and expiry 0 *)
(* is kNoExpiry.  Candidate ranking is a free choice among the eligible.   *)
(***************************************************************************)
EXTENDS Naturals, Sequences, FiniteSets

CONSTANTS
    Threads,          \* client threads of the public API
    Backends,         \* BackendId values
    NoBackend,        \* the invalid BackendId
    BootKinds,        \* evidence published per incarnation (health, capability, ...)
    Mandatory,        \* evidence kinds required_mask always contains
    DefaultNeeds,     \* evidence kinds a default RouteRequirements asks for
    Initial,          \* the catalog when the first route request may arrive
    Requests,         \* route requests the threads make
    RegEvidence,      \* evidence a registration may carry
    Publications,     \* evidence later published for a backend
    Denials,          \* refusal sets policy, budget and SLO publications carry
    FenceGenerations, \* generations callers of fence_backend_boot pass
    MaxBackends,      \* limits.max_backends
    MaxHistory,       \* limits.max_route_history
    MaxIncarnations,  \* limits.max_backend_incarnations
    Workload,         \* the API calls the environment makes
    MaxGen, MaxBackendGen, MaxBoot, MaxReg, MaxModelGen,  \* bounds of this model
    MaxEpoch, MaxTime, MaxDecision, MaxDispatch

Kinds      == BootKinds \cup {"trust", "price"}
Snapshots  == {"policy", "budget", "slo"}
Decisions  == 1..MaxDecision
Dispatches == 1..MaxDispatch

EvState    == {"unknown", "good", "bad", "draining"}
Evidence   == [gen : Nat, st : EvState, exp : Nat]
NoEvidence == [gen |-> 0, st |-> "unknown", exp |-> 0]

Lifecycle  == {"CURRENT", "DEPRECATED", "RETIRED"}
Model      == [gen : Nat, life : Lifecycle]

\* BackendDescriptor; reg = 0 means that the backend is not registered.
Descriptor   == [reg : Nat, gen : Nat, boot : Nat, mgen : Nat, ev : [Kinds -> Evidence]]
Unregistered == [reg |-> 0, gen |-> 0, boot |-> 0, mgen |-> 0,
                 ev |-> [k \in Kinds |-> NoEvidence]]

Snapshot == [gen : Nat, deny : SUBSET Backends]

\* The part of CanonicalState that route authority is compared with.
Catalog == [epoch    : Nat,
            model    : Model,
            backends : [Backends -> Descriptor],
            fenced   : SUBSET (Backends \X Nat),
            snap     : [Snapshots -> Snapshot]]
NoCatalog == [epoch |-> 0, model |-> [gen |-> 0, life |-> "CURRENT"],
              backends |-> [b \in Backends |-> Unregistered], fenced |-> {},
              snap |-> [s \in Snapshots |-> [gen |-> 0, deny |-> {}]]]

Request == [needs : SUBSET Kinds, uses : SUBSET {"budget", "slo"},
            fallbacks : Nat, exp : Nat]

CandidateKey == [mgen : Nat, backend : Backends, bgen : Nat, boot : Nat]

RouteAuthority == [epoch : Nat, mgen : Nat, backend : Backends \cup {NoBackend},
                   bgen : Nat, breg : Nat, boot : Nat, ev : [Kinds -> Nat],
                   snap : [Snapshots -> Nat], exp : Nat]
NoAuthority == [epoch |-> 0, mgen |-> 0, backend |-> NoBackend, bgen |-> 0, breg |-> 0,
                boot |-> 0, ev |-> [k \in Kinds |-> 0], snap |-> [s \in Snapshots |-> 0],
                exp |-> 0]

\* RouteStatus; "ABSENT" marks an id whose record is not retained.
RouteStatus == {"CURRENT", "SUPERSEDED", "STALE", "DISPATCHED", "COMPLETED", "FAILED"}

\* seen (the evidence its candidate was judged on), via and fresh (committed as
\* CURRENT) record how the decision was made; no action reads them.
RouteRecord == [status : RouteStatus \cup {"ABSENT"}, auth : RouteAuthority,
                fallbacks : Seq(CandidateKey), dispatch : Nat,
                seen : [Kinds -> Nat], via : {"route", "fallback"}, fresh : BOOLEAN]
NoRoute == [status |-> "ABSENT", auth |-> NoAuthority, fallbacks |-> <<>>, dispatch |-> 0,
            seen |-> [k \in Kinds |-> 0], via |-> "route", fresh |-> FALSE]

ASSUME RouterAssumption ==
    /\ NoBackend \notin Backends
    /\ "health" \in BootKinds
    /\ {"trust", "price"} \cap BootKinds = {}
    /\ Initial \in Catalog
    /\ Initial.fenced = {}
    /\ Requests \subseteq Request
    /\ RegEvidence \subseteq [Kinds -> Evidence]
    /\ Publications \subseteq Evidence
    /\ Denials \subseteq SUBSET Backends
    /\ FenceGenerations \subseteq Nat
    /\ MaxBackends \in Nat
    /\ MaxHistory \in Nat \ {0}
    /\ MaxIncarnations \in Nat
    /\ \A n \in {MaxGen, MaxBackendGen, MaxBoot, MaxReg, MaxModelGen,
                 MaxEpoch, MaxTime, MaxDecision, MaxDispatch} : n \in Nat

NoRequest == [needs |-> {}, uses |-> {}, fallbacks |-> 0, exp |-> 0]
Labels == {"idle", "admit", "discover", "bind", "commit", "lookup", "observe", "authorize",
           "mark_stale", "snapshot", "resolve", "handoff", "record", "fallback",
           "supersede", "publish"}
Calls  == {"none", "route", "revalidate", "dispatch", "reroute", "start"}

\* The local variables of one API call.  gone records, when dispatch is called,
\* that the bound incarnation was already fenced; no action reads it.
CallState == [pc : Labels, op : Calls, dec : Nat, req : Request, epoch : Nat, now : Nat,
              snap : [Snapshots -> Snapshot], auth : RouteAuthority,
              seen : [Kinds -> Nat], rest : Seq(CandidateKey), fb : Seq(CandidateKey),
              via : {"route", "fallback"}, cmp : BOOLEAN, gone : BOOLEAN]

Idle == [pc |-> "idle", op |-> "none", dec |-> 0, req |-> NoRequest, epoch |-> 0, now |-> 0,
         snap |-> NoCatalog.snap, auth |-> NoAuthority, seen |-> [k \in Kinds |-> 0],
         rest |-> <<>>, fb |-> <<>>, via |-> "route", cmp |-> FALSE, gone |-> FALSE]

VARIABLES
    running, shutting_down,   \* lifecycle flags
    catalog,                  \* models, backends, fences, policy/budget/SLO, epoch
    watermark,                \* backend_generation_watermark
    trust,                    \* state.trust: trust evidence by backend, outlives registrations
    index,                    \* index_backends_by_trust, as pairs <<trust verdict, backend>>
    routes, route_order,      \* retained decisions and their eviction order
    dispatch_index,           \* DispatchId -> RouteDecisionId, 0 when unused
    next_decision, next_dispatch,  \* IdAllocator
    call,                     \* API calls in progress
    handed,                   \* handoffs the dispatch provider saw: 0, 1, 2 = several
    now                       \* the clock

vars == <<running, shutting_down, catalog, watermark, trust, index, routes, route_order,
          dispatch_index, next_decision, next_dispatch, call, handed, now>>

-----------------------------------------------------------------------------
(* Authority: what a decision is bound to and whether it is still current.  *)

generation_regressed_by_two(incoming, current) ==
    current # 0 /\ incoming # 0 /\ incoming + 1 < current

generation_regressed(incoming, current) ==
    current # 0 /\ incoming # 0 /\ incoming < current

expired(exp, t) == exp # 0 /\ t >= exp

fence_forgotten(c, b, boot) == FALSE

is_fenced(c, b, boot) == <<b, boot>> \in c.fenced

\* A health publication makes the descriptor draining() or retired().
draining(d) == d.ev["health"].st = "draining"

registered(c, b) == b \in Backends /\ c.backends[b].reg # 0

\* Evidence kinds and snapshots that required_mask makes hard-current.
required_kinds(a) == {k \in Kinds : k \in Mandatory \/ a.ev[k] # 0}
required_snaps(a) == {s \in Snapshots : s = "policy" \/ a.snap[s] # 0}

\* build_current_authority fails when the bound model or backend is gone.
identity_current(c, a) == c.model.gen # 0 /\ registered(c, a.backend)

compare_without_epoch(c, a) ==
    LET d == c.backends[a.backend]
    IN  /\ identity_current(c, a)
        /\ a.mgen = c.model.gen
        /\ a.bgen = d.gen
        /\ a.breg = d.reg
        /\ a.boot = d.boot
        /\ \A k \in required_kinds(a) : a.ev[k] = d.ev[k].gen
        /\ \A s \in required_snaps(a) : a.snap[s] = c.snap[s].gen

compare_authority(c, a) ==
    LET d == c.backends[a.backend]
    IN  /\ identity_current(c, a)
        /\ a.epoch = c.epoch
        /\ a.mgen = c.model.gen
        /\ a.bgen = d.gen
        /\ a.breg = d.reg
        /\ a.boot = d.boot
        /\ \A k \in required_kinds(a) : a.ev[k] = d.ev[k].gen
        /\ \A s \in required_snaps(a) : a.snap[s] = c.snap[s].gen

is_authority_dispatchable(c, a, t) ==
    /\ ~expired(a.exp, t)
    /\ ~is_fenced(c, a.backend, a.boot)
    /\ compare_authority(c, a)
    /\ c.model.life = "CURRENT"
    /\ ~draining(c.backends[a.backend])

executable(r) == r.status \in {"CURRENT", "DISPATCHED"}

stale_only_dispatched(c, r, t) ==
    IF r.status = "DISPATCHED" /\ ~is_authority_dispatchable(c, r.auth, t)
    THEN [r EXCEPT !.status = "STALE"]
    ELSE r

stale_decision_if_not_dispatchable(c, r, t) ==
    IF executable(r) /\ ~is_authority_dispatchable(c, r.auth, t)
    THEN [r EXCEPT !.status = "STALE"]
    ELSE r

no_stale_pass(c, rs, t) == rs

stale_decisions_for_authority_change(c, rs, t) ==
    [d \in Decisions |-> stale_decision_if_not_dispatchable(c, rs[d], t)]

stale_decisions_for_backend(rs, b, boot) ==
    [d \in Decisions |->
        IF executable(rs[d]) /\ rs[d].auth.backend = b /\ rs[d].auth.boot = boot
        THEN [rs[d] EXCEPT !.status = "STALE"]
        ELSE rs[d]]

\* evaluate_hard_eligibility of backend b, described by d, at time t.
Eligible(m, b, d, needs, snap, uses, t) ==
    /\ m.gen # 0 /\ m.life = "CURRENT"
    /\ d.reg # 0 /\ d.mgen = m.gen
    /\ ~draining(d)
    /\ \A k \in needs : /\ d.ev[k].gen # 0 /\ d.ev[k].st = "good"
                        /\ ~expired(d.ev[k].exp, t)
    /\ \A s \in uses \cup {"policy"} : snap[s].gen # 0 /\ b \notin snap[s].deny

KeyOf(c, b) == [mgen |-> c.model.gen, backend |-> b,
                bgen |-> c.backends[b].gen, boot |-> c.backends[b].boot]

BoundKey(a) == [mgen |-> a.mgen, backend |-> a.backend, bgen |-> a.bgen, boot |-> a.boot]

Generations(d) == [k \in Kinds |-> d.ev[k].gen]

Retained == {d \in Decisions : routes[d].status # "ABSENT"}

-----------------------------------------------------------------------------
(* Catalog mutations.  Each takes the mutex once; its last call is the pass *)
(* that marks every decision STALE whose authority is no longer current.   *)

Apply(c) == /\ catalog' = c
            /\ routes' = stale_decisions_for_authority_change(c, routes, now)

RestUnchanged == UNCHANGED <<running, shutting_down, route_order, dispatch_index,
                             next_decision, next_dispatch, call, handed, now>>

index_keeps_backend(i, b, d)  == i
index_remove_backend(i, b, d) == IF d.reg = 0 THEN i ELSE i \ {<<d.ev["trust"].st, b>>}
index_add_backend(i, b, d)    == i \cup {<<d.ev["trust"].st, b>>}

\* register_model has no stale pass.
register_model(g, life) ==
    /\ ~shutting_down
    /\ ~generation_regressed(g, catalog.model.gen)
    /\ catalog.model # [gen |-> g, life |-> life]
    /\ catalog' = [catalog EXCEPT !.model = [gen |-> g, life |-> life]]
    /\ UNCHANGED <<watermark, trust, index, routes>>
    /\ RestUnchanged

retire_model ==
    /\ ~shutting_down
    /\ catalog.model.gen # 0
    /\ catalog.model.life # "RETIRED"
    /\ Apply([catalog EXCEPT !.model.life = "RETIRED"])
    /\ UNCHANGED <<watermark, trust, index>>
    /\ RestUnchanged

register_backend(b, d) ==
    /\ ~shutting_down
    /\ ~is_fenced(catalog, b, d.boot)
    /\ \/ registered(catalog, b)
       \/ Cardinality({x \in Backends : registered(catalog, x)}) < MaxBackends
    /\ ~generation_regressed(d.gen, watermark[b])
    /\ registered(catalog, b) => d.reg > catalog.backends[b].reg
    /\ watermark' = [watermark EXCEPT ![b] = d.gen]
    /\ index' = index_add_backend(index_remove_backend(index, b, catalog.backends[b]), b, d)
    /\ Apply([catalog EXCEPT !.backends[b] = d])
    /\ UNCHANGED trust
    /\ RestUnchanged

\* Erase the registration of b and fence the incarnation boot.
Retire(b, boot, erase) ==
    LET c == [catalog EXCEPT !.fenced = @ \cup {<<b, boot>>},
                             !.backends[b] = IF erase THEN Unregistered ELSE @]
    IN  /\ catalog' = c
        /\ routes' = stale_decisions_for_authority_change(
                         c, stale_decisions_for_backend(routes, b, boot), now)
        /\ index' = IF erase THEN index_remove_backend(index, b, catalog.backends[b]) ELSE index
        /\ UNCHANGED <<watermark, trust>>
        /\ RestUnchanged

unregister_backend(b) ==
    /\ ~shutting_down
    /\ registered(catalog, b)
    /\ Retire(b, catalog.backends[b].boot, TRUE)

retires_exact_generation(d, g, boot) == d.reg # 0 /\ d.boot = boot /\ d.gen = g

retires_current(d, g, boot) == d.reg # 0 /\ d.boot = boot /\ (g = 0 \/ d.gen = g)

fence_backend_boot(b, g, boot) ==
    /\ ~is_fenced(catalog, b, boot)
    /\ Cardinality(catalog.fenced) < MaxIncarnations
    /\ Retire(b, boot, retires_current(catalog.backends[b], g, boot))

\* publish_capabilities and apply_evidence, which reads the clock (t0) before it
\* takes the mutex.
apply_evidence(b, k, boot, e, t0) ==
    /\ ~shutting_down
    /\ ~is_fenced(catalog, b, boot)
    /\ registered(catalog, b)
    /\ catalog.backends[b].boot = boot
    /\ e.gen > catalog.backends[b].ev[k].gen
    /\ LET c == [catalog EXCEPT !.backends[b].ev[k] = e]
       IN  /\ catalog' = c
           /\ routes' = stale_decisions_for_authority_change(c, routes, t0)
    /\ UNCHANGED <<watermark, trust, index>>
    /\ RestUnchanged

\* Latency samples are no part of route authority: only the pass is visible.
update_latency(b, boot) ==
    /\ ~shutting_down
    /\ ~is_fenced(catalog, b, boot)
    /\ registered(catalog, b)
    /\ catalog.backends[b].boot = boot
    /\ Apply(catalog)
    /\ UNCHANGED <<watermark, trust, index>>
    /\ RestUnchanged

set_trust(b, e) ==
    LET d == catalog.backends[b]
        n == [d EXCEPT !.ev["trust"] = e]
    IN  /\ ~shutting_down
        /\ e.gen # 0
        /\ ~generation_regressed(e.gen, trust[b].gen)
        /\ ~(trust[b].gen = e.gen /\ trust[b].st = e.st)
        /\ trust' = [trust EXCEPT ![b] = e]
        /\ IF registered(catalog, b)
           THEN /\ index' = index_add_backend(index_remove_backend(index, b, d), b, n)
                /\ Apply([catalog EXCEPT !.backends[b] = n])
           ELSE /\ UNCHANGED index
                /\ Apply(catalog)
        /\ UNCHANGED watermark
        /\ RestUnchanged

set_cost(b, e) ==
    /\ ~shutting_down
    /\ e.gen # 0
    /\ registered(catalog, b)
    /\ ~generation_regressed(e.gen, catalog.backends[b].ev["price"].gen)
    /\ ~(/\ e.gen = catalog.backends[b].ev["price"].gen
         /\ e.st  = catalog.backends[b].ev["price"].st)
    /\ Apply([catalog EXCEPT !.backends[b].ev["price"] = e])
    /\ UNCHANGED <<watermark, trust, index>>
    /\ RestUnchanged

\* set_policy, set_budget and set_slo: an equal generation replaces the snapshot.
set_snapshot(s, g, deny) ==
    /\ ~shutting_down
    /\ ~generation_regressed(g, catalog.snap[s].gen)
    /\ Apply([catalog EXCEPT !.snap[s] = [gen |-> g, deny |-> deny]])
    /\ UNCHANGED <<watermark, trust, index>>
    /\ RestUnchanged

-----------------------------------------------------------------------------
(* Lifecycle.                                                               *)

CatalogUnchanged == UNCHANGED <<watermark, trust, index>>
HistoryUnchanged == UNCHANGED <<route_order, dispatch_index, next_decision, next_dispatch,
                                handed>>

Goto(t, c) == call' = [call EXCEPT ![t] = c]
Return(t)  == Goto(t, Idle)

\* start() releases the mutex after clearing shutting_down and takes it again to
\* publish the new epoch.
start(t) ==
    /\ call[t].pc = "idle"
    /\ ~running
    /\ shutting_down' = FALSE
    /\ Goto(t, [Idle EXCEPT !.pc = "publish", !.op = "start"])
    /\ UNCHANGED <<running, catalog, routes, now>>
    /\ CatalogUnchanged /\ HistoryUnchanged

start_publish(t) ==
    /\ call[t].pc = "publish"
    /\ \/ /\ running
          /\ UNCHANGED <<running, shutting_down, catalog>>
       \/ /\ ~running
          /\ catalog.epoch < MaxEpoch
          /\ catalog' = [catalog EXCEPT !.epoch = @ + 1]
          /\ running' = TRUE
          /\ shutting_down' = FALSE
    /\ Return(t)
    /\ UNCHANGED <<routes, now>>
    /\ CatalogUnchanged /\ HistoryUnchanged

shutdown ==
    /\ running \/ shutting_down
    /\ shutting_down' = TRUE
    /\ running' = FALSE
    /\ routes' = [d \in Decisions |-> IF routes[d].status = "CURRENT"
                                      THEN [routes[d] EXCEPT !.status = "STALE"]
                                      ELSE routes[d]]
    /\ UNCHANGED <<catalog, call, now>>
    /\ CatalogUnchanged /\ HistoryUnchanged

Tick ==
    /\ now < MaxTime
    /\ now' = now + 1
    /\ UNCHANGED <<running, shutting_down, catalog, routes, call>>
    /\ CatalogUnchanged /\ HistoryUnchanged

-----------------------------------------------------------------------------
(* route(): admit, discover and rank, bind authority, commit.               *)

\* A step of thread t that changes nothing but its own local state.
Local == /\ UNCHANGED <<running, shutting_down, catalog, routes, now>>
         /\ CatalogUnchanged /\ HistoryUnchanged

\* A step that also changes retained records, but not which ids are retained.
Marks == /\ UNCHANGED <<running, shutting_down, catalog, now>>
         /\ CatalogUnchanged

SetStatus(d, st) == routes' = [routes EXCEPT ![d].status = st]

admissible(q, t0) ==
    /\ ~shutting_down /\ running
    /\ ~expired(q.exp, t0)
    /\ \A s \in q.uses \cup {"policy"} : catalog.snap[s].gen # 0

Admitted(c, t0) == [c EXCEPT !.pc = "discover", !.epoch = catalog.epoch, !.now = t0,
                             !.snap = catalog.snap, !.via = "route"]

\* route() reads the clock (t0) before it takes the mutex.
route(t, q) ==
    /\ call[t].pc = "idle"
    /\ \E t0 \in 0..now :
          /\ admissible(q, t0)
          /\ Goto(t, Admitted([Idle EXCEPT !.op = "route", !.req = q], t0))
    /\ Local

\* reroute() falls back to a full routing pass.
reroute_route(t) ==
    /\ call[t].pc = "admit"
    /\ \E t0 \in 0..now :
          \/ admissible(call[t].req, t0) /\ Goto(t, Admitted(call[t], t0))
          \/ ~admissible(call[t].req, t0) /\ Return(t)
    /\ Local

candidates(c) == {b \in Backends : Eligible(catalog.model, b, catalog.backends[b],
                                            c.req.needs, c.snap, c.req.uses, c.now)}

\* The ranked tail, cut at n: distinct candidates, all of S when n allows it.
fallback_orders(S, n) ==
    {f \in UNION {[1..k -> S] : k \in 0..n} :
        /\ \A i, j \in DOMAIN f : f[i] = f[j] => i = j
        /\ DOMAIN f = 1..n \/ \A b \in S : \E i \in DOMAIN f : f[i] = b}

bound_snapshots(c) ==
    [s \in Snapshots |-> IF s = "budget" /\ "budget" \notin c.req.uses
                         THEN 0 ELSE c.snap[s].gen]

\* Identity of candidate b, registration reg, the snapshots captured at admission,
\* and gens.
authority(c, b, reg, gens) ==
    [epoch |-> c.epoch, mgen |-> catalog.model.gen, backend |-> b,
     bgen |-> catalog.backends[b].gen, breg |-> reg, boot |-> catalog.backends[b].boot,
     ev |-> gens, snap |-> bound_snapshots(c), exp |-> c.req.exp]

\* The winner's price generation is the one of the discovered copy; the registration
\* and the other evidence generations are read again by route_bind.
route_discover(t) ==
    LET c == call[t]
    IN  /\ c.pc = "discover"
        /\ \/ /\ candidates(c) = {}
              /\ Return(t)
           \/ \E w \in candidates(c) :
              \E f \in fallback_orders(candidates(c) \ {w}, c.req.fallbacks) :
                 LET seen == Generations(catalog.backends[w])
                     ev   == [k \in Kinds |-> IF k = "price" THEN seen[k] ELSE 0]
                 IN  Goto(t, [c EXCEPT !.pc = "bind", !.seen = seen,
                                       !.auth = authority(c, w, 0, ev),
                                       !.fb = [i \in DOMAIN f |-> KeyOf(catalog, f[i])]])
        /\ Local

bound_evidence(a) ==
    IF registered(catalog, a.backend)
    THEN [k \in Kinds |-> IF k = "price" THEN a.ev[k] ELSE catalog.backends[a.backend].ev[k].gen]
    ELSE a.ev

bound_registration(a) ==
    IF registered(catalog, a.backend) THEN catalog.backends[a.backend].reg ELSE a.breg

route_bind(t) ==
    /\ call[t].pc = "bind"
    /\ Goto(t, [call[t] EXCEPT !.pc = "commit", !.auth.ev = bound_evidence(call[t].auth),
                               !.auth.breg = bound_registration(call[t].auth)])
    /\ Local

reissue(id) == id

\* The allocator never issues an id twice.
allocate(id) == id + 1

\* How many of the oldest decisions are evicted before one is appended.
excess(order) == IF Len(order) < MaxHistory THEN 0 ELSE Len(order) - MaxHistory + 1

no_victims(order) == {}

victims(order) == {order[i] : i \in 1..excess(order)}

\* s without key; the ranked candidates are distinct, so key occurs at most once.
without(s, key) ==
    IF \E i \in 1..Len(s) : s[i] = key
    THEN LET i == CHOOSE i \in 1..Len(s) : s[i] = key
         IN  SubSeq(s, 1, i - 1) \o SubSeq(s, i + 1, Len(s))
    ELSE s

\* commit_single_candidate drops the chosen key from the old fallback order.
committed_fallbacks(c) ==
    LET others == without(c.fb, BoundKey(c.auth))
    IN  IF c.via = "route" THEN c.fb
        ELSE IF Len(others) <= c.req.fallbacks THEN others
        ELSE SubSeq(others, 1, c.req.fallbacks)

after_any_commit(c, current) ==
    IF c.op = "reroute" THEN [c EXCEPT !.pc = "supersede"] ELSE Idle

\* Where a reroute goes on, given whether its commit produced a CURRENT decision.
after_commit(c, current) ==
    IF c.op = "reroute" /\ current THEN [c EXCEPT !.pc = "supersede"]
    ELSE IF c.via = "fallback" THEN [c EXCEPT !.pc = "fallback"]
    ELSE Idle

commit_refused(t) ==
    /\ call[t].pc = "commit"
    /\ shutting_down \/ catalog.epoch # call[t].epoch
    /\ Goto(t, after_commit(call[t], FALSE))
    /\ Local

commit(t) ==
    LET c       == call[t]
        current == is_authority_dispatchable(catalog, c.auth, c.now)
        record  == [status |-> IF current THEN "CURRENT" ELSE "STALE", auth |-> c.auth,
                    fallbacks |-> committed_fallbacks(c), dispatch |-> 0,
                    seen |-> c.seen, via |-> c.via, fresh |-> current]
    IN  /\ c.pc = "commit"
        /\ ~shutting_down
        /\ catalog.epoch = c.epoch
        /\ next_decision \in Decisions
        /\ next_decision' = allocate(next_decision)
        /\ route_order' = Append(SubSeq(route_order, excess(route_order) + 1, Len(route_order)),
                                 next_decision)
        /\ routes' = [d \in Decisions |->
                         IF d = next_decision THEN record
                         ELSE IF d \in victims(route_order) THEN NoRoute
                         ELSE routes[d]]
        /\ Goto(t, after_commit(c, current))
        /\ UNCHANGED <<dispatch_index, next_dispatch, handed>>
        /\ Marks

-----------------------------------------------------------------------------
(* revalidate(): look up, observe, authorize.                               *)

Terminal == {"SUPERSEDED", "COMPLETED", "FAILED"}

\* The first critical section of revalidate, with local state c.
Lookup(t, c, d) ==
    IF shutting_down \/ d \notin Retained \/ routes[d].status \in Terminal
    THEN Return(t)
    ELSE LET a == routes[d].auth
         IN  Goto(t, [c EXCEPT !.dec = d, !.auth = a, !.now = now,
                               !.pc = IF is_fenced(catalog, a.backend, a.boot)
                                      THEN "mark_stale" ELSE "observe"])

revalidate(t, d) ==
    /\ call[t].pc = "idle"
    /\ Lookup(t, [Idle EXCEPT !.op = "revalidate"], d)
    /\ Local

dispatch_revalidate(t) ==
    /\ call[t].pc = "lookup"
    /\ Lookup(t, call[t], call[t].dec)
    /\ Local

\* The clock is read (t0) between the locks.  Then current_authority(), and
\* compare_authority() on the copy it returned.
revalidate_observe(t) ==
    LET c == call[t]
    IN  /\ c.pc = "observe"
        /\ \E t0 \in c.now..now :
              IF ~expired(c.auth.exp, t0) /\ identity_current(catalog, c.auth)
              THEN Goto(t, [c EXCEPT !.pc = "authorize", !.now = t0,
                                     !.cmp = compare_authority(catalog, c.auth)])
              ELSE Goto(t, [c EXCEPT !.pc = "mark_stale"])
        /\ Local

revalidate_mark_stale(t) ==
    LET d == call[t].dec
    IN  /\ call[t].pc = "mark_stale"
        /\ IF d \in Retained THEN SetStatus(d, "STALE") ELSE UNCHANGED routes
        /\ Return(t)
        /\ Marks /\ HistoryUnchanged

reauthorized_by_copy(c) == c.cmp

reauthorized(c) == c.cmp /\ is_authority_dispatchable(catalog, c.auth, c.now)

revalidate_authorize(t) ==
    LET c == call[t]
    IN  /\ c.pc = "authorize"
        /\ \/ c.dec \notin Retained /\ UNCHANGED routes /\ Return(t)
           \/ c.dec \in Retained /\ ~reauthorized(c) /\ SetStatus(c.dec, "STALE") /\ Return(t)
           \/ /\ c.dec \in Retained /\ reauthorized(c)
              /\ SetStatus(c.dec, "CURRENT")
              /\ IF c.op = "dispatch" THEN Goto(t, [c EXCEPT !.pc = "snapshot"]) ELSE Return(t)
        /\ Marks /\ HistoryUnchanged

-----------------------------------------------------------------------------
(* dispatch(): revalidate, re-resolve the target, hand off, record.          *)

dispatch(t, d) ==
    /\ call[t].pc = "idle"
    /\ ~shutting_down
    /\ d \in Retained
    /\ LET a == routes[d].auth
       IN  Goto(t, [Idle EXCEPT !.op = "dispatch", !.pc = "lookup", !.dec = d, !.auth = a,
                                !.gone = <<a.backend, a.boot>> \in catalog.fenced])
    /\ Local

dispatch_snapshot(t) ==
    /\ call[t].pc = "snapshot"
    /\ Goto(t, [call[t] EXCEPT !.pc = "resolve", !.snap = catalog.snap,
                               !.epoch = catalog.epoch, !.now = now])
    /\ Local

\* The bound target is the current incarnation and still eligible.  The request
\* that dispatch rebuilds from the decision has default requirements, and a
\* budget only when the authority binds one.
resolved(c) ==
    LET a == c.auth
    IN  /\ identity_current(catalog, a)
        /\ KeyOf(catalog, a.backend) = BoundKey(a)
        /\ Eligible(catalog.model, a.backend, catalog.backends[a.backend], DefaultNeeds, c.snap,
                    IF a.snap["budget"] # 0 THEN {"budget"} ELSE {}, c.now)
        /\ a.snap["budget"] # 0 => c.snap["budget"].gen = a.snap["budget"]

dispatch_resolve(t) ==
    /\ call[t].pc = "resolve"
    /\ IF resolved(call[t]) THEN Goto(t, [call[t] EXCEPT !.pc = "handoff"]) ELSE Return(t)
    /\ Local

\* External: the dispatch provider accepts the decision or reports a failure.
dispatch_handoff(t, accepted) ==
    LET d == call[t].dec
    IN  /\ call[t].pc = "handoff"
        /\ handed' = [handed EXCEPT ![d] = IF @ < 2 THEN @ + 1 ELSE @]
        /\ IF accepted THEN Goto(t, [call[t] EXCEPT !.pc = "record"]) ELSE Return(t)
        /\ UNCHANGED <<running, shutting_down, catalog, routes, now, route_order,
                       dispatch_index, next_decision, next_dispatch>>
        /\ CatalogUnchanged

dispatch_refused(t) ==
    /\ call[t].pc = "record"
    /\ call[t].dec \notin Retained \/ catalog.epoch # call[t].epoch
    /\ Return(t)
    /\ Local

dispatch_record(t) ==
    LET d == call[t].dec
    IN  /\ call[t].pc = "record"
        /\ d \in Retained
        /\ catalog.epoch = call[t].epoch
        /\ next_dispatch \in Dispatches
        /\ next_dispatch' = allocate(next_dispatch)
        /\ routes' = [routes EXCEPT ![d].status = "DISPATCHED", ![d].dispatch = next_dispatch]
        /\ dispatch_index' = [dispatch_index EXCEPT ![next_dispatch] = d]
        /\ Return(t)
        /\ UNCHANGED <<route_order, next_decision, handed>>
        /\ Marks

completable_early(r) == executable(r)

completable(r) == r.status = "DISPATCHED"

completion_code(success) == IF success THEN "ACCEPTED" ELSE "FAILED"

completion_status(success) == IF success THEN "COMPLETED" ELSE "FAILED"

\* The completion names a dispatch (x # 0) or, without one, a decision.
record_completion(x, d, success) ==
    LET target == IF x = 0 THEN d ELSE dispatch_index[x]
    IN  /\ target \in Retained
        /\ completable(routes[target])
        /\ SetStatus(target, completion_status(success))
        /\ UNCHANGED call
        /\ Marks /\ HistoryUnchanged

-----------------------------------------------------------------------------
(* reroute(): walk the stored fallbacks, then a full pass, then supersede.   *)

reroute(t, d, q) ==
    /\ call[t].pc = "idle"
    /\ d \in Retained
    /\ ~shutting_down
    /\ routes[d].status # "COMPLETED"
    /\ ~expired(q.exp, now)
    /\ catalog.snap["policy"].gen # 0
    /\ q.fallbacks # 0
    /\ Goto(t, [Idle EXCEPT !.op = "reroute", !.pc = "fallback", !.dec = d, !.req = q,
                            !.epoch = catalog.epoch, !.now = now, !.snap = catalog.snap,
                            !.rest = routes[d].fallbacks, !.fb = routes[d].fallbacks])
    /\ Local

bind_after_judging == "bind"

\* The judged copy is bound as it is: the fallback path has no second read.
after_judging == "commit"

\* The fallback candidate is copied from the catalog under one lock, judged, and
\* its authority bound from that copy.
reroute_fallback(t) ==
    LET c    == call[t]
        key  == Head(c.rest)
        b    == key.backend
        gens == Generations(catalog.backends[b])
        next == [c EXCEPT !.rest = Tail(@)]
    IN  /\ c.pc = "fallback"
        /\ c.rest # <<>>
        /\ IF /\ catalog.model.gen # 0 /\ registered(catalog, b)
              /\ KeyOf(catalog, b) = key
              /\ Eligible(catalog.model, b, catalog.backends[b], c.req.needs, c.snap,
                          c.req.uses, c.now)
           THEN Goto(t, [next EXCEPT !.pc = after_judging, !.via = "fallback",
                                     !.auth = authority(c, b, catalog.backends[b].reg, gens),
                                     !.seen = gens])
           ELSE Goto(t, next)
        /\ Local

reroute_exhausted(t) ==
    /\ call[t].pc = "fallback"
    /\ call[t].rest = <<>>
    /\ Goto(t, [call[t] EXCEPT !.pc = "admit"])
    /\ Local

reroute_supersede(t) ==
    LET d == call[t].dec
    IN  /\ call[t].pc = "supersede"
        /\ IF d \in Retained THEN SetStatus(d, "SUPERSEDED") ELSE UNCHANGED routes
        /\ Return(t)
        /\ Marks /\ HistoryUnchanged

-----------------------------------------------------------------------------
Init ==
    /\ running = (Initial.epoch # 0)
    /\ shutting_down = FALSE
    /\ catalog = Initial
    /\ watermark = [b \in Backends |-> Initial.backends[b].gen]
    /\ trust = [b \in Backends |-> NoEvidence]
    /\ index = {<<Initial.backends[b].ev["trust"].st, b>> :
                   b \in {x \in Backends : registered(Initial, x)}}
    /\ routes = [d \in Decisions |-> NoRoute]
    /\ route_order = <<>>
    /\ dispatch_index = [x \in Dispatches |-> 0]
    /\ next_decision = 1
    /\ next_dispatch = 1
    /\ call = [t \in Threads |-> Idle]
    /\ handed = [d \in Decisions |-> 0]
    /\ now = 0

CatalogCall ==
    \/ /\ "register_model" \in Workload
       /\ \E g \in 1..MaxModelGen, life \in Lifecycle : register_model(g, life)
    \/ "retire_model" \in Workload /\ retire_model
    \/ /\ "register_backend" \in Workload
       /\ \E b \in Backends, reg \in 1..MaxReg, g \in 1..MaxBackendGen, boot \in 1..MaxBoot,
             mg \in 1..MaxModelGen, ev \in RegEvidence :
             register_backend(b, [reg |-> reg, gen |-> g, boot |-> boot, mgen |-> mg, ev |-> ev])
    \/ "unregister_backend" \in Workload /\ \E b \in Backends : unregister_backend(b)
    \/ /\ "fence_backend_boot" \in Workload
       /\ \E b \in Backends, g \in FenceGenerations, boot \in 1..MaxBoot :
             fence_backend_boot(b, g, boot)
    \/ /\ "apply_evidence" \in Workload
       /\ \E b \in Backends, k \in BootKinds, boot \in 1..MaxBoot, e \in Publications,
             t0 \in 0..now : apply_evidence(b, k, boot, e, t0)
    \/ /\ "update_latency" \in Workload
       /\ \E b \in Backends, boot \in 1..MaxBoot : update_latency(b, boot)
    \/ /\ "set_trust" \in Workload
       /\ \E b \in Backends, e \in {p \in Publications : p.exp = 0} : set_trust(b, e)
    \/ /\ "set_cost" \in Workload
       /\ \E b \in Backends, e \in Publications : set_cost(b, e)
    \/ /\ "set_snapshot" \in Workload
       /\ \E s \in Snapshots, g \in 1..MaxGen, deny \in Denials : set_snapshot(s, g, deny)

ThreadCall(t) ==
    \/ "start" \in Workload /\ start(t)
    \/ start_publish(t)
    \/ "route" \in Workload /\ \E q \in Requests : route(t, q)
    \/ route_discover(t)
    \/ route_bind(t)
    \/ commit(t)
    \/ commit_refused(t)
    \/ "revalidate" \in Workload /\ \E d \in Decisions : revalidate(t, d)
    \/ revalidate_observe(t)
    \/ revalidate_mark_stale(t)
    \/ revalidate_authorize(t)
    \/ "dispatch" \in Workload /\ \E d \in Decisions : dispatch(t, d)
    \/ dispatch_revalidate(t)
    \/ dispatch_snapshot(t)
    \/ dispatch_resolve(t)
    \/ \E accepted \in BOOLEAN : dispatch_handoff(t, accepted)
    \/ dispatch_refused(t)
    \/ dispatch_record(t)
    \/ "reroute" \in Workload /\ \E d \in Decisions, q \in Requests : reroute(t, d, q)
    \/ reroute_fallback(t)
    \/ reroute_exhausted(t)
    \/ reroute_route(t)
    \/ reroute_supersede(t)

Next ==
    \/ CatalogCall
    \/ \E t \in Threads : ThreadCall(t)
    \/ "shutdown" \in Workload /\ shutdown
    \/ /\ "record_completion" \in Workload
       /\ \E x \in Dispatches \cup {0}, d \in Decisions, success \in BOOLEAN :
             record_completion(x, d, success)
    \/ Tick

Spec == Init /\ [][Next]_vars

-----------------------------------------------------------------------------
(* Properties.                                                              *)

\* Every variable has the type its declaration in router_impl.hpp gives it.
TypeOK ==
    /\ running \in BOOLEAN /\ shutting_down \in BOOLEAN
    /\ catalog \in Catalog
    /\ watermark \in [Backends -> Nat]
    /\ trust \in [Backends -> Evidence]
    /\ index \subseteq EvState \X Backends
    /\ routes \in [Decisions -> RouteRecord]
    /\ route_order \in Seq(Decisions)
    /\ dispatch_index \in [Dispatches -> Decisions \cup {0}]
    /\ next_decision \in Nat \ {0} /\ next_dispatch \in Nat \ {0}
    /\ call \in [Threads -> CallState]
    /\ handed \in [Decisions -> 0..2]
    /\ now \in Nat

\* check_invariants' route_order_consistent and bounded_route_history: eviction
\* and insertion by concurrent commits keep the order list and the route map
\* describing the same decisions, none twice, within max_route_history.
HistoryConsistent ==
    /\ \A i, j \in DOMAIN route_order : route_order[i] = route_order[j] => i = j
    /\ {route_order[i] : i \in DOMAIN route_order} = Retained
    /\ Len(route_order) <= MaxHistory

\* The registration, incarnation, evidence and snapshots authority a names are
\* the ones in c.
still_bound(c, a) ==
    /\ <<a.backend, a.boot>> \notin c.fenced
    /\ registered(c, a.backend)
    /\ LET d == c.backends[a.backend]
       IN  /\ a.bgen = d.gen /\ a.breg = d.reg /\ a.boot = d.boot
           /\ ~draining(d)
           /\ \A k \in required_kinds(a) : a.ev[k] = d.ev[k].gen
    /\ \A s \in required_snaps(a) : a.snap[s] = c.snap[s].gen

\* Whatever calls interleave, a decision that reads CURRENT is bound to a live,
\* unfenced, not draining incarnation under its current registration and to the
\* newest generation of every evidence and snapshot it depends on: no fence,
\* restart, re-registration or publication that lands inside a routing or
\* revalidation pass leaves its decision CURRENT.
CurrentAuthority ==
    \A d \in Decisions : routes[d].status = "CURRENT" => still_bound(catalog, routes[d].auth)

\* Between its critical sections a revalidation keeps a copy of the authority it
\* judges.  Eviction and new commits in between never put another decision under
\* its id: if the id is still retained, its record has the authority of the copy.
JudgesItsRecord ==
    \A t \in Threads : call[t].pc \in {"observe", "authorize"} /\ call[t].dec \in Retained =>
        call[t].auth = routes[call[t].dec].auth

\* A decision recorded as dispatched, completed or failed was really handed to
\* the dispatch provider, and its dispatch id leads record_completion back to it.
CompletionTraceable ==
    \A d \in Decisions : routes[d].status \in {"DISPATCHED", "COMPLETED", "FAILED"} =>
        /\ routes[d].dispatch \in Dispatches
        /\ dispatch_index[routes[d].dispatch] = d
        /\ handed[d] # 0

\* check_invariants' fenced_boot_never_authoritative, for callers that pass
\* fence_backend_boot no generation: no registration, publication or restart
\* brings a fenced incarnation back into the catalog.
FencedNotRegistered ==
    \A b \in Backends : registered(catalog, b) => <<b, catalog.backends[b].boot>> \notin catalog.fenced

\* A dispatch call that begins after its incarnation was fenced never reaches the
\* dispatch provider (test_races.cpp, dispatch revalidation vs backend fencing).
NoHandoffAfterFence == \A t \in Threads : call[t].pc = "handoff" => ~call[t].gone

\* Fences, epochs, policy, budget and SLO generations, model generation and
\* backend watermarks only ever advance, whatever order publications arrive in.
AuthorityMonotone ==
    [][/\ catalog.fenced \subseteq catalog'.fenced
       /\ catalog.epoch <= catalog'.epoch
       /\ catalog.model.gen <= catalog'.model.gen
       /\ \A s \in Snapshots : catalog.snap[s].gen <= catalog'.snap[s].gen
       /\ \A b \in Backends : watermark[b] <= watermark'[b]]_vars

\* check_invariants' index_backends_by_trust: the incrementally maintained index
\* equals a scan of the catalog after every registration, fence and trust change.
IndexMatchesScan ==
    index = {<<catalog.backends[b].ev["trust"].st, b>> :
                b \in {x \in Backends : registered(catalog, x)}}

\* A CURRENT decision made by the fallback path binds exactly the evidence its
\* candidate was judged on ("passes its own fresh revalidation").
FallbackJudged ==
    \A d \in Decisions : routes[d].status = "CURRENT" /\ routes[d].via = "fallback" =>
        \A k \in required_kinds(routes[d].auth) : routes[d].seen[k] = routes[d].auth.ev[k]

\* reroute retires a decision only once it has committed a newer one as CURRENT:
\* a fallback overtaken by a mutation does not take its predecessor with it.
SupersededWasReplaced ==
    \A d \in Decisions : routes[d].status = "SUPERSEDED" =>
        \E e \in Decisions : d < e /\ e < next_decision /\ (routes[e].fresh \/ e \notin Retained)

\* A decision bound to an older epoch that has lost its CURRENT status never gets
\* it back: revalidation across a restart is refused at every interleaving.
OldEpochNeverRevived ==
    [][\A d \in Retained :
          routes[d].status # "CURRENT" /\ routes[d].auth.epoch # catalog.epoch =>
              routes'[d].status # "CURRENT"]_vars

=============================================================================
