---------------------------- MODULE RouterProofs ----------------------------
(***************************************************************************)
(* Theorems about Router, for every value of its constants.                *)
(***************************************************************************)
EXTENDS Router, SequenceTheorems, TLAPS

-----------------------------------------------------------------------------
(* Types of the operators the actions are built from.                       *)

\* The stale pass keeps records well typed.
LEMMA StalePassType ==
    ASSUME NEW c, NEW t, NEW rs \in [Decisions -> RouteRecord]
    PROVE  stale_decisions_for_authority_change(c, rs, t) \in [Decisions -> RouteRecord]
  BY DEF stale_decisions_for_authority_change, stale_decision_if_not_dispatchable,
         RouteRecord, RouteStatus

\* So does the marking of one incarnation's decisions.
LEMMA StaleBackendType ==
    ASSUME NEW b, NEW boot, NEW rs \in [Decisions -> RouteRecord]
    PROVE  stale_decisions_for_backend(rs, b, boot) \in [Decisions -> RouteRecord]
  BY DEF stale_decisions_for_backend, RouteRecord, RouteStatus

\* The generations of a descriptor are natural numbers.
LEMMA GenerationsType ==
    ASSUME NEW d \in Descriptor
    PROVE  Generations(d) \in [Kinds -> Nat]
  BY DEF Generations, Descriptor, Evidence

\* Replacing parts of the catalog.
LEMMA CatalogType ==
    ASSUME NEW c \in Catalog, NEW b \in Backends, NEW k \in Kinds
    PROVE  /\ \A d \in Descriptor : [c EXCEPT !.backends[b] = d] \in Catalog
           /\ \A e \in Evidence : [c EXCEPT !.backends[b].ev[k] = e] \in Catalog
           /\ \A m \in Model : [c EXCEPT !.model = m] \in Catalog
           /\ \A n \in Nat : [c EXCEPT !.epoch = n] \in Catalog
           /\ \A s \in Snapshots, n \in Snapshot : [c EXCEPT !.snap[s] = n] \in Catalog
           /\ [c EXCEPT !.model.life = "RETIRED"] \in Catalog
  BY DEF Catalog, Descriptor, Model, Lifecycle

\* An idle call, an unregistered backend and an unused id are well typed.
LEMMA DefaultTypes ==
    /\ Unregistered \in Descriptor
    /\ NoRoute \in RouteRecord
    /\ Idle \in CallState
    /\ NoAuthority \in RouteAuthority
  <1>1. NoEvidence \in Evidence
    BY DEF NoEvidence, Evidence, EvState
  <1>2. Unregistered \in Descriptor
    BY <1>1 DEF Unregistered, Descriptor
  <1>3. NoAuthority \in RouteAuthority
    BY DEF NoAuthority, RouteAuthority
  <1>4. <<>> \in Seq(CandidateKey)
    BY EmptySeq
  <1>5. NoRoute \in RouteRecord
    BY <1>3, <1>4 DEF NoRoute, RouteRecord
  <1>6. NoRequest \in Request
    BY DEF NoRequest, Request
  <1>7. NoCatalog.snap \in [Snapshots -> Snapshot]
    BY DEF NoCatalog, Snapshot
  <1>8. Idle \in CallState
    BY <1>3, <1>4, <1>6, <1>7 DEF Idle, CallState, Labels, Calls
  <1> QED
    BY <1>2, <1>3, <1>5, <1>8

-----------------------------------------------------------------------------
(* Type correctness.                                                        *)

\* A catalog mutation that ends with the stale pass keeps the types.
LEMMA ApplyPreservesType ==
    ASSUME TypeOK, NEW c \in Catalog, Apply(c)
    PROVE  catalog' \in Catalog /\ routes' \in [Decisions -> RouteRecord]
  BY StalePassType DEF Apply, TypeOK

\* Fencing and erasing an incarnation keeps the types.
LEMMA RetirePreservesType ==
    ASSUME TypeOK, NEW b \in Backends, NEW boot \in Nat, NEW erase \in BOOLEAN,
           Retire(b, boot, erase)
    PROVE  TypeOK'
  <1> DEFINE c == [catalog EXCEPT !.fenced = @ \cup {<<b, boot>>},
                                  !.backends[b] = IF erase THEN Unregistered ELSE @]
  <1>1. c \in Catalog
    <2>1. (IF erase THEN Unregistered ELSE catalog.backends[b]) \in Descriptor
      BY DefaultTypes DEF TypeOK, Catalog
    <2>2. catalog.fenced \cup {<<b, boot>>} \in SUBSET (Backends \X Nat)
      BY DEF TypeOK, Catalog
    <2> QED
      BY <2>1, <2>2 DEF TypeOK, Catalog
  <1>2. routes' \in [Decisions -> RouteRecord]
    <2>1. stale_decisions_for_backend(routes, b, boot) \in [Decisions -> RouteRecord]
      BY StaleBackendType DEF TypeOK
    <2> QED
      BY <2>1, StalePassType DEF Retire
  <1>3. catalog' = c
    BY DEF Retire
  <1>4. index' \subseteq EvState \X Backends
    BY DEF Retire, TypeOK, index_remove_backend
  <1> QED
    BY <1>1, <1>2, <1>3, <1>4 DEF Retire, TypeOK, RestUnchanged

\* The index keeps its type when a backend is removed and added again.
LEMMA IndexType ==
    ASSUME NEW i \in SUBSET (EvState \X Backends), NEW b \in Backends, NEW d \in Descriptor,
           NEW n \in Descriptor
    PROVE  index_add_backend(index_remove_backend(i, b, d), b, n) \in SUBSET (EvState \X Backends)
  <1>1. "trust" \in Kinds
    BY DEF Kinds
  <1>2. n.ev["trust"].st \in EvState
    BY <1>1 DEF Descriptor, Evidence
  <1> QED
    BY <1>2 DEF index_remove_backend, index_add_backend

\* Every catalog mutation keeps the types.
LEMMA CatalogCallType ==
    ASSUME TypeOK, CatalogCall
    PROVE  TypeOK'
  <1> USE RouterAssumption
  <1>1. ASSUME NEW g \in 1..MaxModelGen, NEW life \in Lifecycle, register_model(g, life)
        PROVE  TypeOK'
    <2>1. [gen |-> g, life |-> life] \in Model
      BY DEF Model
    <2>2. catalog' \in Catalog
      BY <1>1, <2>1 DEF register_model, TypeOK, Catalog
    <2> QED
      BY <1>1, <2>2 DEF register_model, TypeOK, RestUnchanged
  <1>2. ASSUME retire_model PROVE TypeOK'
    <2>1. [catalog EXCEPT !.model.life = "RETIRED"] \in Catalog
      BY DEF TypeOK, Catalog, Model, Lifecycle
    <2>2. catalog' \in Catalog /\ routes' \in [Decisions -> RouteRecord]
      BY <1>2, <2>1, ApplyPreservesType DEF retire_model
    <2> QED
      BY <1>2, <2>2 DEF retire_model, TypeOK, RestUnchanged
  <1>3. ASSUME NEW b \in Backends, NEW d \in Descriptor, register_backend(b, d)
        PROVE  TypeOK'
    <2>1. [catalog EXCEPT !.backends[b] = d] \in Catalog
      BY DEF TypeOK, Catalog
    <2>2. catalog' \in Catalog /\ routes' \in [Decisions -> RouteRecord]
      BY <1>3, <2>1, ApplyPreservesType DEF register_backend
    <2>3. catalog.backends[b] \in Descriptor
      BY DEF TypeOK, Catalog
    <2>4. index' \subseteq EvState \X Backends
      <3>1. index \in SUBSET (EvState \X Backends)
        BY DEF TypeOK
      <3> QED
        BY <1>3, <2>3, <3>1, IndexType DEF register_backend
    <2>5. watermark' \in [Backends -> Nat]
      BY <1>3 DEF register_backend, TypeOK, Descriptor
    <2> QED
      BY <1>3, <2>2, <2>4, <2>5 DEF register_backend, TypeOK, RestUnchanged
  <1>4. ASSUME NEW b \in Backends, unregister_backend(b) PROVE TypeOK'
    <2>1. catalog.backends[b].boot \in Nat
      BY DEF TypeOK, Catalog, Descriptor
    <2> QED
      BY <1>4, <2>1, RetirePreservesType DEF unregister_backend
  <1>5. ASSUME NEW b \in Backends, NEW g, NEW boot \in 1..MaxBoot, fence_backend_boot(b, g, boot)
        PROVE  TypeOK'
    <2>1. retires_current(catalog.backends[b], g, boot) \in BOOLEAN
      BY DEF retires_current
    <2> QED
      BY <1>5, <2>1, RetirePreservesType DEF fence_backend_boot
  <1>6. ASSUME NEW b \in Backends, NEW k \in BootKinds, NEW boot, NEW e \in Publications, NEW t0,
               apply_evidence(b, k, boot, e, t0)
        PROVE  TypeOK'
    <2>1. k \in Kinds /\ e \in Evidence
      BY DEF Kinds
    <2>2. [catalog EXCEPT !.backends[b].ev[k] = e] \in Catalog
      BY <2>1, CatalogType DEF TypeOK
    <2>3. catalog' \in Catalog /\ routes' \in [Decisions -> RouteRecord]
      BY <1>6, <2>2, StalePassType DEF apply_evidence, TypeOK
    <2> QED
      BY <1>6, <2>3 DEF apply_evidence, TypeOK, RestUnchanged
  <1>7. ASSUME NEW b, NEW boot, update_latency(b, boot) PROVE TypeOK'
    <2>1. catalog' \in Catalog /\ routes' \in [Decisions -> RouteRecord]
      BY <1>7, ApplyPreservesType DEF update_latency, TypeOK
    <2> QED
      BY <1>7, <2>1 DEF update_latency, TypeOK, RestUnchanged
  <1>8. ASSUME NEW b \in Backends, NEW e \in Publications, set_trust(b, e) PROVE TypeOK'
    <2> DEFINE d == catalog.backends[b]
               n == [d EXCEPT !.ev["trust"] = e]
    <2>1. d \in Descriptor /\ e \in Evidence
      BY DEF TypeOK, Catalog
    <2>2. n \in Descriptor
      BY <2>1 DEF Descriptor
    <2>3. [catalog EXCEPT !.backends[b] = n] \in Catalog
      BY <2>2 DEF TypeOK, Catalog
    <2>4. catalog' \in Catalog /\ routes' \in [Decisions -> RouteRecord]
      <3>1. catalog \in Catalog
        BY DEF TypeOK
      <3> QED
        BY <1>8, <2>3, <3>1, ApplyPreservesType DEF set_trust
    <2>5. index' \subseteq EvState \X Backends
      <3>1. index \in SUBSET (EvState \X Backends)
        BY DEF TypeOK
      <3>2. index_add_backend(index_remove_backend(index, b, d), b, n)
                \in SUBSET (EvState \X Backends)
        <4> HIDE DEF d, n
        <4> QED BY <2>1, <2>2, <3>1, IndexType
      <3>3. \/ index' = index
            \/ index' = index_add_backend(index_remove_backend(index, b, d), b, n)
        BY <1>8 DEF set_trust
      <3> QED
        BY <3>1, <3>2, <3>3
    <2>6. trust' \in [Backends -> Evidence]
      BY <1>8, <2>1 DEF set_trust, TypeOK
    <2> QED
      BY <1>8, <2>4, <2>5, <2>6 DEF set_trust, TypeOK, RestUnchanged
  <1>9. ASSUME NEW b \in Backends, NEW e \in Publications, set_cost(b, e) PROVE TypeOK'
    <2>1. "price" \in Kinds /\ e \in Evidence
      BY DEF Kinds
    <2>2. [catalog EXCEPT !.backends[b].ev["price"] = e] \in Catalog
      BY <2>1, CatalogType DEF TypeOK
    <2>3. catalog' \in Catalog /\ routes' \in [Decisions -> RouteRecord]
      BY <1>9, <2>2, ApplyPreservesType DEF set_cost
    <2> QED
      BY <1>9, <2>3 DEF set_cost, TypeOK, RestUnchanged
  <1>10. ASSUME NEW s \in Snapshots, NEW g \in 1..MaxGen, NEW deny \in Denials,
                set_snapshot(s, g, deny)
         PROVE  TypeOK'
    <2>1. [gen |-> g, deny |-> deny] \in Snapshot
      BY DEF Snapshot
    <2>2. [catalog EXCEPT !.snap[s] = [gen |-> g, deny |-> deny]] \in Catalog
      BY <2>1 DEF TypeOK, Catalog
    <2>3. catalog' \in Catalog /\ routes' \in [Decisions -> RouteRecord]
      BY <1>10, <2>2, ApplyPreservesType DEF set_snapshot
    <2> QED
      BY <1>10, <2>3 DEF set_snapshot, TypeOK, RestUnchanged
  <1>11. ASSUME NEW reg \in 1..MaxReg, NEW g \in 1..MaxBackendGen, NEW boot \in 1..MaxBoot,
                NEW mg \in 1..MaxModelGen, NEW ev \in RegEvidence
         PROVE  [reg |-> reg, gen |-> g, boot |-> boot, mgen |-> mg, ev |-> ev] \in Descriptor
    BY DEF Descriptor
  <1> QED
    BY <1>1, <1>2, <1>3, <1>4, <1>5, <1>6, <1>7, <1>8, <1>9, <1>10, <1>11 DEF CatalogCall

-----------------------------------------------------------------------------
(* Types of what a call in progress computes.                               *)

\* A prefix or a suffix of a sequence, cut anywhere, is a sequence.
LEMMA CutType ==
    ASSUME NEW S, NEW s \in Seq(S), NEW m \in 1..Len(s)+1, NEW n \in 0..Len(s)
    PROVE  SubSeq(s, m, n) \in Seq(S)
  <1>1. Len(s) \in Nat
    BY LenProperties
  <1>2. m \in Int /\ n \in Int /\ \A i \in m..n : i \in 1..Len(s)
    BY <1>1
  <1>3. \A i \in m..n : s[i] \in S
    BY <1>2, ElementOfSeq
  <1> QED
    BY <1>2, <1>3, SubSeqProperties

\* Dropping the committed key from a fallback order leaves a fallback order.
LEMMA WithoutType ==
    ASSUME NEW s \in Seq(CandidateKey), NEW key
    PROVE  without(s, key) \in Seq(CandidateKey)
  <1>1. CASE \E i \in 1..Len(s) : s[i] = key
    <2> DEFINE i == CHOOSE i \in 1..Len(s) : s[i] = key
    <2>1. i \in 1..Len(s)
      BY <1>1
    <2>2. Len(s) \in Nat
      BY LenProperties
    <2> HIDE DEF i
    <2>3. /\ i - 1 \in 0..Len(s) /\ 1 \in 1..Len(s)+1
          /\ i + 1 \in 1..Len(s)+1 /\ Len(s) \in 0..Len(s)
      BY <2>1, <2>2
    <2>4. /\ SubSeq(s, 1, i - 1) \in Seq(CandidateKey)
          /\ SubSeq(s, i + 1, Len(s)) \in Seq(CandidateKey)
      BY <2>3, CutType
    <2>5. SubSeq(s, 1, i - 1) \o SubSeq(s, i + 1, Len(s)) \in Seq(CandidateKey)
      BY <2>4, ConcatProperties
    <2> QED
      BY <1>1, <2>5 DEF without, i
  <1>2. CASE ~\E i \in 1..Len(s) : s[i] = key
    BY <1>2 DEF without
  <1> QED
    BY <1>1, <1>2

\* A committed decision stores a well-typed fallback order.
LEMMA CommittedFallbacksType ==
    ASSUME NEW c \in CallState
    PROVE  committed_fallbacks(c) \in Seq(CandidateKey)
  <1> DEFINE others == without(c.fb, BoundKey(c.auth))
  <1>1. c.fb \in Seq(CandidateKey) /\ c.req.fallbacks \in Nat
    BY DEF CallState, Request
  <1>2. others \in Seq(CandidateKey)
    BY <1>1, WithoutType
  <1> HIDE DEF others
  <1>3. ASSUME ~(Len(others) <= c.req.fallbacks)
        PROVE  SubSeq(others, 1, c.req.fallbacks) \in Seq(CandidateKey)
    <2>1. Len(others) \in Nat
      BY <1>2, LenProperties
    <2>2. 1 \in 1..Len(others)+1 /\ c.req.fallbacks \in 0..Len(others)
      BY <1>1, <1>3, <2>1
    <2> QED
      BY <1>2, <2>2, CutType
  <1> QED
    BY <1>1, <1>2, <1>3 DEF committed_fallbacks, others

\* The authority built for a candidate is an authority.
LEMMA AuthorityType ==
    ASSUME TypeOK, NEW c \in CallState, NEW b \in Backends, NEW reg \in Nat,
           NEW gens \in [Kinds -> Nat]
    PROVE  authority(c, b, reg, gens) \in RouteAuthority
  <1>1. bound_snapshots(c) \in [Snapshots -> Nat]
    BY DEF bound_snapshots, CallState, Snapshot
  <1>2. c.epoch \in Nat /\ c.req.exp \in Nat
    BY DEF CallState, Request
  <1>3. /\ catalog.model.gen \in Nat
        /\ catalog.backends[b].gen \in Nat /\ catalog.backends[b].boot \in Nat
    BY DEF TypeOK, Catalog, Model, Descriptor
  <1> QED
    BY <1>1, <1>2, <1>3 DEF authority, RouteAuthority

\* The fallback keys of a ranked tail form a sequence.
LEMMA FallbackKeysType ==
    ASSUME TypeOK, NEW S \in SUBSET Backends, NEW n \in Nat, NEW f \in fallback_orders(S, n)
    PROVE  [i \in DOMAIN f |-> KeyOf(catalog, f[i])] \in Seq(CandidateKey)
  <1>1. PICK k \in 0..n : f \in [1..k -> S]
    BY DEF fallback_orders
  <1>2. \A b \in Backends : KeyOf(catalog, b) \in CandidateKey
    BY DEF KeyOf, CandidateKey, TypeOK, Catalog, Model, Descriptor
  <1>3. [i \in DOMAIN f |-> KeyOf(catalog, f[i])] \in [1..k -> CandidateKey]
    BY <1>1, <1>2
  <1>4. k \in Nat
    BY <1>1
  <1> QED
    BY <1>3, <1>4, SeqDef

\* Eviction removes at most the whole history.
LEMMA ExcessType ==
    ASSUME NEW S, NEW s \in Seq(S)
    PROVE  excess(s) \in 0..Len(s)
  BY LenProperties, RouterAssumption DEF excess

\* A step that only changes its thread's local state keeps the types.
LEMMA LocalType ==
    ASSUME TypeOK, NEW t \in Threads, NEW c \in CallState, Goto(t, c), Local
    PROVE  TypeOK'
  BY DEF TypeOK, Goto, Local, CatalogUnchanged, HistoryUnchanged

\* So does one that also sets the status of a retained decision.
LEMMA SetStatusType ==
    ASSUME TypeOK, NEW d \in Decisions, NEW st \in RouteStatus, SetStatus(d, st)
    PROVE  routes' \in [Decisions -> RouteRecord]
  BY DEF TypeOK, SetStatus, RouteRecord

-----------------------------------------------------------------------------
(* Every step of a call keeps the types.                                    *)

\* start() in its two critical sections.
LEMMA StartType ==
    ASSUME TypeOK, NEW t \in Threads, start(t) \/ start_publish(t)
    PROVE  TypeOK'
  <1>1. CASE start(t)
    <2>1. [Idle EXCEPT !.pc = "publish", !.op = "start"] \in CallState
      BY DefaultTypes DEF CallState, Labels, Calls
    <2> QED
      BY <1>1, <2>1 DEF start, TypeOK, Goto, CatalogUnchanged, HistoryUnchanged
  <1>2. CASE start_publish(t)
    <2>1. Idle \in CallState
      BY DefaultTypes
    <2>2. catalog' \in Catalog
      <3>1. [catalog EXCEPT !.epoch = catalog.epoch + 1] \in Catalog
        <4>1. catalog.epoch + 1 \in Nat
          BY DEF TypeOK, Catalog
        <4>2. \A n \in Nat : [catalog EXCEPT !.epoch = n] \in Catalog
          BY DEF TypeOK, Catalog
        <4> QED
          BY <4>1, <4>2
      <3>2. catalog \in Catalog
        BY DEF TypeOK
      <3> QED
        BY <1>2, <3>1, <3>2 DEF start_publish
    <2>3. running' \in BOOLEAN /\ shutting_down' \in BOOLEAN
      BY <1>2 DEF start_publish, TypeOK
    <2> QED
      BY <1>2, <2>1, <2>2, <2>3
      DEF start_publish, TypeOK, Return, Goto, CatalogUnchanged, HistoryUnchanged
  <1> QED
    BY <1>1, <1>2

\* Admission, discovery and binding of a routing pass.
LEMMA RoutePassType ==
    ASSUME TypeOK, NEW t \in Threads,
           \/ \E q \in Requests : route(t, q)
           \/ reroute_route(t) \/ route_discover(t) \/ route_bind(t)
    PROVE  TypeOK'
  <1> DEFINE c == call[t]
  <1>1. c \in CallState /\ Idle \in CallState
    BY DefaultTypes DEF TypeOK
  <1>2. ASSUME NEW k \in CallState, NEW t0 \in 0..now
        PROVE  Admitted(k, t0) \in CallState
    <2>1. catalog.epoch \in Nat /\ catalog.snap \in [Snapshots -> Snapshot] /\ t0 \in Nat
      BY DEF TypeOK, Catalog
    <2> QED
      BY <2>1 DEF Admitted, CallState, Labels
  <1>3. ASSUME NEW q \in Requests, route(t, q) PROVE TypeOK'
    <2>1. [Idle EXCEPT !.op = "route", !.req = q] \in CallState
      BY <1>1, RouterAssumption DEF CallState, Calls
    <2> QED
      BY <1>2, <1>3, <2>1, LocalType DEF route
  <1>4. CASE reroute_route(t)
    BY <1>1, <1>2, <1>4, LocalType DEF reroute_route, Return
  <1>5. CASE route_discover(t)
    <2>1. ASSUME NEW w \in candidates(c),
                 NEW f \in fallback_orders(candidates(c) \ {w}, c.req.fallbacks)
          PROVE  LET seen == Generations(catalog.backends[w])
                     ev   == [k \in Kinds |-> IF k = "price" THEN seen[k] ELSE 0]
                 IN  [c EXCEPT !.pc = "bind", !.seen = seen, !.auth = authority(c, w, 0, ev),
                               !.fb = [i \in DOMAIN f |-> KeyOf(catalog, f[i])]] \in CallState
      <3> DEFINE seen == Generations(catalog.backends[w])
                 ev   == [k \in Kinds |-> IF k = "price" THEN seen[k] ELSE 0]
                 fb   == [i \in DOMAIN f |-> KeyOf(catalog, f[i])]
      <3>1. w \in Backends /\ candidates(c) \ {w} \in SUBSET Backends /\ c.req.fallbacks \in Nat
        BY <1>1 DEF candidates, CallState, Request
      <3>2. seen \in [Kinds -> Nat]
        BY <3>1, GenerationsType DEF TypeOK, Catalog
      <3>3. ev \in [Kinds -> Nat]
        BY <3>2
      <3>4. fb \in Seq(CandidateKey)
        BY <3>1, FallbackKeysType
      <3> HIDE DEF seen, ev, fb
      <3>5. authority(c, w, 0, ev) \in RouteAuthority
        BY <1>1, <3>1, <3>3, AuthorityType
      <3>6. [c EXCEPT !.pc = "bind", !.seen = seen, !.auth = authority(c, w, 0, ev), !.fb = fb]
                \in CallState
        BY <1>1, <3>2, <3>4, <3>5 DEF CallState, Labels
      <3> QED
        BY <3>6 DEF seen, ev, fb
    <2> QED
      BY <1>1, <1>5, <2>1, LocalType DEF route_discover, Return
  <1>6. CASE route_bind(t)
    <2>1. bound_evidence(c.auth) \in [Kinds -> Nat]
      <3>1. c.auth.ev \in [Kinds -> Nat]
        BY <1>1 DEF CallState, RouteAuthority
      <3>2. ASSUME registered(catalog, c.auth.backend), NEW k \in Kinds
            PROVE  catalog.backends[c.auth.backend].ev[k].gen \in Nat
        BY <3>2 DEF registered, TypeOK, Catalog, Descriptor, Evidence
      <3> QED
        BY <3>1, <3>2 DEF bound_evidence
    <2>2. bound_registration(c.auth) \in Nat
      BY <1>1 DEF bound_registration, registered, TypeOK, Catalog, Descriptor, CallState,
                  RouteAuthority
    <2>3. [c EXCEPT !.pc = "commit", !.auth.ev = bound_evidence(c.auth),
                    !.auth.breg = bound_registration(c.auth)] \in CallState
      BY <1>1, <2>1, <2>2 DEF CallState, RouteAuthority, Labels
    <2> QED
      BY <1>6, <2>3, LocalType DEF route_bind
  <1> QED
    BY <1>3, <1>4, <1>5, <1>6

\* The commit of a decision.
LEMMA CommitType ==
    ASSUME TypeOK, NEW t \in Threads, commit(t) \/ commit_refused(t)
    PROVE  TypeOK'
  <1> DEFINE c == call[t]
  <1>1. c \in CallState /\ Idle \in CallState
    BY DefaultTypes DEF TypeOK
  <1>2. \A current : after_commit(c, current) \in CallState
    BY <1>1 DEF after_commit, CallState, Labels
  <1>3. CASE commit_refused(t)
    BY <1>2, <1>3, LocalType DEF commit_refused
  <1>4. CASE commit(t)
    <2> DEFINE current == is_authority_dispatchable(catalog, c.auth, c.now)
               record  == [status |-> IF current THEN "CURRENT" ELSE "STALE", auth |-> c.auth,
                           fallbacks |-> committed_fallbacks(c), dispatch |-> 0,
                           seen |-> c.seen, via |-> c.via, fresh |-> current]
    <2>1. current \in BOOLEAN
      BY DEF is_authority_dispatchable
    <2>2. record \in RouteRecord
      <3> HIDE DEF current
      <3>1. committed_fallbacks(c) \in Seq(CandidateKey)
        BY <1>1, CommittedFallbacksType
      <3> QED
        BY <1>1, <2>1, <3>1 DEF RouteRecord, RouteStatus, CallState
    <2>3. routes' \in [Decisions -> RouteRecord]
      <3>1. routes' = [d \in Decisions |-> IF d = next_decision THEN record
                                           ELSE IF d \in victims(route_order) THEN NoRoute
                                           ELSE routes[d]]
        BY <1>4 DEF commit
      <3> HIDE DEF record
      <3> QED
        BY <2>2, <3>1, DefaultTypes DEF TypeOK
    <2>4. route_order' \in Seq(Decisions)
      <3>1. route_order \in Seq(Decisions) /\ next_decision \in Decisions
        BY <1>4 DEF commit, TypeOK
      <3>2. Len(route_order) \in Nat /\ excess(route_order) \in 0..Len(route_order)
        BY <3>1, LenProperties, ExcessType
      <3>3. /\ excess(route_order) + 1 \in 1..Len(route_order) + 1
            /\ Len(route_order) \in 0..Len(route_order)
        BY <3>2
      <3>4. SubSeq(route_order, excess(route_order) + 1, Len(route_order)) \in Seq(Decisions)
        BY <3>1, <3>3, CutType
      <3> QED
        BY <1>4, <3>1, <3>4, AppendProperties DEF commit
    <2>5. call' \in [Threads -> CallState]
      BY <1>2, <1>4 DEF commit, Goto, TypeOK
    <2>6. next_decision' \in Nat \ {0}
      BY <1>4 DEF commit, TypeOK, allocate
    <2> QED
      BY <1>4, <2>3, <2>4, <2>5, <2>6 DEF commit, TypeOK, Marks, CatalogUnchanged
  <1> QED
    BY <1>3, <1>4

\* revalidate(), alone or as the first part of dispatch().
LEMMA RevalidateType ==
    ASSUME TypeOK, NEW t \in Threads,
           \/ \E d \in Decisions : revalidate(t, d)
           \/ dispatch_revalidate(t) \/ revalidate_observe(t)
           \/ revalidate_mark_stale(t) \/ revalidate_authorize(t)
    PROVE  TypeOK'
  <1> DEFINE c == call[t]
  <1>1. c \in CallState /\ Idle \in CallState
    BY DefaultTypes DEF TypeOK
  <1>2. ASSUME NEW k \in CallState, NEW d, Lookup(t, k, d), Local PROVE TypeOK'
    <2>1. CASE shutting_down \/ d \notin Retained \/ routes[d].status \in Terminal
      BY <1>1, <1>2, <2>1, LocalType DEF Lookup, Return
    <2>2. CASE ~(shutting_down \/ d \notin Retained \/ routes[d].status \in Terminal)
      <3> DEFINE a  == routes[d].auth
                 pc == IF is_fenced(catalog, a.backend, a.boot)
                       THEN "mark_stale" ELSE "observe"
      <3>1. d \in Nat /\ a \in RouteAuthority /\ now \in Nat /\ pc \in Labels
        BY <2>2 DEF Retained, Decisions, TypeOK, RouteRecord, Labels
      <3>2. Goto(t, [k EXCEPT !.dec = d, !.auth = a, !.now = now, !.pc = pc])
        BY <1>2, <2>2 DEF Lookup
      <3> HIDE DEF a, pc
      <3>3. [k EXCEPT !.dec = d, !.auth = a, !.now = now, !.pc = pc] \in CallState
        BY <3>1 DEF CallState
      <3> QED
        BY <1>2, <3>2, <3>3, LocalType
    <2> QED
      BY <2>1, <2>2
  <1>3. ASSUME NEW d \in Decisions, revalidate(t, d) PROVE TypeOK'
    <2>1. [Idle EXCEPT !.op = "revalidate"] \in CallState
      BY <1>1 DEF CallState, Calls
    <2> QED
      BY <1>2, <1>3, <2>1 DEF revalidate
  <1>4. CASE dispatch_revalidate(t)
    BY <1>1, <1>2, <1>4 DEF dispatch_revalidate
  <1>5. CASE revalidate_observe(t)
    <2>1. compare_authority(catalog, c.auth) \in BOOLEAN
      BY DEF compare_authority
    <2>2. ASSUME NEW t0 \in c.now..now
          PROVE  [c EXCEPT !.pc = "authorize", !.now = t0,
                           !.cmp = compare_authority(catalog, c.auth)] \in CallState
      <3>1. c.now \in Nat /\ now \in Nat
        BY <1>1 DEF CallState, TypeOK
      <3>2. t0 \in Nat
        BY <3>1
      <3> QED
        BY <1>1, <2>1, <3>2 DEF CallState, Labels
    <2>3. [c EXCEPT !.pc = "mark_stale"] \in CallState
      BY <1>1 DEF CallState, Labels
    <2> QED
      BY <1>5, <2>2, <2>3, LocalType DEF revalidate_observe
  <1>6. CASE revalidate_mark_stale(t)
    <2>1. routes' \in [Decisions -> RouteRecord]
      BY <1>6, SetStatusType DEF revalidate_mark_stale, Retained, TypeOK, RouteStatus
    <2> QED
      BY <1>1, <1>6, <2>1
      DEF revalidate_mark_stale, TypeOK, Return, Goto, Marks, CatalogUnchanged, HistoryUnchanged
  <1>7. CASE revalidate_authorize(t)
    <2>1. routes' \in [Decisions -> RouteRecord]
      BY <1>7, SetStatusType DEF revalidate_authorize, Retained, TypeOK, RouteStatus
    <2>2. [c EXCEPT !.pc = "snapshot"] \in CallState
      BY <1>1 DEF CallState, Labels
    <2>3. call' \in [Threads -> CallState]
      BY <1>1, <1>7, <2>2 DEF revalidate_authorize, TypeOK, Return, Goto
    <2> QED
      BY <1>7, <2>1, <2>3
      DEF revalidate_authorize, TypeOK, Marks, CatalogUnchanged, HistoryUnchanged
  <1> QED
    BY <1>3, <1>4, <1>5, <1>6, <1>7

\* dispatch(), before and after its revalidation.
LEMMA DispatchType ==
    ASSUME TypeOK, NEW t \in Threads,
           \/ \E d \in Decisions : dispatch(t, d)
           \/ dispatch_snapshot(t) \/ dispatch_resolve(t) \/ dispatch_refused(t)
           \/ \E accepted \in BOOLEAN : dispatch_handoff(t, accepted)
           \/ dispatch_record(t)
    PROVE  TypeOK'
  <1> DEFINE c == call[t]
  <1>1. c \in CallState /\ Idle \in CallState
    BY DefaultTypes DEF TypeOK
  <1>2. ASSUME NEW d \in Decisions, dispatch(t, d) PROVE TypeOK'
    <2> DEFINE a    == routes[d].auth
               gone == <<a.backend, a.boot>> \in catalog.fenced
    <2>1. a \in RouteAuthority /\ gone \in BOOLEAN /\ d \in Nat
      <3>1. a \in RouteAuthority
        BY DEF TypeOK, RouteRecord
      <3>2. gone \in BOOLEAN
        OBVIOUS
      <3>3. d \in Nat
        BY DEF Decisions
      <3> QED
        BY <3>1, <3>2, <3>3
    <2>2. Goto(t, [Idle EXCEPT !.op = "dispatch", !.pc = "lookup", !.dec = d, !.auth = a,
                               !.gone = gone])
      BY <1>2 DEF dispatch
    <2> HIDE DEF a, gone
    <2>3. [Idle EXCEPT !.op = "dispatch", !.pc = "lookup", !.dec = d, !.auth = a, !.gone = gone]
              \in CallState
      BY <1>1, <2>1 DEF CallState, Labels, Calls
    <2> QED
      BY <1>2, <2>2, <2>3, LocalType DEF dispatch
  <1>3. CASE dispatch_snapshot(t)
    <2>1. catalog.snap \in [Snapshots -> Snapshot] /\ catalog.epoch \in Nat /\ now \in Nat
      BY DEF TypeOK, Catalog
    <2>2. [c EXCEPT !.pc = "resolve", !.snap = catalog.snap, !.epoch = catalog.epoch, !.now = now]
              \in CallState
      BY <1>1, <2>1 DEF CallState, Labels
    <2> QED
      BY <1>3, <2>2, LocalType DEF dispatch_snapshot
  <1>4. CASE dispatch_resolve(t)
    <2>1. [c EXCEPT !.pc = "handoff"] \in CallState
      BY <1>1 DEF CallState, Labels
    <2> QED
      BY <1>1, <1>4, <2>1, LocalType DEF dispatch_resolve, Return
  <1>5. CASE dispatch_refused(t)
    BY <1>1, <1>5, LocalType DEF dispatch_refused, Return
  <1>6. ASSUME NEW accepted \in BOOLEAN, dispatch_handoff(t, accepted) PROVE TypeOK'
    <2>1. [c EXCEPT !.pc = "record"] \in CallState
      BY <1>1 DEF CallState, Labels
    <2>2. call' \in [Threads -> CallState]
      BY <1>1, <1>6, <2>1 DEF dispatch_handoff, TypeOK, Return, Goto
    <2>3. handed' \in [Decisions -> 0..2]
      <3> DEFINE n(d) == IF handed[d] < 2 THEN handed[d] + 1 ELSE handed[d]
      <3>1. handed \in [Decisions -> 0..2]
        BY DEF TypeOK
      <3>2. \A d \in Decisions : n(d) \in 0..2
        BY <3>1
      <3>3. handed' = [handed EXCEPT ![c.dec] = n(c.dec)]
        BY <1>6 DEF dispatch_handoff
      <3> HIDE DEF n
      <3> QED
        BY <3>1, <3>2, <3>3
    <2> QED
      BY <1>6, <2>2, <2>3 DEF dispatch_handoff, TypeOK, CatalogUnchanged
  <1>7. CASE dispatch_record(t)
    <2>1. /\ c.dec \in Decisions /\ next_dispatch \in Dispatches /\ next_dispatch \in Nat
      BY <1>7 DEF dispatch_record, Retained, TypeOK
    <2>2. routes' \in [Decisions -> RouteRecord]
      <3> DEFINE r == [routes[c.dec] EXCEPT !.status = "DISPATCHED", !.dispatch = next_dispatch]
      <3>1. routes[c.dec] \in RouteRecord /\ routes \in [Decisions -> RouteRecord]
        BY <2>1 DEF TypeOK
      <3>2. r \in RouteRecord
        BY <2>1, <3>1 DEF RouteRecord, RouteStatus
      <3>3. routes' = [routes EXCEPT ![c.dec] = r]
        BY <1>7, <2>1, <3>1 DEF dispatch_record
      <3> HIDE DEF r
      <3> QED
        BY <3>1, <3>2, <3>3
    <2>3. dispatch_index' \in [Dispatches -> Decisions \cup {0}]
      BY <1>7, <2>1 DEF dispatch_record, TypeOK
    <2>4. next_dispatch' \in Nat \ {0}
      BY <1>7, <2>1 DEF dispatch_record, allocate
    <2> QED
      BY <1>1, <1>7, <2>2, <2>3, <2>4
      DEF dispatch_record, TypeOK, Return, Goto, Marks, CatalogUnchanged
  <1> QED
    BY <1>2, <1>3, <1>4, <1>5, <1>6, <1>7

\* reroute() outside the passes it shares with route().
LEMMA RerouteType ==
    ASSUME TypeOK, NEW t \in Threads,
           \/ \E d \in Decisions, q \in Requests : reroute(t, d, q)
           \/ reroute_fallback(t) \/ reroute_exhausted(t) \/ reroute_supersede(t)
    PROVE  TypeOK'
  <1> DEFINE c == call[t]
  <1>1. c \in CallState /\ Idle \in CallState
    BY DefaultTypes DEF TypeOK
  <1>2. ASSUME NEW d \in Decisions, NEW q \in Requests, reroute(t, d, q) PROVE TypeOK'
    <2> DEFINE f == routes[d].fallbacks
    <2>1. /\ q \in Request /\ d \in Nat /\ f \in Seq(CandidateKey)
          /\ catalog.epoch \in Nat /\ catalog.snap \in [Snapshots -> Snapshot] /\ now \in Nat
      BY RouterAssumption DEF TypeOK, RouteRecord, Decisions, Catalog
    <2>2. Goto(t, [Idle EXCEPT !.op = "reroute", !.pc = "fallback", !.dec = d, !.req = q,
                               !.epoch = catalog.epoch, !.now = now, !.snap = catalog.snap,
                               !.rest = f, !.fb = f])
      BY <1>2 DEF reroute
    <2> HIDE DEF f
    <2>3. [Idle EXCEPT !.op = "reroute", !.pc = "fallback", !.dec = d, !.req = q,
                       !.epoch = catalog.epoch, !.now = now, !.snap = catalog.snap,
                       !.rest = f, !.fb = f] \in CallState
      BY <1>1, <2>1 DEF CallState, Labels, Calls
    <2> QED
      BY <1>2, <2>2, <2>3, LocalType DEF reroute
  <1>3. CASE reroute_fallback(t)
    <2> DEFINE key  == Head(c.rest)
               b    == key.backend
               gens == Generations(catalog.backends[b])
               next == [c EXCEPT !.rest = Tail(@)]
               reg  == catalog.backends[b].reg
               pick == [next EXCEPT !.pc = after_judging, !.via = "fallback",
                                    !.auth = authority(c, b, reg, gens), !.seen = gens]
    <2>1. c.rest \in Seq(CandidateKey) /\ c.rest # <<>>
      BY <1>1, <1>3 DEF CallState, reroute_fallback
    <2>2. key \in CandidateKey /\ Tail(c.rest) \in Seq(CandidateKey)
      BY <2>1, HeadTailProperties
    <2>3. next \in CallState
      BY <1>1, <2>2 DEF CallState
    <2>4. b \in Backends
      BY <2>2 DEF CandidateKey
    <2>5. gens \in [Kinds -> Nat] /\ reg \in Nat
      BY <2>4, GenerationsType DEF TypeOK, Catalog, Descriptor
    <2> HIDE DEF b, gens, reg
    <2>6. authority(c, b, reg, gens) \in RouteAuthority
      BY <1>1, <2>4, <2>5, AuthorityType
    <2> HIDE DEF next
    <2>7. pick \in CallState
      BY <2>3, <2>5, <2>6 DEF CallState, Labels, after_judging
    <2>8. Goto(t, pick) \/ Goto(t, next)
      BY <1>3 DEF reroute_fallback, next, b, gens, reg
    <2> HIDE DEF pick
    <2> QED
      BY <1>3, <2>3, <2>7, <2>8, LocalType DEF reroute_fallback
  <1>4. CASE reroute_exhausted(t)
    <2>1. [c EXCEPT !.pc = "admit"] \in CallState
      BY <1>1 DEF CallState, Labels
    <2> QED
      BY <1>4, <2>1, LocalType DEF reroute_exhausted
  <1>5. CASE reroute_supersede(t)
    <2>1. routes' \in [Decisions -> RouteRecord]
      BY <1>5, SetStatusType DEF reroute_supersede, Retained, TypeOK, RouteStatus
    <2> QED
      BY <1>1, <1>5, <2>1
      DEF reroute_supersede, TypeOK, Return, Goto, Marks, CatalogUnchanged, HistoryUnchanged
  <1> QED
    BY <1>2, <1>3, <1>4, <1>5

\* shutdown(), record_completion() and the clock.
LEMMA OtherType ==
    ASSUME TypeOK,
           \/ shutdown \/ Tick
           \/ \E x \in Dispatches \cup {0}, d \in Decisions, success \in BOOLEAN :
                 record_completion(x, d, success)
    PROVE  TypeOK'
  <1>1. CASE shutdown
    <2>1. routes' \in [Decisions -> RouteRecord]
      <3>1. routes \in [Decisions -> RouteRecord]
        BY DEF TypeOK
      <3>2. \A d \in Decisions : [routes[d] EXCEPT !.status = "STALE"] \in RouteRecord
        BY <3>1 DEF RouteRecord, RouteStatus
      <3> QED
        BY <1>1, <3>1, <3>2 DEF shutdown
    <2> QED
      BY <1>1, <2>1 DEF shutdown, TypeOK, CatalogUnchanged, HistoryUnchanged
  <1>2. CASE Tick
    BY <1>2 DEF Tick, TypeOK, CatalogUnchanged, HistoryUnchanged
  <1>3. ASSUME NEW x \in Dispatches \cup {0}, NEW d \in Decisions, NEW success \in BOOLEAN,
               record_completion(x, d, success)
        PROVE  TypeOK'
    <2> DEFINE target == IF x = 0 THEN d ELSE dispatch_index[x]
    <2>1. completion_status(success) \in RouteStatus
      BY DEF completion_status, RouteStatus
    <2>2. target \in Decisions /\ SetStatus(target, completion_status(success))
      BY <1>3 DEF record_completion, Retained
    <2> HIDE DEF target
    <2>3. routes' \in [Decisions -> RouteRecord]
      BY <2>1, <2>2, SetStatusType
    <2> QED
      BY <1>3, <2>3 DEF record_completion, TypeOK, Marks, CatalogUnchanged, HistoryUnchanged
  <1> QED
    BY <1>1, <1>2, <1>3

\* Every step keeps the types.
LEMMA NextType ==
    ASSUME TypeOK, [Next]_vars
    PROVE  TypeOK'
  <1>1. CASE UNCHANGED vars
    BY <1>1 DEF TypeOK, vars
  <1>2. ASSUME NEW t \in Threads, ThreadCall(t) PROVE TypeOK'
    BY <1>2, StartType, RoutePassType, CommitType, RevalidateType, DispatchType, RerouteType
    DEF ThreadCall
  <1> QED
    BY <1>1, <1>2, CatalogCallType, OtherType DEF Next

\* The router starts well typed.
LEMMA InitType == Init => TypeOK
  <1> SUFFICES ASSUME Init PROVE TypeOK
    OBVIOUS
  <1> USE RouterAssumption
  <1>1. running \in BOOLEAN /\ shutting_down \in BOOLEAN
    BY DEF Init
  <1>2. /\ catalog \in Catalog
        /\ watermark \in [Backends -> Nat]
    BY DEF Init, Catalog, Descriptor
  <1>3. trust \in [Backends -> Evidence]
    BY DEF Init, NoEvidence, Evidence, EvState
  <1>4. index \subseteq EvState \X Backends
    <2>1. "trust" \in Kinds
      BY DEF Kinds
    <2>2. \A b \in Backends : Initial.backends[b].ev["trust"].st \in EvState
      BY <2>1 DEF Catalog, Descriptor, Evidence
    <2> QED
      BY <2>2 DEF Init
  <1>5. routes \in [Decisions -> RouteRecord] /\ call \in [Threads -> CallState]
    BY DefaultTypes DEF Init
  <1>6. route_order \in Seq(Decisions)
    BY EmptySeq DEF Init
  <1>7. /\ dispatch_index \in [Dispatches -> Decisions \cup {0}]
        /\ handed \in [Decisions -> 0..2]
        /\ next_decision \in Nat \ {0} /\ next_dispatch \in Nat \ {0} /\ now \in Nat
    BY DEF Init
  <1> QED
    BY <1>1, <1>2, <1>3, <1>4, <1>5, <1>6, <1>7 DEF TypeOK

\* In every reachable state the variables have the types router_impl.hpp gives
\* them; in particular every retained status is a RouteStatus and every fallback
\* order a sequence of candidate keys.
THEOREM TypeCorrect == Spec => []TypeOK
  <1>1. Init => TypeOK
    BY InitType
  <1>2. TypeOK /\ [Next]_vars => TypeOK'
    BY NextType
  <1> QED
    BY <1>1, <1>2, PTL DEF Spec

-----------------------------------------------------------------------------
(* CURRENT decisions have current authority.                                *)
(*                                                                          *)
(* CurrentAuthority is not inductive: revalidate_authorize marks a record   *)
(* CURRENT on the strength of a copy of its authority taken two critical    *)
(* sections earlier.  JudgesItsRecord says that the copy is still the       *)
(* record's authority, and that needs ids never to be reissued (Allocated). *)

\* Every id in use, in the history or in a call, was issued by the allocator.
Allocated ==
    /\ \A d \in Retained : d < next_decision
    /\ \A t \in Threads : call[t].dec < next_decision

BoundInv == Allocated /\ JudgesItsRecord /\ CurrentAuthority

\* A step that neither inserts a decision nor rewrites an authority.
KeepsRecords ==
    \A d \in Decisions : routes'[d].status # "ABSENT" =>
        routes[d].status # "ABSENT" /\ routes'[d].auth = routes[d].auth

\* Where a revalidation is between its critical sections, its copy is faithful.
Faithful(c) ==
    c.pc \in {"observe", "authorize"} /\ c.dec \in Retained => c.auth = routes[c.dec].auth

\* is_authority_dispatchable() implies everything CurrentAuthority asks for.
LEMMA DispatchableIsBound ==
    ASSUME NEW c, NEW a, NEW t, is_authority_dispatchable(c, a, t)
    PROVE  still_bound(c, a)
  BY DEF is_authority_dispatchable, still_bound, compare_authority, identity_current, is_fenced

\* After the stale pass only decisions with current authority read CURRENT.
LEMMA StalePassBounds ==
    ASSUME NEW c, NEW t, NEW rs \in [Decisions -> RouteRecord], NEW d \in Decisions
    PROVE  LET p == stale_decisions_for_authority_change(c, rs, t)
           IN  /\ p[d].status = "CURRENT" => still_bound(c, p[d].auth)
               /\ p[d].auth = rs[d].auth
               /\ p[d].status # "ABSENT" => rs[d].status # "ABSENT"
  <1> DEFINE p == stale_decisions_for_authority_change(c, rs, t)
  <1>1. p[d] = stale_decision_if_not_dispatchable(c, rs[d], t)
    BY DEF stale_decisions_for_authority_change
  <1>2. rs[d] \in RouteRecord
    OBVIOUS
  <1>3. CASE executable(rs[d]) /\ ~is_authority_dispatchable(c, rs[d].auth, t)
    <2>1. p[d] = [rs[d] EXCEPT !.status = "STALE"]
      BY <1>1, <1>3 DEF stale_decision_if_not_dispatchable
    <2>2. p[d].status = "STALE" /\ p[d].auth = rs[d].auth
      BY <1>2, <2>1 DEF RouteRecord
    <2> QED
      BY <1>3, <2>2 DEF executable
  <1>4. CASE ~(executable(rs[d]) /\ ~is_authority_dispatchable(c, rs[d].auth, t))
    <2>1. p[d] = rs[d]
      BY <1>1, <1>4 DEF stale_decision_if_not_dispatchable
    <2>2. rs[d].status = "CURRENT" => is_authority_dispatchable(c, rs[d].auth, t)
      BY <1>4 DEF executable
    <2> QED
      BY <2>1, <2>2, DispatchableIsBound
  <1> QED
    BY <1>3, <1>4

\* Marking one incarnation's decisions STALE rewrites no authority.
LEMMA StaleBackendKeeps ==
    ASSUME NEW b, NEW boot, NEW rs \in [Decisions -> RouteRecord], NEW d \in Decisions
    PROVE  /\ stale_decisions_for_backend(rs, b, boot)[d].auth = rs[d].auth
           /\ stale_decisions_for_backend(rs, b, boot)[d].status # "ABSENT"
                  => rs[d].status # "ABSENT"
  BY DEF stale_decisions_for_backend, RouteRecord, executable

\* A step that leaves calls and ids alone and keeps the records.
LEMMA CallsUntouched ==
    ASSUME TypeOK, BoundInv, KeepsRecords, call' = call, next_decision' = next_decision
    PROVE  Allocated' /\ JudgesItsRecord'
  BY DEF BoundInv, KeepsRecords, Allocated, JudgesItsRecord, Retained

\* A step of one thread that keeps the records.
LEMMA CallMoves ==
    ASSUME TypeOK, BoundInv, KeepsRecords, next_decision' = next_decision,
           NEW t \in Threads, NEW c \in CallState, Goto(t, c),
           c.dec < next_decision, Faithful(c)
    PROVE  Allocated' /\ JudgesItsRecord'
  <1>1. \A u \in Threads : call'[u] = IF u = t THEN c ELSE call[u]
    BY DEF TypeOK, Goto
  <1>2. \A u \in Threads : call'[u].dec < next_decision /\ Faithful(call'[u])
    BY <1>1 DEF BoundInv, Allocated, JudgesItsRecord, Faithful
  <1>3. \A d \in Retained' : d \in Retained /\ routes'[d].auth = routes[d].auth
    BY DEF KeepsRecords, Retained
  <1>4. Allocated'
    BY <1>2, <1>3 DEF BoundInv, Allocated
  <1>5. JudgesItsRecord'
    BY <1>2, <1>3 DEF JudgesItsRecord, Faithful
  <1> QED
    BY <1>4, <1>5

\* A step that only changes its thread's local state.
LEMMA LocalKeepsBound ==
    ASSUME TypeOK, BoundInv, NEW t \in Threads, NEW c \in CallState, Goto(t, c), Local,
           c.dec < next_decision, Faithful(c)
    PROVE  BoundInv'
  <1>1. routes' = routes /\ catalog' = catalog /\ next_decision' = next_decision
    BY DEF Local, HistoryUnchanged
  <1>2. KeepsRecords
    BY <1>1 DEF KeepsRecords
  <1>3. Allocated' /\ JudgesItsRecord'
    BY <1>1, <1>2, CallMoves
  <1> QED
    BY <1>1, <1>3 DEF BoundInv, CurrentAuthority

\* A step that sets the status of one retained decision.
LEMMA MarkKeepsBound ==
    ASSUME TypeOK, BoundInv, catalog' = catalog, NEW d \in Retained, NEW st \in RouteStatus,
           SetStatus(d, st), st = "CURRENT" => still_bound(catalog, routes[d].auth)
    PROVE  KeepsRecords /\ CurrentAuthority'
  <1>1. d \in Decisions /\ routes \in [Decisions -> RouteRecord]
    BY DEF Retained, TypeOK
  <1>2. \A e \in Decisions : routes'[e].auth = routes[e].auth
    BY <1>1 DEF SetStatus, RouteRecord
  <1>3. \A e \in Decisions : routes'[e].status = IF e = d THEN st ELSE routes[e].status
    BY <1>1 DEF SetStatus, RouteRecord
  <1>4. KeepsRecords
    BY <1>2, <1>3 DEF KeepsRecords, Retained
  <1>5. CurrentAuthority'
    BY <1>2, <1>3 DEF CurrentAuthority, BoundInv
  <1> QED
    BY <1>4, <1>5

\* A mutation that ends with the stale pass over the new catalog.
LEMMA PassKeepsBound ==
    ASSUME TypeOK, BoundInv, NEW t, NEW rs \in [Decisions -> RouteRecord],
           \A d \in Decisions : /\ rs[d].auth = routes[d].auth
                                /\ rs[d].status # "ABSENT" => routes[d].status # "ABSENT",
           routes' = stale_decisions_for_authority_change(catalog', rs, t),
           call' = call, next_decision' = next_decision
    PROVE  BoundInv'
  <1>1. \A d \in Decisions : /\ routes'[d].status = "CURRENT" => still_bound(catalog', routes'[d].auth)
                             /\ routes'[d].auth = rs[d].auth
                             /\ routes'[d].status # "ABSENT" => rs[d].status # "ABSENT"
    BY StalePassBounds
  <1>2. KeepsRecords
    BY <1>1 DEF KeepsRecords
  <1>3. CurrentAuthority'
    BY <1>1 DEF CurrentAuthority
  <1> QED
    BY <1>2, <1>3, CallsUntouched DEF BoundInv

\* Every catalog mutation keeps the invariant: register_model is the only one
\* without a stale pass, and it changes nothing that still_bound compares.
LEMMA CatalogCallBound ==
    ASSUME TypeOK, BoundInv, CatalogCall
    PROVE  BoundInv'
  <1>1. ASSUME NEW c, Apply(c), RestUnchanged PROVE BoundInv'
    <2>1. routes \in [Decisions -> RouteRecord]
      BY DEF TypeOK
    <2>2. /\ routes' = stale_decisions_for_authority_change(catalog', routes, now)
          /\ call' = call /\ next_decision' = next_decision
      BY <1>1 DEF Apply, RestUnchanged
    <2> QED
      BY <2>1, <2>2, PassKeepsBound
  <1>2. ASSUME NEW b, NEW boot, NEW erase, Retire(b, boot, erase) PROVE BoundInv'
    <2> DEFINE rs == stale_decisions_for_backend(routes, b, boot)
    <2>1. rs \in [Decisions -> RouteRecord]
      BY StaleBackendType DEF TypeOK
    <2>2. \A d \in Decisions : /\ rs[d].auth = routes[d].auth
                               /\ rs[d].status # "ABSENT" => routes[d].status # "ABSENT"
      <3>1. routes \in [Decisions -> RouteRecord]
        BY DEF TypeOK
      <3> QED
        BY <3>1, StaleBackendKeeps
    <2>3. /\ routes' = stale_decisions_for_authority_change(catalog', rs, now)
          /\ call' = call /\ next_decision' = next_decision
      BY <1>2 DEF Retire, RestUnchanged
    <2> HIDE DEF rs
    <2> QED
      BY <2>1, <2>2, <2>3, PassKeepsBound
  <1>3. ASSUME NEW g, NEW life, register_model(g, life) PROVE BoundInv'
    <2>1. /\ routes' = routes /\ call' = call /\ next_decision' = next_decision
          /\ catalog' = [catalog EXCEPT !.model = [gen |-> g, life |-> life]]
      BY <1>3 DEF register_model, RestUnchanged
    <2>2. /\ catalog'.fenced = catalog.fenced /\ catalog'.backends = catalog.backends
          /\ catalog'.snap = catalog.snap
      BY <2>1 DEF TypeOK, Catalog
    <2>3. CurrentAuthority'
      BY <2>1, <2>2 DEF BoundInv, CurrentAuthority, still_bound, registered
    <2>4. KeepsRecords
      BY <2>1 DEF KeepsRecords
    <2> QED
      BY <2>1, <2>3, <2>4, CallsUntouched DEF BoundInv
  <1>4. ASSUME NEW b, NEW k, NEW boot, NEW e, NEW t0, apply_evidence(b, k, boot, e, t0)
        PROVE  BoundInv'
    <2>1. routes \in [Decisions -> RouteRecord]
      BY DEF TypeOK
    <2>2. /\ routes' = stale_decisions_for_authority_change(catalog', routes, t0)
          /\ call' = call /\ next_decision' = next_decision
      BY <1>4 DEF apply_evidence, RestUnchanged
    <2> QED
      BY <2>1, <2>2, PassKeepsBound
  <1>5. ASSUME NEW b, NEW e, set_trust(b, e) PROVE BoundInv'
    <2> DEFINE n == [catalog.backends[b] EXCEPT !.ev["trust"] = e]
    <2>1. /\ RestUnchanged
          /\ Apply([catalog EXCEPT !.backends[b] = n]) \/ Apply(catalog)
      BY <1>5 DEF set_trust
    <2> QED
      BY <1>1, <2>1
  <1>6. ASSUME retire_model PROVE BoundInv'
    BY <1>1, <1>6 DEF retire_model
  <1>7. ASSUME NEW b, NEW d, register_backend(b, d) PROVE BoundInv'
    BY <1>1, <1>7 DEF register_backend
  <1>8. ASSUME NEW b, unregister_backend(b) PROVE BoundInv'
    BY <1>2, <1>8 DEF unregister_backend
  <1>9. ASSUME NEW b, NEW g, NEW boot, fence_backend_boot(b, g, boot) PROVE BoundInv'
    BY <1>2, <1>9 DEF fence_backend_boot
  <1>10. ASSUME NEW b, NEW boot, update_latency(b, boot) PROVE BoundInv'
    BY <1>1, <1>10 DEF update_latency
  <1>11. ASSUME NEW b, NEW e, set_cost(b, e) PROVE BoundInv'
    BY <1>1, <1>11 DEF set_cost
  <1>12. ASSUME NEW s, NEW g, NEW deny, set_snapshot(s, g, deny) PROVE BoundInv'
    BY <1>1, <1>12 DEF set_snapshot
  <1> QED
    BY <1>3, <1>4, <1>5, <1>6, <1>7, <1>8, <1>9, <1>10, <1>11, <1>12 DEF CatalogCall

\* What thread steps share: the call's own id was issued, and so was every
\* retained one; an idle call names no id.
LEMMA CallFacts ==
    ASSUME TypeOK, BoundInv, NEW t \in Threads
    PROVE  /\ call[t] \in CallState /\ Idle \in CallState
           /\ call[t].dec < next_decision /\ Idle.dec < next_decision
           /\ \A d \in Retained : d < next_decision
           /\ Faithful(Idle) /\ Faithful(call[t])
  <1>1. call[t] \in CallState /\ Idle \in CallState
    BY DefaultTypes DEF TypeOK
  <1>2. Idle.dec < next_decision /\ Faithful(Idle)
    BY DEF Idle, TypeOK, Faithful
  <1> QED
    BY <1>1, <1>2 DEF BoundInv, Allocated, JudgesItsRecord, Faithful

\* start() publishes an epoch, which still_bound does not compare.
LEMMA StartBound ==
    ASSUME TypeOK, BoundInv, NEW t \in Threads, start(t) \/ start_publish(t)
    PROVE  BoundInv'
  <1>1. /\ routes' = routes /\ next_decision' = next_decision
        /\ \/ catalog' = catalog
           \/ catalog' = [catalog EXCEPT !.epoch = catalog.epoch + 1]
    BY DEF start, start_publish, HistoryUnchanged
  <1>2. /\ catalog'.fenced = catalog.fenced /\ catalog'.backends = catalog.backends
        /\ catalog'.snap = catalog.snap
    BY <1>1 DEF TypeOK, Catalog
  <1>3. CurrentAuthority'
    BY <1>1, <1>2 DEF BoundInv, CurrentAuthority, still_bound, registered
  <1>4. KeepsRecords
    BY <1>1 DEF KeepsRecords
  <1> DEFINE s == [Idle EXCEPT !.pc = "publish", !.op = "start"]
  <1>5. Goto(t, s) \/ Goto(t, Idle)
    BY DEF start, start_publish, Return
  <1>6. s \in CallState /\ s.dec = Idle.dec /\ Faithful(s)
    BY CallFacts DEF CallState, Labels, Calls, Faithful
  <1> HIDE DEF s
  <1>7. Allocated' /\ JudgesItsRecord'
    BY <1>1, <1>4, <1>5, <1>6, CallFacts, CallMoves
  <1> QED
    BY <1>3, <1>7 DEF BoundInv

\* A step that moves thread t to a local state k outside revalidation, keeping
\* the id it began with, dropping it or taking up a retained one.
LEMMA MoveBound ==
    ASSUME TypeOK, BoundInv, NEW t \in Threads, NEW k, Local, Goto(t, k), TypeOK',
           k.dec \in {0, call[t].dec} \cup Retained, k.pc \notin {"observe", "authorize"}
    PROVE  BoundInv'
  <1>1. k \in CallState
    BY DEF TypeOK, Goto
  <1>2. 0 < next_decision /\ k.dec < next_decision
    <2>1. 0 < next_decision
      BY DEF TypeOK
    <2> QED
      BY <2>1, CallFacts
  <1>3. Faithful(k)
    BY DEF Faithful
  <1> QED
    BY <1>1, <1>2, <1>3, LocalKeepsBound

\* Steps of route() before the commit.
LEMMA RoutePassBound ==
    ASSUME TypeOK, BoundInv, TypeOK', NEW t \in Threads,
           \/ \E q \in Requests : route(t, q)
           \/ reroute_route(t) \/ route_discover(t) \/ route_bind(t) \/ commit_refused(t)
    PROVE  BoundInv'
  <1> DEFINE c == call[t]
  <1>1. c \in CallState /\ Idle \in CallState /\ Idle.dec = 0 /\ Idle.pc = "idle"
    BY CallFacts DEF Idle
  <1>2. ASSUME Local, Return(t) PROVE BoundInv'
    BY <1>1, <1>2, MoveBound DEF Return
  <1>3. ASSUME NEW q, route(t, q) PROVE BoundInv'
    <2>1. PICK t0 : Goto(t, Admitted([Idle EXCEPT !.op = "route", !.req = q], t0))
      BY <1>3 DEF route
    <2>2. /\ Admitted([Idle EXCEPT !.op = "route", !.req = q], t0).dec = 0
          /\ Admitted([Idle EXCEPT !.op = "route", !.req = q], t0).pc = "discover"
      BY <1>1 DEF Admitted, CallState
    <2> QED
      BY <1>3, <2>1, <2>2, MoveBound DEF route
  <1>4. CASE reroute_route(t)
    <2>1. \A t0 : Admitted(c, t0).dec = c.dec /\ Admitted(c, t0).pc = "discover"
      BY <1>1 DEF Admitted, CallState
    <2>2. ASSUME NEW t0, Goto(t, Admitted(c, t0)) PROVE BoundInv'
      BY <1>4, <2>1, <2>2, MoveBound DEF reroute_route
    <2> QED
      BY <1>2, <1>4, <2>2 DEF reroute_route
  <1>5. CASE route_discover(t)
    <2>1. ASSUME NEW w, NEW f,
                 LET seen == Generations(catalog.backends[w])
                     ev   == [k \in Kinds |-> IF k = "price" THEN seen[k] ELSE 0]
                 IN  Goto(t, [c EXCEPT !.pc = "bind", !.seen = seen, !.auth = authority(c, w, 0, ev),
                                       !.fb = [i \in DOMAIN f |-> KeyOf(catalog, f[i])]])
          PROVE  BoundInv'
      <3>1. PICK seen, a, fb : Goto(t, [c EXCEPT !.pc = "bind", !.seen = seen, !.auth = a, !.fb = fb])
        BY <2>1
      <3> DEFINE k == [c EXCEPT !.pc = "bind", !.seen = seen, !.auth = a, !.fb = fb]
      <3>2. k.dec = c.dec /\ k.pc = "bind"
        BY <1>1 DEF CallState
      <3> HIDE DEF k
      <3> QED
        BY <1>5, <3>1, <3>2, MoveBound DEF route_discover, k
    <2> QED
      BY <1>2, <1>5, <2>1 DEF route_discover
  <1>6. CASE route_bind(t)
    <2> DEFINE k == [c EXCEPT !.pc = "commit", !.auth.ev = bound_evidence(c.auth),
                              !.auth.breg = bound_registration(c.auth)]
    <2>1. k.dec = c.dec /\ k.pc = "commit"
      BY <1>1 DEF CallState
    <2>2. Goto(t, k) /\ Local
      BY <1>6 DEF route_bind
    <2> HIDE DEF k
    <2> QED
      BY <2>1, <2>2, MoveBound
  <1>7. CASE commit_refused(t)
    <2> DEFINE k == after_commit(c, FALSE)
    <2>1. k.dec \in {0, c.dec} /\ k.pc \notin {"observe", "authorize"}
      BY <1>1 DEF after_commit, CallState
    <2>2. Goto(t, k) /\ Local
      BY <1>7 DEF commit_refused
    <2> HIDE DEF k
    <2> QED
      BY <2>1, <2>2, MoveBound
  <1> QED
    BY <1>3, <1>4, <1>5, <1>6, <1>7

\* A commit inserts its decision under an id that no call holds, and CURRENT only
\* if its authority is dispatchable under the lock that inserts it.
LEMMA CommitBound ==
    ASSUME TypeOK, BoundInv, TypeOK', NEW t \in Threads, commit(t)
    PROVE  BoundInv'
  <1> DEFINE c == call[t]
             current == is_authority_dispatchable(catalog, c.auth, c.now)
             k == after_commit(c, current)
  <1>1. /\ catalog' = catalog /\ next_decision' = next_decision + 1
        /\ next_decision \in Decisions /\ next_decision \in Nat
    BY DEF commit, Marks, allocate, TypeOK
  <1>2. /\ routes'[next_decision].auth = c.auth
        /\ routes'[next_decision].status = IF current THEN "CURRENT" ELSE "STALE"
    BY <1>1 DEF commit
  <1>3. \A d \in Decisions \ {next_decision} : \/ routes'[d] = NoRoute
                                               \/ routes'[d] = routes[d]
    BY <1>1 DEF commit
  <1>4. CurrentAuthority'
    <2>1. current => still_bound(catalog, c.auth)
      BY DispatchableIsBound
    <2>2. NoRoute.status = "ABSENT"
      BY DEF NoRoute
    <2> QED
      BY <1>1, <1>2, <1>3, <2>1, <2>2 DEF CurrentAuthority, BoundInv
  <1>5. \A d \in Retained' : d = next_decision \/ (d \in Retained /\ routes'[d] = routes[d])
    BY <1>3 DEF Retained, NoRoute
  <1>6. k.dec \in {0, c.dec} /\ k.pc \notin {"observe", "authorize"}
    BY CallFacts DEF after_commit, CallState, Idle
  <1>7. \A u \in Threads : call'[u] = IF u = t THEN k ELSE call[u]
    BY DEF commit, Goto, TypeOK
  <1> HIDE DEF k
  <1>8. \A u \in Threads : call'[u].dec < next_decision
    <2>1. 0 < next_decision /\ \A u \in Threads : call[u].dec < next_decision
      BY CallFacts DEF TypeOK
    <2> QED
      BY <1>6, <1>7, <2>1
  <1>9. Allocated'
    <2>1. \A u \in Threads : call'[u].dec \in Nat
      BY DEF TypeOK, CallState
    <2>2. \A d \in Retained : d \in Nat /\ d < next_decision
      BY CallFacts DEF Retained, Decisions, BoundInv, Allocated
    <2>3. \A d \in Retained' : d < next_decision'
      BY <1>1, <1>5, <2>2
    <2>4. \A u \in Threads : call'[u].dec < next_decision'
      BY <1>1, <1>8, <2>1
    <2> QED
      BY <2>3, <2>4 DEF Allocated
  <1>10. JudgesItsRecord'
    <2> SUFFICES ASSUME NEW u \in Threads, call'[u].pc \in {"observe", "authorize"},
                        call'[u].dec \in Retained'
                 PROVE  call'[u].auth = routes'[call'[u].dec].auth
      BY DEF JudgesItsRecord
    <2>1. call'[u] = call[u]
      BY <1>6, <1>7
    <2>2. call[u].dec # next_decision
      BY <1>1, <1>8, <2>1
    <2>3. call[u].dec \in Retained /\ routes'[call[u].dec] = routes[call[u].dec]
      BY <1>5, <2>1, <2>2
    <2> QED
      BY <2>1, <2>3 DEF BoundInv, JudgesItsRecord
  <1> QED
    BY <1>4, <1>9, <1>10 DEF BoundInv

\* revalidate() takes its copy from the record and marks the record CURRENT only
\* if the copy is dispatchable under the lock that marks it.
LEMMA RevalidateBound ==
    ASSUME TypeOK, BoundInv, TypeOK', NEW t \in Threads,
           \/ \E d \in Decisions : revalidate(t, d)
           \/ dispatch_revalidate(t) \/ revalidate_observe(t)
           \/ revalidate_mark_stale(t) \/ revalidate_authorize(t)
    PROVE  BoundInv'
  <1> DEFINE c == call[t]
  <1>1. c \in CallState /\ Idle \in CallState /\ Idle.dec = 0 /\ Idle.pc = "idle"
    BY CallFacts DEF Idle
  <1>2. ASSUME Local, Return(t) PROVE BoundInv'
    BY <1>1, <1>2, MoveBound DEF Return
  <1>3. ASSUME NEW k \in CallState, NEW d, Lookup(t, k, d), Local PROVE BoundInv'
    <2>1. CASE shutting_down \/ d \notin Retained \/ routes[d].status \in Terminal
      BY <1>2, <1>3, <2>1 DEF Lookup
    <2>2. CASE ~(shutting_down \/ d \notin Retained \/ routes[d].status \in Terminal)
      <3>1. PICK pc : Goto(t, [k EXCEPT !.dec = d, !.auth = routes[d].auth, !.now = now, !.pc = pc])
        BY <1>3, <2>2 DEF Lookup
      <3> DEFINE n == [k EXCEPT !.dec = d, !.auth = routes[d].auth, !.now = now, !.pc = pc]
      <3>2. n.dec = d /\ n.auth = routes[d].auth
        BY DEF CallState
      <3>3. Goto(t, n)
        BY <3>1
      <3> HIDE DEF n
      <3>4. n \in CallState
        BY <3>3 DEF TypeOK, Goto
      <3>5. n.dec < next_decision /\ Faithful(n)
        BY <2>2, <3>2, CallFacts DEF Faithful
      <3> QED
        BY <1>3, <3>3, <3>4, <3>5, LocalKeepsBound
    <2> QED
      BY <2>1, <2>2
  <1>4. ASSUME NEW d, revalidate(t, d) PROVE BoundInv'
    <2>1. [Idle EXCEPT !.op = "revalidate"] \in CallState
      BY <1>1 DEF CallState, Calls
    <2> QED
      BY <1>3, <1>4, <2>1 DEF revalidate
  <1>5. CASE dispatch_revalidate(t)
    BY <1>1, <1>3, <1>5 DEF dispatch_revalidate
  <1>6. CASE revalidate_observe(t)
    <2>1. ASSUME NEW pc, NEW t0, NEW cmp,
                 Goto(t, [c EXCEPT !.pc = pc, !.now = t0, !.cmp = cmp])
          PROVE  BoundInv'
      <3> DEFINE n == [c EXCEPT !.pc = pc, !.now = t0, !.cmp = cmp]
      <3>1. n.dec = c.dec /\ n.auth = c.auth
        BY <1>1 DEF CallState
      <3>2. Goto(t, n)
        BY <2>1
      <3> HIDE DEF n
      <3>3. n \in CallState
        BY <3>2 DEF TypeOK, Goto
      <3>4. c.pc = "observe" /\ Local
        BY <1>6 DEF revalidate_observe
      <3>5. n.dec < next_decision /\ Faithful(n)
        BY <3>1, <3>4, CallFacts DEF Faithful
      <3> QED
        BY <3>2, <3>3, <3>4, <3>5, LocalKeepsBound
    <2>2. CASE Goto(t, [c EXCEPT !.pc = "mark_stale"])
      <3> DEFINE n == [c EXCEPT !.pc = "mark_stale"]
      <3>1. n.dec = c.dec /\ n.pc = "mark_stale"
        BY <1>1 DEF CallState
      <3>2. Goto(t, n) /\ Local
        BY <1>6, <2>2 DEF revalidate_observe
      <3> HIDE DEF n
      <3> QED
        BY <3>1, <3>2, MoveBound
    <2> QED
      BY <1>6, <2>1, <2>2 DEF revalidate_observe
  <1>7. CASE revalidate_mark_stale(t)
    <2>1. catalog' = catalog /\ next_decision' = next_decision /\ Goto(t, Idle)
      BY <1>7 DEF revalidate_mark_stale, Marks, HistoryUnchanged, Return
    <2>2. KeepsRecords /\ CurrentAuthority'
      <3>1. CASE c.dec \in Retained
        BY <1>7, <2>1, <3>1, MarkKeepsBound DEF revalidate_mark_stale, RouteStatus
      <3>2. CASE c.dec \notin Retained
        BY <1>7, <2>1, <3>2
        DEF revalidate_mark_stale, KeepsRecords, CurrentAuthority, BoundInv
      <3> QED
        BY <3>1, <3>2
    <2> QED
      BY <1>1, <2>1, <2>2, CallFacts, CallMoves DEF BoundInv
  <1>8. CASE revalidate_authorize(t)
    <2> DEFINE n == [c EXCEPT !.pc = "snapshot"]
    <2>1. /\ catalog' = catalog /\ next_decision' = next_decision
          /\ Goto(t, Idle) \/ Goto(t, n)
      BY <1>8 DEF revalidate_authorize, Marks, HistoryUnchanged, Return
    <2>2. KeepsRecords /\ CurrentAuthority'
      <3>1. CASE c.dec \notin Retained
        BY <1>8, <2>1, <3>1
        DEF revalidate_authorize, KeepsRecords, CurrentAuthority, BoundInv
      <3>2. CASE c.dec \in Retained /\ ~reauthorized(c)
        BY <1>8, <2>1, <3>2, MarkKeepsBound DEF revalidate_authorize, RouteStatus
      <3>3. CASE c.dec \in Retained /\ reauthorized(c)
        <4>1. c.auth = routes[c.dec].auth
          BY <1>8, <3>3, CallFacts DEF revalidate_authorize, Faithful
        <4>2. still_bound(catalog, routes[c.dec].auth)
          BY <3>3, <4>1, DispatchableIsBound DEF reauthorized
        <4> QED
          BY <1>8, <2>1, <3>3, <4>2, MarkKeepsBound DEF revalidate_authorize, RouteStatus
      <3> QED
        BY <3>1, <3>2, <3>3
    <2>3. n \in CallState /\ n.dec = c.dec /\ Faithful(n)
      BY <1>1 DEF CallState, Labels, Faithful
    <2> HIDE DEF n
    <2> QED
      BY <1>1, <2>1, <2>2, <2>3, CallFacts, CallMoves DEF BoundInv
  <1> QED
    BY <1>4, <1>5, <1>6, <1>7, <1>8

\* dispatch() around its revalidation: nothing in it marks a decision CURRENT.
LEMMA DispatchBound ==
    ASSUME TypeOK, BoundInv, TypeOK', NEW t \in Threads,
           \/ \E d \in Decisions : dispatch(t, d)
           \/ dispatch_snapshot(t) \/ dispatch_resolve(t) \/ dispatch_refused(t)
           \/ \E accepted \in BOOLEAN : dispatch_handoff(t, accepted)
           \/ dispatch_record(t)
    PROVE  BoundInv'
  <1> DEFINE c == call[t]
  <1>1. c \in CallState /\ Idle \in CallState /\ Idle.dec = 0 /\ Idle.pc = "idle"
    BY CallFacts DEF Idle
  <1>2. ASSUME Local, Return(t) PROVE BoundInv'
    BY <1>1, <1>2, MoveBound DEF Return
  <1>3. ASSUME NEW d, dispatch(t, d) PROVE BoundInv'
    <2>1. PICK a, g : Goto(t, [Idle EXCEPT !.op = "dispatch", !.pc = "lookup", !.dec = d,
                                           !.auth = a, !.gone = g])
      BY <1>3 DEF dispatch
    <2> DEFINE k == [Idle EXCEPT !.op = "dispatch", !.pc = "lookup", !.dec = d, !.auth = a,
                                 !.gone = g]
    <2>2. k.dec = d /\ k.pc = "lookup"
      BY <1>1 DEF CallState
    <2>3. Goto(t, k) /\ Local /\ d \in Retained
      BY <1>3, <2>1 DEF dispatch
    <2> HIDE DEF k
    <2> QED
      BY <2>2, <2>3, MoveBound
  <1>4. CASE dispatch_snapshot(t)
    <2> DEFINE k == [c EXCEPT !.pc = "resolve", !.snap = catalog.snap,
                              !.epoch = catalog.epoch, !.now = now]
    <2>1. k.dec = c.dec /\ k.pc = "resolve"
      BY <1>1 DEF CallState
    <2>2. Goto(t, k) /\ Local
      BY <1>4 DEF dispatch_snapshot
    <2> HIDE DEF k
    <2> QED
      BY <2>1, <2>2, MoveBound
  <1>5. CASE dispatch_resolve(t)
    <2>1. [c EXCEPT !.pc = "handoff"].dec = c.dec /\ [c EXCEPT !.pc = "handoff"].pc = "handoff"
      BY <1>1 DEF CallState
    <2> QED
      BY <1>2, <1>5, <2>1, MoveBound DEF dispatch_resolve
  <1>6. CASE dispatch_refused(t)
    BY <1>2, <1>6 DEF dispatch_refused
  <1>7. ASSUME NEW accepted, dispatch_handoff(t, accepted) PROVE BoundInv'
    <2> DEFINE k == [c EXCEPT !.pc = "record"]
    <2>1. /\ catalog' = catalog /\ routes' = routes /\ next_decision' = next_decision
          /\ Goto(t, k) \/ Goto(t, Idle)
      BY <1>7 DEF dispatch_handoff, Return
    <2>2. KeepsRecords /\ CurrentAuthority'
      BY <2>1 DEF KeepsRecords, CurrentAuthority, BoundInv
    <2>3. k \in CallState /\ k.dec = c.dec /\ Faithful(k)
      BY <1>1 DEF CallState, Labels, Faithful
    <2> HIDE DEF k
    <2> QED
      BY <1>1, <2>1, <2>2, <2>3, CallFacts, CallMoves DEF BoundInv
  <1>8. CASE dispatch_record(t)
    <2>1. /\ catalog' = catalog /\ next_decision' = next_decision /\ Goto(t, Idle)
          /\ c.dec \in Retained
      BY <1>8 DEF dispatch_record, Marks, Return
    <2>2. \A d \in Decisions : /\ routes'[d].auth = routes[d].auth
                               /\ routes'[d].status = IF d = c.dec THEN "DISPATCHED"
                                                      ELSE routes[d].status
      <3>1. routes \in [Decisions -> RouteRecord]
        BY DEF TypeOK
      <3> QED
        BY <1>8, <3>1 DEF dispatch_record, RouteRecord
    <2>3. KeepsRecords
      BY <2>1, <2>2 DEF KeepsRecords, Retained
    <2>4. CurrentAuthority'
      BY <2>1, <2>2 DEF CurrentAuthority, BoundInv
    <2> QED
      BY <1>1, <2>1, <2>3, <2>4, CallFacts, CallMoves DEF BoundInv
  <1> QED
    BY <1>3, <1>4, <1>5, <1>6, <1>7, <1>8

\* reroute() outside the passes it shares with route().
LEMMA RerouteBound ==
    ASSUME TypeOK, BoundInv, TypeOK', NEW t \in Threads,
           \/ \E d \in Decisions, q \in Requests : reroute(t, d, q)
           \/ reroute_fallback(t) \/ reroute_exhausted(t) \/ reroute_supersede(t)
    PROVE  BoundInv'
  <1> DEFINE c == call[t]
  <1>1. c \in CallState /\ Idle \in CallState
    BY CallFacts
  <1>2. ASSUME NEW d, NEW q, reroute(t, d, q) PROVE BoundInv'
    <2> DEFINE k == [Idle EXCEPT !.op = "reroute", !.pc = "fallback", !.dec = d, !.req = q,
                                 !.epoch = catalog.epoch, !.now = now, !.snap = catalog.snap,
                                 !.rest = routes[d].fallbacks, !.fb = routes[d].fallbacks]
    <2>1. k.dec = d /\ k.pc = "fallback"
      BY <1>1 DEF CallState
    <2>2. Goto(t, k) /\ Local /\ d \in Retained
      BY <1>2 DEF reroute
    <2> HIDE DEF k
    <2> QED
      BY <2>1, <2>2, MoveBound
  <1>3. CASE reroute_fallback(t)
    <2> DEFINE next == [c EXCEPT !.rest = Tail(@)]
    <2>1. \/ Goto(t, next)
          \/ \E a, gens : Goto(t, [next EXCEPT !.pc = after_judging, !.via = "fallback",
                                               !.auth = a, !.seen = gens])
      BY <1>3 DEF reroute_fallback
    <2>2. c.pc = "fallback" /\ Local
      BY <1>3 DEF reroute_fallback
    <2>3. ASSUME Goto(t, next) PROVE BoundInv'
      <3>1. next.dec = c.dec /\ next.pc = "fallback"
        BY <1>1, <2>2 DEF CallState
      <3> HIDE DEF next
      <3> QED
        BY <2>2, <2>3, <3>1, MoveBound
    <2>4. ASSUME NEW a, NEW gens,
                 Goto(t, [next EXCEPT !.pc = after_judging, !.via = "fallback", !.auth = a,
                                      !.seen = gens])
          PROVE  BoundInv'
      <3> DEFINE k == [next EXCEPT !.pc = after_judging, !.via = "fallback", !.auth = a,
                                   !.seen = gens]
      <3>1. k.dec = c.dec /\ k.pc = "commit"
        BY <1>1 DEF CallState, after_judging
      <3>2. Goto(t, k)
        BY <2>4
      <3> HIDE DEF k
      <3> QED
        BY <2>2, <3>1, <3>2, MoveBound
    <2> QED
      BY <2>1, <2>3, <2>4
  <1>4. CASE reroute_exhausted(t)
    <2>1. [c EXCEPT !.pc = "admit"].dec = c.dec /\ [c EXCEPT !.pc = "admit"].pc = "admit"
      BY <1>1 DEF CallState
    <2> QED
      BY <1>4, <2>1, MoveBound DEF reroute_exhausted
  <1>5. CASE reroute_supersede(t)
    <2>1. catalog' = catalog /\ next_decision' = next_decision /\ Goto(t, Idle)
      BY <1>5 DEF reroute_supersede, Marks, HistoryUnchanged, Return
    <2>2. KeepsRecords /\ CurrentAuthority'
      <3>1. CASE c.dec \in Retained
        BY <1>5, <2>1, <3>1, MarkKeepsBound DEF reroute_supersede, RouteStatus
      <3>2. CASE c.dec \notin Retained
        BY <1>5, <2>1, <3>2 DEF reroute_supersede, KeepsRecords, CurrentAuthority, BoundInv
      <3> QED
        BY <3>1, <3>2
    <2> QED
      BY <1>1, <2>1, <2>2, CallFacts, CallMoves DEF BoundInv
  <1> QED
    BY <1>2, <1>3, <1>4, <1>5

\* shutdown(), record_completion() and the clock mark nothing CURRENT.
LEMMA OtherBound ==
    ASSUME TypeOK, BoundInv,
           \/ shutdown \/ Tick
           \/ \E x \in Dispatches \cup {0}, d \in Decisions, success \in BOOLEAN :
                 record_completion(x, d, success)
    PROVE  BoundInv'
  <1>1. CASE shutdown
    <2>1. catalog' = catalog /\ call' = call /\ next_decision' = next_decision
      BY <1>1 DEF shutdown, HistoryUnchanged
    <2>2. \A d \in Decisions : /\ routes'[d].auth = routes[d].auth
                               /\ routes'[d].status # "CURRENT"
                               /\ routes'[d].status # "ABSENT" => routes[d].status # "ABSENT"
      <3>1. routes \in [Decisions -> RouteRecord]
        BY DEF TypeOK
      <3> QED
        BY <1>1, <3>1 DEF shutdown, RouteRecord
    <2>3. KeepsRecords /\ CurrentAuthority'
      BY <2>2 DEF KeepsRecords, CurrentAuthority
    <2> QED
      BY <2>1, <2>3, CallsUntouched DEF BoundInv
  <1>2. CASE Tick
    BY <1>2 DEF Tick, HistoryUnchanged, BoundInv, Allocated, JudgesItsRecord, CurrentAuthority,
                Retained
  <1>3. ASSUME NEW x \in Dispatches \cup {0}, NEW d \in Decisions, NEW success \in BOOLEAN,
               record_completion(x, d, success)
        PROVE  BoundInv'
    <2>1. PICK target \in Retained : SetStatus(target, completion_status(success))
      BY <1>3 DEF record_completion
    <2>2. completion_status(success) \in RouteStatus /\ completion_status(success) # "CURRENT"
      BY DEF completion_status, RouteStatus
    <2>3. catalog' = catalog /\ call' = call /\ next_decision' = next_decision
      BY <1>3 DEF record_completion, Marks, HistoryUnchanged
    <2>4. KeepsRecords /\ CurrentAuthority'
      BY <2>1, <2>2, <2>3, MarkKeepsBound
    <2> QED
      BY <2>3, <2>4, CallsUntouched DEF BoundInv
  <1> QED
    BY <1>1, <1>2, <1>3

\* Nothing is retained and no call is in progress when the router starts.
LEMMA InitBound == Init => BoundInv
  <1> SUFFICES ASSUME Init PROVE BoundInv
    OBVIOUS
  <1>1. \A d \in Decisions : routes[d].status = "ABSENT"
    BY DEF Init, NoRoute
  <1>2. Retained = {}
    BY <1>1 DEF Retained
  <1>3. \A t \in Threads : call[t].dec = 0 /\ next_decision = 1
    BY DEF Init, Idle
  <1> QED
    BY <1>1, <1>2, <1>3 DEF BoundInv, Allocated, JudgesItsRecord, CurrentAuthority

\* Every step keeps the inductive invariant.
LEMMA NextBound ==
    ASSUME TypeOK, BoundInv, [Next]_vars
    PROVE  BoundInv'
  <1>1. TypeOK'
    BY NextType
  <1>2. CASE UNCHANGED vars
    BY <1>2 DEF vars, BoundInv, Allocated, JudgesItsRecord, CurrentAuthority, Retained
  <1>3. ASSUME NEW t \in Threads, ThreadCall(t) PROVE BoundInv'
    BY <1>1, <1>3, StartBound, RoutePassBound, CommitBound, RevalidateBound, DispatchBound,
       RerouteBound
    DEF ThreadCall
  <1> QED
    BY <1>2, <1>3, CatalogCallBound, OtherBound DEF Next

\* However many threads route, revalidate, dispatch, reroute, mutate the catalog,
\* start and shut down, a decision that reads CURRENT is bound to a registered,
\* unfenced, not draining incarnation and to the newest generations of the
\* evidence and snapshots it depends on.
THEOREM CurrentAuthorityHolds == Spec => []CurrentAuthority
  <1>1. Init => TypeOK /\ BoundInv
    BY InitType, InitBound
  <1>2. TypeOK /\ BoundInv /\ [Next]_vars => TypeOK' /\ BoundInv'
    BY NextType, NextBound
  <1>3. BoundInv => CurrentAuthority
    BY DEF BoundInv
  <1> QED
    BY <1>1, <1>2, <1>3, PTL DEF Spec

\* The copy of an authority that a revalidation carries from one critical section
\* to the next is the authority of the record it will mark, whatever is evicted
\* or committed in between.
THEOREM RevalidationJudgesItsRecord == Spec => []JudgesItsRecord
  <1>1. Init => TypeOK /\ BoundInv
    BY InitType, InitBound
  <1>2. TypeOK /\ BoundInv /\ [Next]_vars => TypeOK' /\ BoundInv'
    BY NextType, NextBound
  <1>3. BoundInv => JudgesItsRecord
    BY DEF BoundInv
  <1> QED
    BY <1>1, <1>2, <1>3, PTL DEF Spec

-----------------------------------------------------------------------------
(* Fencing.                                                                 *)

\* Steps outside the catalog mutations change neither registrations nor fences.
LEMMA OnlyCatalogCallsRegister ==
    ASSUME TypeOK, [Next]_vars, ~CatalogCall
    PROVE  /\ catalog'.backends = catalog.backends /\ catalog'.fenced = catalog.fenced
           /\ catalog'.model = catalog.model /\ catalog'.snap = catalog.snap
           /\ catalog.epoch <= catalog'.epoch
           /\ watermark' = watermark
  <1>1. /\ catalog' = catalog \/ catalog' = [catalog EXCEPT !.epoch = catalog.epoch + 1]
        /\ watermark' = watermark
    <2>1. ASSUME NEW t \in Threads, ThreadCall(t)
          PROVE  /\ catalog' = catalog \/ catalog' = [catalog EXCEPT !.epoch = catalog.epoch + 1]
                 /\ watermark' = watermark
      BY <2>1
      DEF ThreadCall, start, start_publish, route, route_discover, route_bind, commit,
          commit_refused, revalidate, revalidate_observe, revalidate_mark_stale,
          revalidate_authorize, dispatch, dispatch_revalidate, dispatch_snapshot,
          dispatch_resolve, dispatch_handoff, dispatch_refused, dispatch_record, reroute,
          reroute_fallback, reroute_exhausted, reroute_route, reroute_supersede,
          Local, Marks, CatalogUnchanged
    <2> QED
      BY <2>1 DEF Next, shutdown, record_completion, Tick, Marks, CatalogUnchanged, vars
  <1>2. catalog \in Catalog /\ catalog.epoch \in Nat
    BY DEF TypeOK, Catalog
  <1> QED
    BY <1>1, <1>2 DEF Catalog

\* If callers pass fence_backend_boot no generation, a fenced incarnation is never
\* registered again: registration refuses it, and the fence that hits the
\* registered incarnation erases it.
THEOREM FencedStaysOut ==
    ASSUME FenceGenerations = {0}
    PROVE  Spec => []FencedNotRegistered
  <1>1. Init => FencedNotRegistered
    BY RouterAssumption DEF Init, FencedNotRegistered
  <1>2. TypeOK /\ FencedNotRegistered /\ [Next]_vars => FencedNotRegistered'
    <2> SUFFICES ASSUME TypeOK, FencedNotRegistered, [Next]_vars
                 PROVE  FencedNotRegistered'
      OBVIOUS
    <2>1. catalog \in Catalog /\ catalog.backends \in [Backends -> Descriptor]
      BY DEF TypeOK, Catalog
    <2>2. ASSUME catalog'.fenced = catalog.fenced,
                 \A b \in Backends : /\ catalog'.backends[b].reg # 0 => catalog.backends[b].reg # 0
                                     /\ catalog'.backends[b].boot = catalog.backends[b].boot
          PROVE  FencedNotRegistered'
      BY <2>2 DEF FencedNotRegistered, registered
    <2>3. ASSUME NEW b \in Backends, NEW boot, NEW erase \in BOOLEAN, Retire(b, boot, erase),
                 registered(catalog, b) /\ catalog.backends[b].boot = boot => erase
          PROVE  FencedNotRegistered'
      <3>1. /\ catalog'.fenced = catalog.fenced \cup {<<b, boot>>}
            /\ \A x \in Backends : catalog'.backends[x] = IF x = b /\ erase THEN Unregistered
                                                          ELSE catalog.backends[x]
        BY <2>1, <2>3 DEF Retire, Catalog
      <3>2. Unregistered.reg = 0
        BY DEF Unregistered
      <3> SUFFICES ASSUME NEW x \in Backends, registered(catalog, x)'
                   PROVE  <<x, catalog'.backends[x].boot>> \notin catalog'.fenced
        BY DEF FencedNotRegistered
      <3>3. catalog'.backends[x] = catalog.backends[x] /\ registered(catalog, x)
        BY <3>1, <3>2 DEF registered
      <3>4. <<x, catalog.backends[x].boot>> # <<b, boot>>
        BY <2>3, <3>1, <3>2, <3>3 DEF registered
      <3> QED
        BY <3>1, <3>3, <3>4 DEF FencedNotRegistered
    <2>4. ASSUME NEW b \in Backends, NEW d \in Descriptor, register_backend(b, d)
          PROVE  FencedNotRegistered'
      <3>1. /\ catalog'.fenced = catalog.fenced
            /\ \A x \in Backends : catalog'.backends[x] = IF x = b THEN d ELSE catalog.backends[x]
        BY <2>1, <2>4 DEF register_backend, Apply, Catalog
      <3>2. <<b, d.boot>> \notin catalog.fenced
        BY <2>4 DEF register_backend, is_fenced
      <3> QED
        BY <3>1, <3>2 DEF FencedNotRegistered, registered
    <2>5. ASSUME NEW b \in Backends, NEW n, n.reg = catalog.backends[b].reg,
                 n.boot = catalog.backends[b].boot,
                 catalog' = [catalog EXCEPT !.backends[b] = n]
          PROVE  FencedNotRegistered'
      BY <2>1, <2>2, <2>5 DEF Catalog
    <2>6. ASSUME NEW b \in Backends, NEW k \in Kinds, NEW e,
                 catalog' = [catalog EXCEPT !.backends[b].ev[k] = e]
          PROVE  FencedNotRegistered'
      BY <2>1, <2>2, <2>6 DEF Catalog, Descriptor
    <2>7. ASSUME catalog'.backends = catalog.backends, catalog'.fenced = catalog.fenced
          PROVE  FencedNotRegistered'
      BY <2>2, <2>7
    <2>8. CASE CatalogCall
      <3>1. ASSUME NEW g, NEW life, register_model(g, life) PROVE FencedNotRegistered'
        BY <2>1, <2>7, <3>1 DEF register_model, Catalog
      <3>2. CASE retire_model
        BY <2>1, <2>7, <3>2 DEF retire_model, Apply, Catalog
      <3>3. ASSUME NEW reg \in 1..MaxReg, NEW g \in 1..MaxBackendGen, NEW boot \in 1..MaxBoot,
                   NEW mg \in 1..MaxModelGen, NEW ev \in RegEvidence
            PROVE  [reg |-> reg, gen |-> g, boot |-> boot, mgen |-> mg, ev |-> ev] \in Descriptor
        BY RouterAssumption DEF Descriptor
      <3>4. ASSUME NEW b \in Backends, unregister_backend(b) PROVE FencedNotRegistered'
        BY <2>3, <3>4 DEF unregister_backend
      <3>5. ASSUME NEW b \in Backends, NEW boot, fence_backend_boot(b, 0, boot)
            PROVE  FencedNotRegistered'
        <4>1. retires_current(catalog.backends[b], 0, boot) \in BOOLEAN
          BY DEF retires_current
        <4>2. registered(catalog, b) /\ catalog.backends[b].boot = boot =>
                  retires_current(catalog.backends[b], 0, boot)
          BY DEF registered, retires_current
        <4> QED
          BY <2>3, <3>5, <4>1, <4>2 DEF fence_backend_boot
      <3>6. ASSUME NEW b \in Backends, NEW k \in BootKinds, NEW boot, NEW e, NEW t0,
                   apply_evidence(b, k, boot, e, t0)
            PROVE  FencedNotRegistered'
        BY <2>6, <3>6 DEF apply_evidence, Kinds
      <3>7. ASSUME NEW b, NEW boot, update_latency(b, boot) PROVE FencedNotRegistered'
        BY <2>7, <3>7 DEF update_latency, Apply
      <3>8. ASSUME NEW b \in Backends, NEW e, set_trust(b, e) PROVE FencedNotRegistered'
        <4> DEFINE n == [catalog.backends[b] EXCEPT !.ev["trust"] = e]
        <4>1. n.reg = catalog.backends[b].reg /\ n.boot = catalog.backends[b].boot
          BY <2>1 DEF Descriptor
        <4>2. catalog' = catalog \/ catalog' = [catalog EXCEPT !.backends[b] = n]
          BY <3>8 DEF set_trust, Apply
        <4> HIDE DEF n
        <4> QED
          BY <2>5, <2>7, <4>1, <4>2
      <3>9. ASSUME NEW b \in Backends, NEW e, set_cost(b, e) PROVE FencedNotRegistered'
        <4>1. "price" \in Kinds
          BY DEF Kinds
        <4> QED
          BY <2>6, <3>9, <4>1 DEF set_cost, Apply
      <3>10. ASSUME NEW s, NEW g, NEW deny, set_snapshot(s, g, deny) PROVE FencedNotRegistered'
        BY <2>1, <2>7, <3>10 DEF set_snapshot, Apply, Catalog
      <3> QED
        BY <2>4, <2>8, <3>1, <3>2, <3>3, <3>4, <3>5, <3>6, <3>7, <3>8, <3>9, <3>10
        DEF CatalogCall
    <2>9. CASE ~CatalogCall
      BY <2>7, <2>9, OnlyCatalogCallsRegister
    <2> QED
      BY <2>8, <2>9
  <1> QED
    BY <1>1, <1>2, TypeCorrect, PTL DEF Spec

-----------------------------------------------------------------------------
(* Monotonicity of authority.                                               *)

\* What AuthorityMonotone says of one step.
Advances ==
    /\ catalog.fenced \subseteq catalog'.fenced
    /\ catalog.epoch <= catalog'.epoch
    /\ catalog.model.gen <= catalog'.model.gen
    /\ \A s \in Snapshots : catalog.snap[s].gen <= catalog'.snap[s].gen
    /\ \A b \in Backends : watermark[b] <= watermark'[b]

\* A publication that generation_regressed lets pass is not older.
LEMMA NotRegressed ==
    ASSUME NEW n \in Nat \ {0}, NEW m \in Nat, ~generation_regressed(n, m)
    PROVE  m <= n
  BY DEF generation_regressed

\* No step takes authority back.
LEMMA StepAdvances ==
    ASSUME TypeOK, [Next]_vars
    PROVE  Advances
  <1>1. /\ catalog \in Catalog /\ catalog.epoch \in Nat /\ catalog.model \in Model
        /\ catalog.model.gen \in Nat /\ watermark \in [Backends -> Nat]
        /\ catalog.snap \in [Snapshots -> Snapshot]
        /\ \A s \in Snapshots : catalog.snap[s].gen \in Nat
    BY DEF TypeOK, Catalog, Model, Snapshot
  <1>2. ASSUME catalog.fenced \subseteq catalog'.fenced, catalog'.epoch = catalog.epoch,
               catalog'.model.gen = catalog.model.gen, catalog'.snap = catalog.snap,
               watermark' = watermark
        PROVE  Advances
    BY <1>1, <1>2 DEF Advances
  <1>3. CASE CatalogCall
    <2>1. ASSUME NEW g \in 1..MaxModelGen, NEW life, register_model(g, life) PROVE Advances
      <3>1. catalog.model.gen <= g
        BY <1>1, <2>1, NotRegressed DEF register_model
      <3>2. /\ catalog'.fenced = catalog.fenced /\ catalog'.epoch = catalog.epoch
            /\ catalog'.model.gen = g /\ catalog'.snap = catalog.snap
            /\ watermark' = watermark
        BY <1>1, <2>1 DEF register_model, Catalog
      <3> QED
        BY <1>1, <3>1, <3>2 DEF Advances
    <2>2. CASE retire_model
      BY <1>1, <1>2, <2>2 DEF retire_model, Apply, Catalog, Model
    <2>3. ASSUME NEW b \in Backends, NEW d, d.gen \in Nat \ {0}, register_backend(b, d)
          PROVE  Advances
      <3>1. watermark[b] <= d.gen
        BY <1>1, <2>3, NotRegressed DEF register_backend
      <3>2. /\ catalog'.fenced = catalog.fenced /\ catalog'.epoch = catalog.epoch
            /\ catalog'.model = catalog.model /\ catalog'.snap = catalog.snap
            /\ watermark' = [watermark EXCEPT ![b] = d.gen]
        BY <1>1, <2>3 DEF register_backend, Apply, Catalog
      <3> QED
        BY <1>1, <3>1, <3>2 DEF Advances
    <2>4. ASSUME NEW b, NEW boot, NEW erase, Retire(b, boot, erase) PROVE Advances
      BY <1>1, <1>2, <2>4 DEF Retire, Catalog
    <2>5. ASSUME NEW b, NEW k, NEW boot, NEW e, NEW t0, apply_evidence(b, k, boot, e, t0)
          PROVE  Advances
      BY <1>1, <1>2, <2>5 DEF apply_evidence, Catalog
    <2>6. ASSUME NEW b, NEW boot, update_latency(b, boot) PROVE Advances
      BY <1>2, <2>6 DEF update_latency, Apply
    <2>7. ASSUME NEW b, NEW e, set_trust(b, e) PROVE Advances
      <3>1. PICK n : catalog' = catalog \/ catalog' = [catalog EXCEPT !.backends[b] = n]
        BY <2>7 DEF set_trust, Apply
      <3>2. watermark' = watermark
        BY <2>7 DEF set_trust
      <3> QED
        BY <1>1, <1>2, <3>1, <3>2 DEF Catalog
    <2>8. ASSUME NEW b, NEW e, set_cost(b, e) PROVE Advances
      BY <1>1, <1>2, <2>8 DEF set_cost, Apply, Catalog
    <2>9. ASSUME NEW s \in Snapshots, NEW g \in 1..MaxGen, NEW deny, set_snapshot(s, g, deny)
          PROVE  Advances
      <3>1. catalog.snap[s].gen <= g
        BY <1>1, <2>9, NotRegressed DEF set_snapshot
      <3>2. /\ catalog'.fenced = catalog.fenced /\ catalog'.epoch = catalog.epoch
            /\ catalog'.model = catalog.model /\ watermark' = watermark
            /\ catalog'.snap = [catalog.snap EXCEPT ![s] = [gen |-> g, deny |-> deny]]
        BY <1>1, <2>9 DEF set_snapshot, Apply, Catalog
      <3>3. \A x \in Snapshots : catalog.snap[x].gen <= catalog'.snap[x].gen
        BY <1>1, <3>1, <3>2
      <3> QED
        BY <1>1, <3>2, <3>3 DEF Advances
    <2>10. ASSUME NEW g \in 1..MaxBackendGen PROVE g \in Nat \ {0}
      OBVIOUS
    <2>11. ASSUME NEW b, unregister_backend(b) PROVE Advances
      BY <2>4, <2>11 DEF unregister_backend
    <2>12. ASSUME NEW b, NEW g, NEW boot, fence_backend_boot(b, g, boot) PROVE Advances
      BY <2>4, <2>12 DEF fence_backend_boot
    <2> QED
      BY <1>3, <2>1, <2>2, <2>3, <2>5, <2>6, <2>7, <2>8, <2>9, <2>10, <2>11, <2>12
      DEF CatalogCall
  <1>4. CASE ~CatalogCall
    BY <1>1, <1>4, OnlyCatalogCallsRegister DEF Advances
  <1> QED
    BY <1>3, <1>4

\* Fences, epochs, snapshot and model generations and registration watermarks
\* never go back, in whatever order publications, registrations and restarts
\* arrive.
THEOREM AuthorityAdvances == Spec => AuthorityMonotone
  <1>1. TypeOK /\ [Next]_vars => [Advances]_vars
    BY StepAdvances
  <1>2. [][Advances]_vars => AuthorityMonotone
    BY DEF Advances, AuthorityMonotone
  <1> QED
    BY <1>1, <1>2, TypeCorrect, PTL DEF Spec

=============================================================================
