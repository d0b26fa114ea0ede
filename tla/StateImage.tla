------------------------------ MODULE StateImage ------------------------------
(***************************************************************************)
(* The state file: header, checksums, digest and records                   *)
(* (RouterStateStore::encode and decode in src/src/persistence.cpp).       *)
(* write_x list the calls of the writer, read_x those of the reader.       *)
(***************************************************************************)
EXTENDS Codec, Functions

persistence_magic == <<77, 82, 83, 84, 65, 84, 69, 0>>
persistence_format_version == 1
persistence_header_bytes == 72

\* RankingWeights{} and the limits a ResourceLimits{} has that the meta record has not.
DefaultWeights == "default"
DefaultLimits == "default"

write_capability ==
    Str(<<"key">>) \o Enum("state", 1, 7)
    \o U64(<<"generation", "profile_id", "model_generation", "backend_generation",
             "backend_boot">>)
    \o I64(<<"observed_at", "expires_at">>) \o Str(<<"source", "detail">>)

read_capability ==
    Str(<<"key">>) \o Enum("state", 1, 7)
    \o U64(<<"generation", "profile_id", "model_generation", "backend_generation",
             "backend_boot">>)
    \o I64(<<"observed_at", "expires_at">>) \o Str(<<"source", "detail">>)

write_profile ==
    U64(<<"id", "generation">>) \o List("entries", "max_capability_entries", write_capability)

read_profile ==
    U64(<<"id", "generation">>) \o List("entries", "max_capability_entries", read_capability)

write_cost ==
    U64(<<"evidence_id", "price_generation", "backend_id", "model_id">>)
    \o Str(<<"unit.currency", "unit.basis">>)
    \o I64(<<"input_micros_per_unit", "output_micros_per_unit", "request_minimum_micros",
             "cache_read_micros_per_unit", "cache_write_micros_per_unit",
             "estimated_total_micros">>)
    \o Enum("knownness", 1, 4)
    \o I64(<<"effective_at", "expires_at">>) \o Str(<<"source">>)

read_cost ==
    U64(<<"evidence_id", "price_generation", "backend_id", "model_id">>)
    \o Str(<<"unit.currency", "unit.basis">>)
    \o I64(<<"input_micros_per_unit", "output_micros_per_unit", "request_minimum_micros",
             "cache_read_micros_per_unit", "cache_write_micros_per_unit",
             "estimated_total_micros">>)
    \o Enum("knownness", 1, 4)
    \o I64(<<"effective_at", "expires_at">>) \o Str(<<"source">>)

write_authority ==
    U64(<<"router_id", "router_epoch", "coordinator_epoch", "request_id", "request_generation",
          "decision_id", "decision_generation", "model_id", "model_generation",
          "artifact_generation", "provider_id", "provider_generation", "backend_id",
          "backend_generation", "backend_boot", "registration_generation", "endpoint_id",
          "endpoint_generation", "capability_profile_id", "capability_generation", "policy_id",
          "policy_generation", "budget_id", "budget_generation", "cost_evidence_id",
          "price_generation", "slo_id", "slo_generation", "compatibility_profile_id",
          "compatibility_generation", "trust_profile_id", "trust_generation",
          "health_generation", "availability_generation", "readiness_generation",
          "residency_generation", "capacity_generation", "reservation_id",
          "reservation_generation", "tenant", "name_space", "dispatch_generation">>)
    \o I64(<<"issued_at", "expires_at">>)

read_authority ==
    U64(<<"router_id", "router_epoch", "coordinator_epoch", "request_id", "request_generation",
          "decision_id", "decision_generation", "model_id", "model_generation",
          "artifact_generation", "provider_id", "provider_generation", "backend_id",
          "backend_generation", "backend_boot", "registration_generation", "endpoint_id",
          "endpoint_generation", "capability_profile_id", "capability_generation", "policy_id",
          "policy_generation", "budget_id", "budget_generation", "cost_evidence_id",
          "price_generation", "slo_id", "slo_generation", "compatibility_profile_id",
          "compatibility_generation", "trust_profile_id", "trust_generation",
          "health_generation", "availability_generation", "readiness_generation",
          "residency_generation", "capacity_generation", "reservation_id",
          "reservation_generation", "tenant", "name_space", "dispatch_generation">>)
    \o I64(<<"issued_at", "expires_at">>)

write_candidate_key ==
    U64(<<"model_id", "model_generation", "artifact_generation", "backend_id",
          "backend_generation", "backend_boot", "endpoint_id", "endpoint_generation">>)

read_candidate_key ==
    U64(<<"model_id", "model_generation", "artifact_generation", "backend_id",
          "backend_generation", "backend_boot", "endpoint_id", "endpoint_generation">>)

\* Records, in the order encode writes them; decode takes them in any order.
write_meta ==
    U64(<<"router_id", "router_generation", "last_router_epoch", "last_coordinator_epoch",
          "last_boot", "last_policy_generation", "last_price_generation",
          "last_budget_generation", "last_slo_generation", "last_capability_generation",
          "last_model_generation", "last_backend_generation">>)
    \o I64(<<"saved_at", "last_started_at">>)
    \o U64(<<"highest_identity_issued", "route_requests", "route_decisions", "dispatches",
             "route_rejections", "reroutes", "fallbacks_taken">>)
    \o U32(<<"max_models", "max_backends", "max_route_history", "max_fallback_candidates",
             "max_explanation_factors", "max_string_bytes",
             "max_capability_entries_per_backend", "max_model_bindings_per_backend">>)

read_meta ==
    U64(<<"router_id", "router_generation", "last_router_epoch", "last_coordinator_epoch",
          "last_boot", "last_policy_generation", "last_price_generation",
          "last_budget_generation", "last_slo_generation", "last_capability_generation",
          "last_model_generation", "last_backend_generation">>)
    \o I64(<<"saved_at", "last_started_at">>)
    \o U64(<<"highest_identity_issued", "route_requests", "route_decisions", "dispatches",
             "route_rejections", "reroutes", "fallbacks_taken">>)
    \o U32(<<"max_models", "max_backends", "max_route_history", "max_fallback_candidates",
             "max_explanation_factors", "max_string_bytes",
             "max_capability_entries_per_backend", "max_model_bindings_per_backend">>)

write_model ==
    U64(<<"model_id", "model_generation", "model_version_id", "artifact_generation",
          "family_id">>)
    \o U32(<<"context_limit_tokens", "max_output_tokens", "input_modalities",
             "output_modalities", "quality_class">>)
    \o U8(<<"lifecycle">>) \o U64(<<"capability_profile_id", "capability_generation">>)
    \o Struct("capabilities", write_profile)
    \o U8(<<"provenance">>) \o I64(<<"registered_at", "expires_at">>)
    \o Str(<<"display_name">>)

read_model ==
    U64(<<"model_id", "model_generation", "model_version_id", "artifact_generation",
          "family_id">>)
    \o U32(<<"context_limit_tokens", "max_output_tokens", "input_modalities",
             "output_modalities", "quality_class">>)
    \o U8(<<"lifecycle">>) \o U64(<<"capability_profile_id", "capability_generation">>)
    \o Struct("capabilities", read_profile)
    \o U8(<<"provenance">>) \o I64(<<"registered_at", "expires_at">>)
    \o Str(<<"display_name">>)

write_backend ==
    U64(<<"backend_id", "backend_generation", "last_boot", "last_registration_generation",
          "provider_id", "provider_generation", "endpoint_id", "last_endpoint_generation",
          "trust_profile_id", "trust_generation">>)
    \o U8(<<"trust_domain">>) \o Str(<<"locality">>) \o U32(<<"network_distance">>)
    \o U64(<<"capability_profile_id", "capability_generation">>)
    \o Struct("capabilities", write_profile)
    \o List("model_bindings", "max_model_bindings_per_backend",
            U64(<<"model_id", "model_generation", "artifact_generation">>)
            \o U32(<<"context_limit_tokens", "quality_class">>)
            \o Struct("cost", write_cost) \o I64(<<"bound_at">>))
    \o Bool(<<"offline_capable">>) \o U8(<<"provenance">>) \o I64(<<"registered_at">>)

read_backend ==
    U64(<<"backend_id", "backend_generation", "last_boot", "last_registration_generation",
          "provider_id", "provider_generation", "endpoint_id", "last_endpoint_generation",
          "trust_profile_id", "trust_generation">>)
    \o U8(<<"trust_domain">>) \o Str(<<"locality">>) \o U32(<<"network_distance">>)
    \o U64(<<"capability_profile_id", "capability_generation">>)
    \o Struct("capabilities", read_profile)
    \o List("model_bindings", "max_model_bindings_per_backend",
            U64(<<"model_id", "model_generation", "artifact_generation">>)
            \o U32(<<"context_limit_tokens", "quality_class">>)
            \o Struct("cost", read_cost) \o I64(<<"bound_at">>))
    \o Bool(<<"offline_capable">>) \o U8(<<"provenance">>) \o I64(<<"registered_at">>)

write_fenced ==
    U64(<<"backend_id", "backend_generation", "backend_boot">>) \o U16(<<"reason">>)
    \o I64(<<"fenced_at">>)

\* Mutant: the reader takes the time before the reason.
read_fenced_swapped ==
    U64(<<"backend_id", "backend_generation", "backend_boot">>) \o I64(<<"fenced_at">>)
    \o U16(<<"reason">>)

read_fenced ==
    U64(<<"backend_id", "backend_generation", "backend_boot">>) \o U16(<<"reason">>)
    \o I64(<<"fenced_at">>)

write_route ==
    U64(<<"decision_id", "decision_generation", "request_id", "request_generation">>)
    \o Struct("winner", write_candidate_key)
    \o List("fallbacks", "max_fallback_candidates", write_candidate_key)
    \o Struct("authority", write_authority)
    \o U8(<<"status">>) \o U16(<<"code">>) \o Struct("cost", write_cost)
    \o U64(<<"policy_generation", "price_generation", "budget_generation", "slo_generation">>)
    \o Str(<<"semantic_digest", "requirement_digest">>) \o I64(<<"created_at">>)

read_route ==
    U64(<<"decision_id", "decision_generation", "request_id", "request_generation">>)
    \o Struct("winner", read_candidate_key)
    \o List("fallbacks", "max_fallback_candidates", read_candidate_key)
    \o Struct("authority", read_authority)
    \o U8(<<"status">>) \o U16(<<"code">>) \o Struct("cost", read_cost)
    \o U64(<<"policy_generation", "price_generation", "budget_generation", "slo_generation">>)
    \o Str(<<"semantic_digest", "requirement_digest">>) \o I64(<<"created_at">>)

\* Record kinds, and where a record of each kind is kept.
Lists == <<"models", "backends", "fenced_boots", "routes">>
WriteRecord == <<write_meta, write_model, write_backend, write_fenced, write_route>>
ReadRecord == <<read_meta, read_model, read_backend, read_fenced, read_route>>

-----------------------------------------------------------------------------
\* std::sort by the comparison of each list, whose keys differ.
Less(a, b, keys) ==
    \E i \in DOMAIN keys : a[keys[i]] < b[keys[i]] /\ \A k \in 1..(i - 1) : a[keys[k]] = b[keys[k]]
Orders(s) == {[i \in DOMAIN s |-> s[p[i]]] : p \in Bijection(DOMAIN s, DOMAIN s)}
sort(s, keys) ==
    CHOOSE t \in Orders(s) : \A i, j \in DOMAIN s : i < j => ~Less(t[j], t[i], keys)

model_keys == <<"model_id", "model_generation">>
backend_keys == <<"backend_id">>
binding_keys == <<"model_id">>
fenced_keys == <<"backend_id", "backend_boot", "backend_generation", "reason">>
route_keys == <<"decision_id">>

\* Mutant: the order the records were inserted in is kept.
canonicalize_nothing(state) == state

canonicalize(state) ==
    LET sort_bindings(b) == [b EXCEPT !.model_bindings = sort(@, binding_keys)]
        backends == sort(state.backends, backend_keys)
    IN  [meta |-> state.meta,
         models |-> sort(state.models, model_keys),
         backends |-> [i \in DOMAIN backends |-> sort_bindings(backends[i])],
         fenced_boots |-> sort(state.fenced_boots, fenced_keys),
         routes |-> sort(state.routes, route_keys),
         weights |-> state.weights, other_limits |-> state.other_limits]

\* RouterPersistentState::validate and ModelDescriptor::validate.
ValidModel(m) ==
    /\ m.model_id # 0 /\ m.model_generation # 0 /\ m.artifact_generation # 0
    /\ m.context_limit_tokens # 0 /\ m.max_output_tokens <= m.context_limit_tokens
    /\ m.input_modalities # 0 /\ m.output_modalities # 0
    /\ (m.capability_profile_id # 0) = (m.capability_generation # 0)

Records(state) == Len(state.models) + Len(state.backends) + Len(state.fenced_boots)
                  + Len(state.routes)

validate(state, limits) ==
    /\ state.meta.router_id # 0 /\ state.meta.router_generation # 0
    /\ Len(state.models) <= limits.max_models /\ Len(state.backends) <= limits.max_backends
    /\ Len(state.fenced_boots) <= limits.max_backend_incarnations
    /\ Len(state.routes) <= limits.max_route_history
    /\ Records(state) <= limits.max_persistence_records
    /\ \A i \in DOMAIN state.models : ValidModel(state.models[i])
    /\ \A i \in DOMAIN state.backends :
          LET b == state.backends[i] IN
          /\ b.backend_id # 0 /\ b.backend_generation # 0 /\ b.last_boot # 0
          /\ Len(b.model_bindings) <= limits.max_model_bindings_per_backend
          /\ Len(b.capabilities.entries) <= limits.max_capability_entries_per_backend
    /\ \A i \in DOMAIN state.fenced_boots :
          state.fenced_boots[i].backend_id # 0 /\ state.fenced_boots[i].backend_boot # 0
    /\ \A i \in DOMAIN state.routes :
          state.routes[i].decision_id # 0 /\ state.routes[i].decision_generation # 0

\* What the digest covers, in the order it is rendered.
canonical_text(state) ==
    LET m == state.meta
        flat(s, part(_)) == Concat([i \in DOMAIN s |-> part(s[i])])
    IN  <<m.router_id, m.router_generation, m.last_router_epoch, m.last_coordinator_epoch,
          m.last_boot, m.saved_at, m.highest_identity_issued, m.route_requests,
          m.route_decisions, m.dispatches, m.route_rejections, m.reroutes, m.fallbacks_taken>>
        \o flat(state.models, LAMBDA r : <<1, r.model_id, r.model_generation,
                                           r.artifact_generation, r.lifecycle>>)
        \o flat(state.backends, LAMBDA r : <<2, r.backend_id, r.backend_generation, r.last_boot,
                                             Len(r.model_bindings)>>)
        \o flat(state.fenced_boots, LAMBDA r : <<3, r.backend_id, r.backend_boot>>)
        \o flat(state.routes, LAMBDA r : <<4, r.decision_id>> \o r.semantic_digest)

-----------------------------------------------------------------------------
\* write_record.
write_record(kind, r) ==
    LET body == writer_bytes(WriteRecord[kind], r)
    IN  put_int(kind, 2) \o put_int(Len(body), 4) \o body

\* The records in the order encode writes them.
AllRecords(state) ==
    LET of(kind) == [i \in DOMAIN state[Lists[kind - 1]] |->
                        [kind |-> kind, value |-> state[Lists[kind - 1]][i]]]
    IN  <<[kind |-> 1, value |-> state.meta]>> \o of(2) \o of(3) \o of(4) \o of(5)

Payload(state) ==
    LET records == AllRecords(state)
    IN  Concat([i \in DOMAIN records |-> write_record(records[i].kind, records[i].value)])

WritersOk(state, limits) ==
    \A kind \in 2..5 : LET rs == state[Lists[kind - 1]] IN
        \A i \in DOMAIN rs : writer_ok(WriteRecord[kind], rs[i], limits)

write_header(state, payload) ==
    LET covered == persistence_magic \o put_int(persistence_format_version, 4)
                   \o put_int(persistence_header_bytes, 4) \o put_int(0, 4)
                   \o put_int(Records(state) + 1, 4) \o put_int(Len(payload), 8)
                   \o put_int(crc32c(payload), 4)
    IN  covered \o put_int(crc32c(covered), 4) \o sha256(canonical_text(state))

Rejected == [ok |-> FALSE]

encode(state, limits) ==
    LET canonical == canonicalize(state)
        payload == Payload(canonical)
    IN  IF /\ validate(canonical, limits) /\ WritersOk(canonical, limits)
           /\ Records(canonical) + 1 <= limits.max_persistence_records
           /\ persistence_header_bytes + Len(payload) <= limits.max_persistence_bytes
        THEN [ok |-> TRUE, bytes |-> write_header(canonical, payload) \o payload]
        ELSE Rejected

-----------------------------------------------------------------------------
\* The state decode() starts from; `seen' counts records.
Nothing == [meta |-> <<>>, models |-> <<>>, backends |-> <<>>, fenced_boots |-> <<>>,
            routes |-> <<>>, weights |-> DefaultWeights, other_limits |-> DefaultLimits]
Start == [ok |-> TRUE, off |-> 0, seen |-> 0, state |-> Nothing]

\* One record.  The meta record is not asked whether it was read to its end: one that ends
\* early would be read as zeros, but no payload with a correct checksum has one.
read_record(payload, acc, limits) ==
    LET kind == number(payload, acc.off, 2)
        length == number(payload, acc.off + 2, 4)
        body == field(payload, acc.off + 6, length)
        r == read(ReadRecord[kind], body, 0, limits)
        taken(state) == [ok |-> TRUE, off |-> acc.off + 6 + length, seen |-> acc.seen + 1,
                         state |-> state]
    IN  IF \/ Len(payload) - acc.off < 6
           \/ length > Len(payload) - acc.off - 6
           \/ acc.seen + 1 > limits.max_persistence_records
           \/ kind \notin 1..5
           \/ kind = 1 /\ acc.state.meta # <<>>
           \/ kind # 1 /\ ~(r.ok /\ Exhausted(body, r))
        THEN Rejected
        ELSE IF kind = 1 THEN taken([acc.state EXCEPT !.meta = r.val])
        ELSE taken([acc.state EXCEPT ![Lists[kind - 1]] = Append(@, r.val)])

\* Records until the payload ends; the one over the limit is rejected.
read_records(payload, limits) ==
    LET upto[k \in 0..(limits.max_persistence_records + 1)] ==
            IF k = 0 THEN Start
            ELSE LET acc == upto[k - 1]
                 IN  IF ~acc.ok \/ acc.off >= Len(payload) THEN acc
                     ELSE read_record(payload, acc, limits)
    IN  upto[limits.max_persistence_records + 1]

\* What decode compares before it looks at a record.
header_accepted(bs, payload, limits) ==
    /\ Len(bs) >= persistence_header_bytes /\ Len(bs) <= limits.max_persistence_bytes
    /\ field(bs, 0, 8) = persistence_magic
    /\ number(bs, 8, 4) = persistence_format_version
    /\ number(bs, 12, 4) = persistence_header_bytes
    /\ number(bs, 16, 4) = 0
    /\ field(bs, 36, 4) = put_int(crc32c(field(bs, 0, 36)), 4)
    /\ number(bs, 24, 8) <= limits.max_payload_bytes
    /\ Len(bs) = persistence_header_bytes + number(bs, 24, 8)
    /\ field(bs, 32, 4) = put_int(crc32c(payload), 4)

\* The records are complete, the state they give is valid and has the digest of the header.
decode(bs, limits) ==
    LET payload == SubSeq(bs, persistence_header_bytes + 1, Len(bs))
        parsed == read_records(payload, limits)
        state == canonicalize(parsed.state)
    IN  IF /\ header_accepted(bs, payload, limits)
           /\ parsed.ok
           /\ parsed.state.meta # <<>>
           /\ parsed.seen = number(bs, 20, 4)
           /\ validate(state, limits)
           /\ field(bs, 40, 32) = sha256(canonical_text(state))
        THEN [ok |-> TRUE, state |-> state]
        ELSE Rejected

=============================================================================
