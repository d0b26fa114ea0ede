--------------------------------- MODULE Wire ---------------------------------
(***************************************************************************)
(* The framed wire protocol: frame header and checksums, and the layout    *)
(* every message is written and read with                                  *)
(* (src/src/distributed/protocol.cpp).  put_x and encode_x list the calls  *)
(* of the writer, get_x and decode_x those of the reader.                  *)
(***************************************************************************)
EXTENDS Codec

frame_magic == 1297241158
protocol_version == 1
frame_header_bytes == 24
MessageTypes == 27                   \* MessageType::kCount

\* Parts of messages.
put_cost ==
    U64(<<"evidence_id", "price_generation", "backend_id", "model_id">>)
    \o Str(<<"unit.currency", "unit.basis">>)
    \o I64(<<"input_micros_per_unit", "output_micros_per_unit", "request_minimum_micros",
             "cache_read_micros_per_unit", "cache_write_micros_per_unit",
             "estimated_total_micros">>)
    \o Enum("knownness", 1, 4)
    \o I64(<<"effective_at", "expires_at">>) \o Str(<<"source">>)

get_cost ==
    U64(<<"evidence_id", "price_generation", "backend_id", "model_id">>)
    \o Str(<<"unit.currency", "unit.basis">>)
    \o I64(<<"input_micros_per_unit", "output_micros_per_unit", "request_minimum_micros",
             "cache_read_micros_per_unit", "cache_write_micros_per_unit",
             "estimated_total_micros">>)
    \o Enum("knownness", 1, 4)
    \o I64(<<"effective_at", "expires_at">>) \o Str(<<"source">>)

put_backend ==
    U64(<<"backend_id", "backend_generation", "backend_boot", "registration_generation",
          "provider_id", "provider_generation", "endpoint.id", "endpoint.generation",
          "endpoint.backend_id", "endpoint.backend_boot">>)
    \o Str(<<"endpoint.reference", "endpoint.protocol">>) \o U32(<<"endpoint.protocol_version">>)
    \o U64(<<"trust_profile_id", "trust_generation">>) \o U8(<<"trust_domain">>)
    \o Str(<<"locality">>) \o U32(<<"network_distance">>)
    \o U64(<<"capability_profile_id", "capability_generation", "compatibility_profile_id",
             "compatibility_generation">>)
    \o List("model_bindings", "max_model_bindings_per_backend",
            U64(<<"model_id", "model_generation", "artifact_generation">>)
            \o U32(<<"context_limit_tokens", "quality_class">>)
            \o Struct("cost", put_cost) \o I64(<<"bound_at">>))
    \o U32(<<"reliability_ppm">>) \o Bool(<<"offline_capable">>) \o U8(<<"provenance">>)
    \o I64(<<"registered_at", "expires_at">>)

get_backend ==
    U64(<<"backend_id", "backend_generation", "backend_boot", "registration_generation",
          "provider_id", "provider_generation", "endpoint.id", "endpoint.generation",
          "endpoint.backend_id", "endpoint.backend_boot">>)
    \o Str(<<"endpoint.reference", "endpoint.protocol">>) \o U32(<<"endpoint.protocol_version">>)
    \o U64(<<"trust_profile_id", "trust_generation">>) \o U8(<<"trust_domain">>)
    \o Str(<<"locality">>) \o U32(<<"network_distance">>)
    \o U64(<<"capability_profile_id", "capability_generation", "compatibility_profile_id",
             "compatibility_generation">>)
    \o List("model_bindings", "max_model_bindings_per_backend",
            U64(<<"model_id", "model_generation", "artifact_generation">>)
            \o U32(<<"context_limit_tokens", "quality_class">>)
            \o Struct("cost", get_cost) \o I64(<<"bound_at">>))
    \o U32(<<"reliability_ppm">>) \o Bool(<<"offline_capable">>) \o U8(<<"provenance">>)
    \o I64(<<"registered_at", "expires_at">>)

put_candidate_key ==
    U64(<<"model_id", "model_generation", "artifact_generation", "backend_id",
          "backend_generation", "backend_boot", "endpoint_id", "endpoint_generation">>)

get_candidate_key ==
    U64(<<"model_id", "model_generation", "artifact_generation", "backend_id",
          "backend_generation", "backend_boot", "endpoint_id", "endpoint_generation">>)

put_authority ==
    U64(<<"router_id", "router_epoch", "coordinator_epoch", "request_id", "request_generation",
          "decision_id", "decision_generation", "model_id", "model_generation",
          "artifact_generation", "provider_id", "provider_generation", "backend_id",
          "backend_generation", "backend_boot", "registration_generation", "endpoint_id",
          "endpoint_generation", "capability_profile_id", "capability_generation", "policy_id",
          "policy_generation", "budget_id", "budget_generation", "cost_evidence_id",
          "price_generation", "slo_id", "slo_generation", "compatibility_profile_id",
          "compatibility_generation", "trust_profile_id", "trust_generation",
          "health_generation", "availability_generation", "readiness_generation",
          "residency_generation", "capacity_generation", "reservation_id",
          "reservation_generation", "tenant", "name_space", "dispatch_generation">>)
    \o I64(<<"issued_at", "expires_at">>)

get_authority ==
    U64(<<"router_id", "router_epoch", "coordinator_epoch", "request_id", "request_generation",
          "decision_id", "decision_generation", "model_id", "model_generation",
          "artifact_generation", "provider_id", "provider_generation", "backend_id",
          "backend_generation", "backend_boot", "registration_generation", "endpoint_id",
          "endpoint_generation", "capability_profile_id", "capability_generation", "policy_id",
          "policy_generation", "budget_id", "budget_generation", "cost_evidence_id",
          "price_generation", "slo_id", "slo_generation", "compatibility_profile_id",
          "compatibility_generation", "trust_profile_id", "trust_generation",
          "health_generation", "availability_generation", "readiness_generation",
          "residency_generation", "capacity_generation", "reservation_id",
          "reservation_generation", "tenant", "name_space", "dispatch_generation">>)
    \o I64(<<"issued_at", "expires_at">>)
put_ids(name) == List(name, "max_allowlist_entries", U64(<<"id">>))
get_ids(name) == List(name, "max_allowlist_entries", U64(<<"id">>))

put_requirements ==
    List("required_capabilities", "max_requirement_entries",
         Str(<<"key">>) \o Enum("minimum_state", 1, 7))
    \o List("preferred_capabilities", "max_requirement_entries", Str(<<"key">>))
    \o U8(<<"minimum_capability_evidence">>)
    \o U32(<<"min_context_tokens", "max_output_tokens", "input_modalities",
             "output_modalities">>)
    \o Bool(<<"structured_output", "json_schema", "tool_calling", "streaming", "logprobs",
              "deterministic_seed">>)
    \o U32(<<"quality_floor">>)
    \o put_ids("model_allowlist") \o put_ids("model_denylist")
    \o put_ids("family_allowlist") \o put_ids("family_denylist")
    \o put_ids("provider_allowlist") \o put_ids("provider_denylist")
    \o put_ids("backend_allowlist") \o put_ids("backend_denylist")
    \o Bool(<<"local_only", "offline_only", "remote_allowed">>)
    \o List("required_localities", "max_allowlist_entries", Str(<<"key">>))
    \o List("denied_localities", "max_allowlist_entries", Str(<<"key">>))
    \o U8(<<"minimum_trust">>)
    \o Bool(<<"known_cost", "enforce_cost_ceiling">>)
    \o Str(<<"maximum_cost.currency", "maximum_cost.basis">>) \o I64(<<"maximum_cost.micros">>)
    \o U32(<<"max_latency_micros", "deadline_micros">>)
    \o Bool(<<"slo", "available", "healthy", "ready", "resident", "capacity", "reservation",
              "known_latency", "known_compatibility">>)
    \o Str(<<"required_protocol">>) \o U32(<<"required_protocol_version">>)
    \o U64(<<"affinity_model", "affinity_provider", "affinity_backend">>)
    \o Bool(<<"same_model_family", "same_provider", "same_backend", "context_locality">>)
    \o U64(<<"sticky_family", "sticky_provider", "sticky_backend">>)
    \o Bool(<<"allow_fallbacks">>) \o U8(<<"fallback_policy">>)
    \o Bool(<<"allow_retry", "allow_reroute", "allow_model_switch", "allow_provider_switch">>)
    \o U32(<<"max_attempts", "max_fallbacks">>)

get_requirements ==
    List("required_capabilities", "max_requirement_entries",
         Str(<<"key">>) \o Enum("minimum_state", 1, 7))
    \o List("preferred_capabilities", "max_requirement_entries", Str(<<"key">>))
    \o U8(<<"minimum_capability_evidence">>)
    \o U32(<<"min_context_tokens", "max_output_tokens", "input_modalities",
             "output_modalities">>)
    \o Bool(<<"structured_output", "json_schema", "tool_calling", "streaming", "logprobs",
              "deterministic_seed">>)
    \o U32(<<"quality_floor">>)
    \o get_ids("model_allowlist") \o get_ids("model_denylist")
    \o get_ids("family_allowlist") \o get_ids("family_denylist")
    \o get_ids("provider_allowlist") \o get_ids("provider_denylist")
    \o get_ids("backend_allowlist") \o get_ids("backend_denylist")
    \o Bool(<<"local_only", "offline_only", "remote_allowed">>)
    \o List("required_localities", "max_allowlist_entries", Str(<<"key">>))
    \o List("denied_localities", "max_allowlist_entries", Str(<<"key">>))
    \o U8(<<"minimum_trust">>)
    \o Bool(<<"known_cost", "enforce_cost_ceiling">>)
    \o Str(<<"maximum_cost.currency", "maximum_cost.basis">>) \o I64(<<"maximum_cost.micros">>)
    \o U32(<<"max_latency_micros", "deadline_micros">>)
    \o Bool(<<"slo", "available", "healthy", "ready", "resident", "capacity", "reservation",
              "known_latency", "known_compatibility">>)
    \o Str(<<"required_protocol">>) \o U32(<<"required_protocol_version">>)
    \o U64(<<"affinity_model", "affinity_provider", "affinity_backend">>)
    \o Bool(<<"same_model_family", "same_provider", "same_backend", "context_locality">>)
    \o U64(<<"sticky_family", "sticky_provider", "sticky_backend">>)
    \o Bool(<<"allow_fallbacks">>) \o U8(<<"fallback_policy">>)
    \o Bool(<<"allow_retry", "allow_reroute", "allow_model_switch", "allow_provider_switch">>)
    \o U32(<<"max_attempts", "max_fallbacks">>)

put_decision ==
    U64(<<"decision_id", "decision_generation", "request_id", "request_generation">>)
    \o U8(<<"status">>) \o U16(<<"code">>)
    \o Struct("authority", put_authority) \o Struct("winner", put_candidate_key)
    \o List("fallbacks", "max_fallback_candidates", put_candidate_key)
    \o U32(<<"eligible_candidate_count", "rejected_candidate_count">>)
    \o Str(<<"tie_break_reason", "requirement_digest", "semantic_digest">>)
    \o U8(<<"currentness">>) \o U16(<<"policy_result">>)
    \o Struct("cost", put_cost)
    \o List("ranking", "max_ranked_candidates",
            Struct("key", put_candidate_key) \o I64(<<"score">>) \o U32(<<"rank">>)
            \o List("factors", "max_explanation_factors",
                    Enum("factor", 1, 29) \o Bool(<<"known">>)
                    \o I64(<<"normalized", "raw", "weight_ppm", "contribution">>)
                    \o U64(<<"evidence_generation">>) \o Str(<<"source">>)))
    \o List("rejections", "max_rejection_records",
            U64(<<"model_id", "model_generation", "backend_id", "backend_generation",
                  "backend_boot", "endpoint_id">>)
            \o U16(<<"code">>) \o Str(<<"detail">>))
    \o I64(<<"created_at">>)

get_decision ==
    U64(<<"decision_id", "decision_generation", "request_id", "request_generation">>)
    \o U8(<<"status">>) \o U16(<<"code">>)
    \o Struct("authority", get_authority) \o Struct("winner", get_candidate_key)
    \o List("fallbacks", "max_fallback_candidates", get_candidate_key)
    \o U32(<<"eligible_candidate_count", "rejected_candidate_count">>)
    \o Str(<<"tie_break_reason", "requirement_digest", "semantic_digest">>)
    \o U8(<<"currentness">>) \o U16(<<"policy_result">>)
    \o Struct("cost", get_cost)
    \o List("ranking", "max_ranked_candidates",
            Struct("key", get_candidate_key) \o I64(<<"score">>) \o U32(<<"rank">>)
            \o List("factors", "max_explanation_factors",
                    Enum("factor", 1, 29) \o Bool(<<"known">>)
                    \o I64(<<"normalized", "raw", "weight_ppm", "contribution">>)
                    \o U64(<<"evidence_generation">>) \o Str(<<"source">>)))
    \o List("rejections", "max_rejection_records",
            U64(<<"model_id", "model_generation", "backend_id", "backend_generation",
                  "backend_boot", "endpoint_id">>)
            \o U16(<<"code">>) \o Str(<<"detail">>))
    \o I64(<<"created_at">>)

put_backend_evidence(states) ==
    Enum("state", 1, states)
    \o U64(<<"generation", "backend_id", "backend_generation", "backend_boot",
             "endpoint_generation">>)
    \o I64(<<"observed_at", "expires_at">>) \o Str(<<"source", "detail">>)

get_backend_evidence(states) ==
    Enum("state", 1, states)
    \o U64(<<"generation", "backend_id", "backend_generation", "backend_boot",
             "endpoint_generation">>)
    \o I64(<<"observed_at", "expires_at">>) \o Str(<<"source", "detail">>)

-----------------------------------------------------------------------------
\* Messages.
encode_hello ==
    U64(<<"router_id", "router_epoch", "coordinator_epoch", "backend_id", "backend_generation",
          "backend_boot">>)
    \o Str(<<"product">>) \o U32(<<"protocol_version">>)

decode_hello ==
    U64(<<"router_id", "router_epoch", "coordinator_epoch", "backend_id", "backend_generation",
          "backend_boot">>)
    \o Str(<<"product">>) \o U32(<<"protocol_version">>)

encode_hello_ack ==
    U64(<<"router_id", "router_epoch", "coordinator_epoch">>)
    \o U16(<<"code">>) \o Str(<<"detail">>)

decode_hello_ack ==
    U64(<<"router_id", "router_epoch", "coordinator_epoch">>)
    \o U16(<<"code">>) \o Str(<<"detail">>)

encode_backend_register ==
    Struct("backend", put_backend)

decode_backend_register ==
    Struct("backend", get_backend)

encode_backend_register_ack ==
    U64(<<"backend_id", "backend_boot">>) \o U16(<<"code">>) \o Str(<<"detail">>)

decode_backend_register_ack ==
    U64(<<"backend_id", "backend_boot">>) \o U16(<<"code">>) \o Str(<<"detail">>)

encode_capability_publish ==
    U64(<<"backend_id", "backend_generation", "backend_boot", "profile_id", "generation">>)
    \o List("claims", "max_capability_entries_per_backend",
            Str(<<"key">>) \o Enum("state", 1, 7)
            \o U64(<<"generation", "profile_id", "model_generation", "backend_generation",
                     "backend_boot">>)
            \o I64(<<"observed_at", "expires_at">>) \o Str(<<"source", "detail">>))

decode_capability_publish ==
    U64(<<"backend_id", "backend_generation", "backend_boot", "profile_id", "generation">>)
    \o List("claims", "max_capability_entries_per_backend",
            Str(<<"key">>) \o Enum("state", 1, 7)
            \o U64(<<"generation", "profile_id", "model_generation", "backend_generation",
                     "backend_boot">>)
            \o I64(<<"observed_at", "expires_at">>) \o Str(<<"source", "detail">>))

encode_route_request ==
    U64(<<"request_id", "request_generation", "tenant", "name_space", "policy_id",
          "policy_generation", "budget_id", "budget_generation", "slo_id", "slo_generation",
          "correlation_id", "agent_runtime_id", "agent_run_id", "action_id",
          "action_generation", "attempt_generation", "work_id", "work_generation">>)
    \o U32(<<"estimated_input_tokens", "estimated_output_tokens">>)
    \o I64(<<"created_at", "expires_at">>)
    \o Struct("requirements", put_requirements)

decode_route_request ==
    U64(<<"request_id", "request_generation", "tenant", "name_space", "policy_id",
          "policy_generation", "budget_id", "budget_generation", "slo_id", "slo_generation",
          "correlation_id", "agent_runtime_id", "agent_run_id", "action_id",
          "action_generation", "attempt_generation", "work_id", "work_generation">>)
    \o U32(<<"estimated_input_tokens", "estimated_output_tokens">>)
    \o I64(<<"created_at", "expires_at">>)
    \o Struct("requirements", get_requirements)

encode_route_response ==
    U16(<<"code">>) \o Bool(<<"has_decision">>)
    \o Struct("decision", put_decision) \o Str(<<"detail">>)

decode_route_response ==
    U16(<<"code">>) \o Bool(<<"has_decision">>)
    \o Struct("decision", get_decision) \o Str(<<"detail">>)

encode_dispatch ==
    U64(<<"dispatch_id", "dispatch_generation", "decision_id", "decision_generation">>)
    \o Struct("target", put_candidate_key) \o U32(<<"attempt">>)

decode_dispatch ==
    U64(<<"dispatch_id", "dispatch_generation", "decision_id", "decision_generation">>)
    \o Struct("target", get_candidate_key) \o U32(<<"attempt">>)

encode_dispatch_result ==
    U64(<<"dispatch_id", "decision_id">>) \o U16(<<"code">>) \o Enum("failure", 1, 14)
    \o U32(<<"latency_micros">>) \o Str(<<"detail">>)

decode_dispatch_result ==
    U64(<<"dispatch_id", "decision_id">>) \o U16(<<"code">>) \o Enum("failure", 1, 14)
    \o U32(<<"latency_micros">>) \o Str(<<"detail">>)

encode_error ==
    U16(<<"code">>) \o Str(<<"detail">>)

decode_error ==
    U16(<<"code">>) \o Str(<<"detail">>)

encode_capacity ==
    Struct("evidence", put_backend_evidence(3))
    \o U64(<<"generation", "backend_id", "backend_boot">>)
    \o U32(<<"available_slots", "total_slots", "queue_depth", "max_queue_depth">>)
    \o I64(<<"observed_at", "expires_at">>)

decode_capacity ==
    Struct("evidence", get_backend_evidence(3))
    \o U64(<<"generation", "backend_id", "backend_boot">>)
    \o U32(<<"available_slots", "total_slots", "queue_depth", "max_queue_depth">>)
    \o I64(<<"observed_at", "expires_at">>)

encode_latency ==
    U64(<<"health_generation", "backend_id", "backend_boot">>)
    \o U32(<<"dispatch_micros", "time_to_first_token_micros", "completed_micros",
             "tail_micros", "queue_micros", "warm_start_penalty_micros",
             "cold_start_penalty_micros", "sample_count">>)
    \o I64(<<"observed_at", "expires_at">>) \o Str(<<"source">>)

\* Mutant: the reader takes the two penalties in the other order.
decode_latency_swapped ==
    U64(<<"health_generation", "backend_id", "backend_boot">>)
    \o U32(<<"dispatch_micros", "time_to_first_token_micros", "completed_micros",
             "tail_micros", "queue_micros", "cold_start_penalty_micros",
             "warm_start_penalty_micros", "sample_count">>)
    \o I64(<<"observed_at", "expires_at">>) \o Str(<<"source">>)

decode_latency ==
    U64(<<"health_generation", "backend_id", "backend_boot">>)
    \o U32(<<"dispatch_micros", "time_to_first_token_micros", "completed_micros",
             "tail_micros", "queue_micros", "warm_start_penalty_micros",
             "cold_start_penalty_micros", "sample_count">>)
    \o I64(<<"observed_at", "expires_at">>) \o Str(<<"source">>)

encode_admin_request ==
    Enum("op", 2, 22) \o U64(<<"backend_id", "model_id", "decision_id", "generation", "value">>)
    \o Str(<<"detail">>)

decode_admin_request ==
    Enum("op", 2, 22) \o U64(<<"backend_id", "model_id", "decision_id", "generation", "value">>)
    \o Str(<<"detail">>)

encode_admin_response ==
    U16(<<"code">>) \o Str(<<"detail", "json">>)

decode_admin_response ==
    U16(<<"code">>) \o Str(<<"detail", "json">>)

\* Messages whose whole payload is one of the parts above.
encode_health == put_backend_evidence(6)
decode_health == get_backend_evidence(6)
encode_availability == put_backend_evidence(3)
decode_availability == get_backend_evidence(3)
encode_readiness == put_backend_evidence(4)
decode_readiness == get_backend_evidence(4)
encode_residency == put_backend_evidence(5)
decode_residency == get_backend_evidence(5)
encode_cost == put_cost
decode_cost == get_cost

Message(type, put, get) == [type |-> type, put |-> put, get |-> get]
Messages == {
    Message(1, encode_hello, decode_hello),
    Message(2, encode_hello_ack, decode_hello_ack),
    Message(3, encode_backend_register, decode_backend_register),
    Message(4, encode_backend_register_ack, decode_backend_register_ack),
    Message(5, encode_capability_publish, decode_capability_publish),
    Message(6, encode_health, decode_health),
    Message(7, encode_availability, decode_availability),
    Message(8, encode_readiness, decode_readiness),
    Message(9, encode_residency, decode_residency),
    Message(10, encode_capacity, decode_capacity),
    Message(11, encode_latency, decode_latency),
    Message(12, encode_cost, decode_cost),
    Message(13, encode_route_request, decode_route_request),
    Message(14, encode_route_response, decode_route_response),
    Message(15, encode_dispatch, decode_dispatch),
    Message(16, encode_dispatch_result, decode_dispatch_result),
    Message(22, encode_error, decode_error),
    Message(25, encode_admin_request, decode_admin_request),
    Message(26, encode_admin_response, decode_admin_response)}

-----------------------------------------------------------------------------
\* Frames.  The header checksum covers the first 16 bytes; the payload checksum is
\* covered by nothing, and compared with the payload.
Refused == [ok |-> FALSE]

put_header(type, payload) ==
    LET covered == put_int(frame_magic, 4) \o put_int(protocol_version, 2) \o put_int(type, 2)
                   \o put_int(0, 4) \o put_int(Len(payload), 4)
    IN  covered \o put_int(crc32c(covered), 4) \o put_int(crc32c(payload), 4)

encode_frame(type, payload, limits) ==
    IF \/ type \notin 1..(MessageTypes - 1)
       \/ Len(payload) > limits.max_frame_payload_bytes
       \/ Len(payload) > limits.max_payload_bytes
       \/ frame_header_bytes + Len(payload) > limits.max_frame_bytes
    THEN Refused
    ELSE [ok |-> TRUE, bytes |-> put_header(type, payload) \o payload]

\* Length of the payload, from the header.
payload_bytes(bs) == number(bs, 12, 4)

\* Mutant: the checksum of the header is not compared.
decode_header_unchecked(bs, limits) ==
    /\ Len(bs) >= frame_header_bytes
    /\ field(bs, 0, 4) = put_int(frame_magic, 4)
    /\ number(bs, 4, 2) = protocol_version
    /\ number(bs, 6, 2) \in 1..(MessageTypes - 1)
    /\ payload_bytes(bs) <= limits.max_payload_bytes

decode_header(bs, limits) ==
    /\ Len(bs) >= frame_header_bytes
    /\ field(bs, 0, 4) = put_int(frame_magic, 4)
    /\ number(bs, 4, 2) = protocol_version
    /\ number(bs, 6, 2) \in 1..(MessageTypes - 1)
    /\ field(bs, 16, 4) = put_int(crc32c(field(bs, 0, 16)), 4)
    /\ payload_bytes(bs) <= limits.max_frame_payload_bytes
    /\ payload_bytes(bs) <= limits.max_payload_bytes

decode_frame(bs, limits) ==
    LET payload == SubSeq(bs, frame_header_bytes + 1, Len(bs)) IN
    IF /\ decode_header(bs, limits)
       /\ Len(bs) = frame_header_bytes + payload_bytes(bs)
       /\ field(bs, 20, 4) = put_int(crc32c(payload), 4)
    THEN [ok |-> TRUE, type |-> number(bs, 6, 2), payload |-> payload]
    ELSE Refused

=============================================================================
