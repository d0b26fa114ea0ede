-------------------------------- MODULE Codecs --------------------------------
(***************************************************************************)
(* What is written can be read, and nothing else: a message or a durable   *)
(* state is encoded, carried intact or damaged on the way or on the disk,  *)
(* and decoded.                                                            *)
(***************************************************************************)
EXTENDS Wire, StateImage

CONSTANTS limits,     \* ResourceLimits of both sides
          Inputs      \* the messages and states that are encoded

LimitNames == {"max_string_bytes", "max_payload_bytes", "max_frame_payload_bytes",
               "max_frame_bytes", "max_persistence_bytes", "max_persistence_records",
               "max_models", "max_backends", "max_backend_incarnations", "max_route_history",
               "max_capability_entries", "max_capability_entries_per_backend",
               "max_model_bindings_per_backend", "max_requirement_entries",
               "max_allowlist_entries", "max_fallback_candidates", "max_ranked_candidates",
               "max_explanation_factors", "max_rejection_records"}

ASSUME LimitsAssumption == limits \in [LimitNames -> 0..(Huge - 1)]

-----------------------------------------------------------------------------
(***************************************************************************)
(* Inputs.  A field holds what its C++ type can, up to 31 bits; the keys a *)
(* list is sorted by differ, as those of the maps it was copied from do.   *)
(***************************************************************************)
Word == 65535

Numbers(f) ==
    CASE f.kind = "enum" -> IF f.width = 1 THEN 0..255 ELSE 0..Word
      [] f.kind = "bool" -> {0, 1}
      [] f.kind = "u8" -> 0..255
      [] f.kind = "u16" -> 0..Word
      [] f.kind = "i64" -> (-Huge)..Huge
      [] OTHER -> 0..Huge

Elements(s) == {s[i] : i \in DOMAIN s}
IsList(s) == s \in Seq(Elements(s)) /\ Len(s) <= Huge

typed_field(inner(_, _), f, x) ==
    CASE f.kind = "string" -> x \in Seq(Byte) /\ Len(x) <= Huge
      [] f.kind = "list" -> IsList(x) /\ \A k \in DOMAIN x : inner(f.fields, x[k])
      [] f.kind = "struct" -> inner(f.fields, x)
      [] OTHER -> x \in Numbers(f)

typed(inner(_, _), fields, m) ==
    /\ m = [n \in {fields[i].name : i \in DOMAIN fields} |-> m[n]]
    /\ \A i \in DOMAIN fields : typed_field(inner, fields[i], m[fields[i].name])

typed_0(fields, m) == typed(LAMBDA fs, x : FALSE, fields, m)
typed_1(fields, m) == typed(typed_0, fields, m)
typed_2(fields, m) == typed(typed_1, fields, m)
Typed(fields, m) == typed(typed_2, fields, m)

\* No two members of a list have the same key.
Keyed(s, keys) ==
    /\ \A i \in DOMAIN s, k \in DOMAIN keys : s[i][keys[k]] \in Int
    /\ \A i, j \in DOMAIN s : i # j => Less(s[i], s[j], keys) \/ Less(s[j], s[i], keys)

TypedRecords(state) ==
    /\ Typed(write_meta, state.meta)
    /\ \A kind \in 2..5 : LET rs == state[Lists[kind - 1]] IN
          IsList(rs) /\ \A i \in DOMAIN rs : Typed(WriteRecord[kind], rs[i])

TypedState(state) ==
    /\ state = [meta |-> state.meta, models |-> state.models, backends |-> state.backends,
                fenced_boots |-> state.fenced_boots, routes |-> state.routes,
                weights |-> state.weights, other_limits |-> state.other_limits]
    /\ IsList(state.models) /\ Keyed(state.models, model_keys)
    /\ IsList(state.backends) /\ Keyed(state.backends, backend_keys)
    /\ IsList(state.fenced_boots) /\ Keyed(state.fenced_boots, fenced_keys)
    /\ IsList(state.routes) /\ Keyed(state.routes, route_keys)
    /\ \A i \in DOMAIN state.backends :
          LET bound == state.backends[i].model_bindings
          IN  IsList(bound) /\ Keyed(bound, binding_keys)
    /\ TypedRecords(canonicalize(state))
    /\ canonical_text(canonicalize(state)) \in Seq(Int)

ASSUME InputsAssumption ==
    \A x \in Inputs : \/ /\ x.kind = "message" /\ x.message \in Messages
                         /\ Typed(x.message.put, x.value)
                      \/ x.kind = "state" /\ TypedState(x.value)

\* The same state, its records inserted in the other order.
Reversed(s) == [i \in DOMAIN s |-> s[Len(s) + 1 - i]]
Reordered(state) == [state EXCEPT !.models = Reversed(@), !.backends = Reversed(@),
                                  !.fenced_boots = Reversed(@), !.routes = Reversed(@)]

\* What the image has a field for.  Ranking weights and the limits that are not in the
\* meta record are not written, and a state that is read has their defaults.
Durable(state) == [state EXCEPT !.weights = DefaultWeights, !.other_limits = DefaultLimits]

\* Stated without the codec: what the reader's limits and ranges allow.
allowed_field(inner(_, _), f, x) ==
    CASE f.kind = "string" -> Len(x) <= limits.max_string_bytes
      [] f.kind = "list" -> Len(x) <= limits[f.limit]
                            /\ \A k \in DOMAIN x : inner(f.fields, x[k])
      [] f.kind = "struct" -> inner(f.fields, x)
      [] f.kind = "enum" -> x < f.count
      [] OTHER -> TRUE

allowed(inner(_, _), fields, m) ==
    \A i \in DOMAIN fields : allowed_field(inner, fields[i], m[fields[i].name])

allowed_0(fields, m) == allowed(LAMBDA fs, x : TRUE, fields, m)
allowed_1(fields, m) == allowed(allowed_0, fields, m)
allowed_2(fields, m) == allowed(allowed_1, fields, m)
Allowed(fields, m) == allowed(allowed_2, fields, m)

AllowedRecords(state) ==
    \A kind \in 2..5 : LET rs == state[Lists[kind - 1]] IN
        \A i \in DOMAIN rs : Allowed(WriteRecord[kind], rs[i])

-----------------------------------------------------------------------------
VARIABLES stage,      \* "made", "encoded", "carried", "decoded"
          source,     \* what is encoded
          bytes,      \* its encoding, damaged or not
          fault,      \* what happened to it on the way
          outcome     \* what decoding gave

vars == <<stage, source, bytes, fault, outcome>>

-----------------------------------------------------------------------------
Init ==
    /\ stage = "made"
    /\ source \in Inputs
    /\ bytes = <<>> /\ fault = "none" /\ outcome = [ok |-> FALSE]

\* encode_x and encode_frame; RouterStateStore::encode.
EncodeMessage ==
    LET m == source.message
        payload == writer_bytes(m.put, source.value)
    IN  IF writer_ok(m.put, source.value, limits)
        THEN encode_frame(m.type, payload, limits) ELSE Refused

Encoded == IF source.kind = "message" THEN EncodeMessage
           ELSE encode(source.value, limits)

Encode ==
    /\ stage = "made"
    /\ Encoded.ok
    /\ stage' = "encoded" /\ bytes' = Encoded.bytes
    /\ UNCHANGED <<source, fault, outcome>>

Header == IF source.kind = "message" THEN frame_header_bytes ELSE persistence_header_bytes

\* One byte changed: every one of the header, the first, a middle and the last after it.
Positions == (1..Header \cup {Header + 1, (Header + Len(bytes)) \div 2 + 1, Len(bytes)})
             \cap (1..Len(bytes))

Flip == \E p \in Positions, d \in {1, 128} :
            /\ bytes' = [bytes EXCEPT ![p] = (@ + d) % 256]
            /\ fault' = "flipped"

Cut == \E n \in {0, Header - 1, Header, Len(bytes) - 1} :
            /\ n < Len(bytes)
            /\ bytes' = SubSeq(bytes, 1, n)
            /\ fault' = "cut"

Trail == bytes' = Append(bytes, 0) /\ fault' = "trailing"

\* A correct frame around a payload that ends early, or goes on.
Reframe ==
    /\ source.kind = "message"
    /\ LET payload == SubSeq(bytes, Header + 1, Len(bytes))
           wrong == {SubSeq(payload, 1, n) : n \in {0, Len(payload) \div 2, Len(payload) - 1}}
                    \cup {Append(payload, 0)}
       IN  \E p \in wrong \ {payload} :
              LET frame == encode_frame(source.message.type, p, limits)
              IN  frame.ok /\ bytes' = frame.bytes
    /\ fault' = "reframed"

Carry ==
    /\ stage = "encoded"
    /\ \/ UNCHANGED <<bytes, fault>>
       \/ Flip
       \/ Cut
       \/ Trail
       \/ Reframe
    /\ stage' = "carried"
    /\ UNCHANGED <<source, outcome>>

\* decode_frame and decode_x; RouterStateStore::decode.
DecodeMessage ==
    LET f == decode_frame(bytes, limits) IN
    IF ~f.ok \/ f.type # source.message.type THEN Refused
    ELSE LET r == decode_message(source.message.get, f.payload, limits)
         IN  IF r.ok THEN [ok |-> TRUE, value |-> r.val] ELSE Refused

DecodeState ==
    LET d == decode(bytes, limits)
    IN  IF d.ok THEN [ok |-> TRUE, value |-> d.state] ELSE Rejected

Decode ==
    /\ stage = "carried"
    /\ outcome' = IF source.kind = "message" THEN DecodeMessage ELSE DecodeState
    /\ stage' = "decoded"
    /\ UNCHANGED <<source, bytes, fault>>

Next == Encode \/ Carry \/ Decode

Spec == Init /\ [][Next]_vars

-----------------------------------------------------------------------------
\* Encoders write bytes and decoders give a verdict, whatever happened in between.
TypeOK ==
    /\ stage \in {"made", "encoded", "carried", "decoded"}
    /\ \A i \in DOMAIN bytes : bytes[i] \in 0..255
    /\ fault \in {"none", "flipped", "cut", "trailing", "reframed"}
    /\ outcome.ok \in BOOLEAN

Done(kind) == stage = "decoded" /\ source.kind = kind

\* Every message that was carried intact is read back as it was written, in all its
\* fields, exactly if it keeps the reader's limits and ranges.
MessageSurvives ==
    Done("message") /\ fault = "none" =>
        LET m == source.value
        IN  outcome = IF Allowed(source.message.put, m) THEN [ok |-> TRUE, value |-> m]
                      ELSE [ok |-> FALSE]

\* A state that encode accepted is read back canonical, with all that the image has a
\* field for and the default weights and other limits, if its records keep the reader's
\* ranges and its payload is one that decode reads at all.
StateSurvives ==
    Done("state") /\ fault = "none"
        /\ Len(bytes) - persistence_header_bytes <= limits.max_payload_bytes
    => LET state == canonicalize(source.value)
       IN  outcome = IF AllowedRecords(state) THEN [ok |-> TRUE, value |-> Durable(state)]
                     ELSE [ok |-> FALSE]

\* A frame or an image with one byte changed, one missing or one more is refused, and so
\* is a payload its layout does not fill.
DamageRefused == stage = "decoded" /\ fault # "none" => ~outcome.ok

\* The bytes do not depend on the order in which records were inserted.
ImageDeterministic ==
    stage = "encoded" /\ source.kind = "state"
    => bytes = encode(Reordered(source.value), limits).bytes

\* README: "After a restart the router ... restores durable identity and history".  A
\* state that save() accepted is one that load() accepts, whatever its size.
SavedStateLoads == Done("state") /\ fault = "none" => outcome.ok

=============================================================================
