------------------------------- MODULE MCCodecs -------------------------------
(* Instances of Codecs. *)
EXTENDS Codecs

CONSTANT Variants    \* which values the fields take

(***************************************************************************)
(* Every field of a layout has a value of its own, so that two calls in    *)
(* the wrong order, or of the wrong width, never cancel out.               *)
(***************************************************************************)
StringLength(v, i) == CASE v = "zero" -> 0
                        [] v = "full" -> limits.max_string_bytes
                        [] v = "long_string" -> limits.max_string_bytes + 1
                        [] OTHER -> i % (limits.max_string_bytes + 1)
ListLength(v, limit) == CASE v = "zero" -> 0
                          [] v = "full" -> limits[limit]
                          [] v = "long_list" -> limits[limit] + 1
                          [] OTHER -> 1

Number(f, n, v) ==
    CASE v = "zero" -> 0
      [] f.kind = "enum" -> IF v = "bad_enum" THEN f.count ELSE n % f.count
      [] f.kind = "bool" -> n % 2
      [] f.kind = "u8" -> n % 256
      [] f.kind = "i64" -> IF n % 2 = 0 THEN n ELSE -n
      [] OTHER -> n

RECURSIVE sample(_, _, _)
sample(fields, seed, v) ==
    [name \in {fields[i].name : i \in DOMAIN fields} |->
        LET i == CHOOSE k \in DOMAIN fields : fields[k].name = name
            f == fields[i]
        IN  CASE f.kind = "string" -> [k \in 1..StringLength(v, i) |-> (seed - i + k) % 256]
              [] f.kind = "list" ->
                   [k \in 1..ListLength(v, f.limit) |-> sample(f.fields, seed - i - 97 * k, v)]
              [] f.kind = "struct" -> sample(f.fields, seed - i - 53, v)
              [] OTHER -> Number(f, seed - i, v)]

Seed == 9000

\* Lists are made in descending order of identity: not the order they are written in.
StateOf(v) ==
    LET list(kind, limit) == [k \in 1..ListLength(v, limit) |->
                                sample(WriteRecord[kind], Seed - 1000 * kind - 97 * k, v)]
    IN  [meta |-> sample(write_meta, Seed, v),
         models |-> list(2, "max_models"), backends |-> list(3, "max_backends"),
         fenced_boots |-> list(4, "max_backend_incarnations"),
         routes |-> list(5, "max_route_history"),
         weights |-> IF v = "zero" THEN DefaultWeights ELSE "tuned",
         other_limits |-> IF v = "zero" THEN DefaultLimits ELSE "configured"]

Samples == {[kind |-> "message", message |-> m, value |-> sample(m.put, Seed, v)] :
               m \in Messages, v \in Variants}
           \cup {[kind |-> "state", value |-> StateOf(v)] : v \in Variants}

\* Limits small enough that every list and every string meets its own.
SmallLimits == [max_string_bytes |-> 3, max_payload_bytes |-> 8000,
                max_frame_payload_bytes |-> 8000, max_frame_bytes |-> 9000,
                max_persistence_bytes |-> 16000, max_persistence_records |-> 9,
                max_models |-> 2, max_backends |-> 2, max_backend_incarnations |-> 2,
                max_route_history |-> 2, max_capability_entries |-> 2,
                max_capability_entries_per_backend |-> 2, max_model_bindings_per_backend |-> 2,
                max_requirement_entries |-> 2, max_allowlist_entries |-> 2,
                max_fallback_candidates |-> 1, max_ranked_candidates |-> 1,
                max_explanation_factors |-> 2, max_rejection_records |-> 2]

\* As in ResourceLimits{}, a payload may be far shorter than an image.
TightLimits == [SmallLimits EXCEPT !.max_payload_bytes = 3000]

=============================================================================
