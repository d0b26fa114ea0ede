------------------------------- MODULE Ranking -------------------------------
(***************************************************************************)
(* Deterministic ranking of the hard-eligible candidates of one tenant's   *)
(* request: the factors of ranking.cpp, the score, the order of            *)
(* candidate.cpp, and the continuity that the winner of a route or a       *)
(* committed fallback leaves for the next one (last_winner_by_tenant).     *)
(*                                                                         *)
(* An observation is a number or Unknown.  Unknown stands for every way in *)
(* which the code finds no current evidence: never published, published as *)
(* unknown, expired, or without a generation.  Each candidate has a model, *)
(* a provider and a backend of its own, named by its key, and passed hard  *)
(* eligibility: the request waives what it does not require, so that any   *)
(* observation may have to be ranked.  Arithmetic is in machine integers   *)
(* whose largest is MaxScore.                                              *)
(***************************************************************************)
EXTENDS Integers, Sequences, FiniteSets, FiniteSetsExt

CONSTANTS Candidates,  \* candidate keys: numbers, in the order of CandidateKey
          Requests,    \* what the tenant may ask for
          Weights,     \* RankingWeights, in factor order
          Scale,       \* FactorValue::kFactorScale
          Reference,   \* RankingScales, one for all factors
          MaxScore,    \* the largest integer
          Bases,       \* evidence a candidate may start with
          Values,      \* counts, prices and times a publication may carry
          MaxChanges   \* bound: publications

ASSUME RankingAssumption ==
    /\ Candidates \subseteq Nat \ {0} /\ IsFiniteSet(Candidates) /\ Candidates # {}
    /\ Scale \in Nat \ {0} /\ MaxScore \in Nat /\ Reference \in Nat \ {0}
    /\ Weights \in [1..29 -> Nat] /\ \A i \in 1..29 : Scale * Weights[i] <= MaxScore
    /\ Scale * Reference <= MaxScore
    /\ Values \subseteq Nat /\ MaxChanges \in Nat

Unknown == -1

\* What is published about a candidate.
Items == {"preferred", "quality", "context", "cost", "dispatch", "tail", "queue",
          "cold_start", "readiness", "residency", "availability", "health", "trust",
          "distance", "available_slots", "total_slots", "reservation", "reliability"}

\* A capability count and a context limit are always known; the other sets have the
\* values that the code does not itself take for unknown.
Domain(q, item) ==
    CASE item = "preferred" -> 0..q.preferred
      [] item = "context" -> Values
      [] item = "trust" -> {Unknown} \cup 1..4
      [] item \in {"readiness", "residency", "health"} -> {Unknown} \cup 0..2
      [] item = "availability" -> {Unknown, 0, 2}
      [] item = "reservation" -> {Unknown, 1}
      [] item \in {"quality", "distance", "reliability"} -> {Unknown} \cup (Values \ {0})
      [] OTHER -> {Unknown} \cup Values

Affinities == {"affinity_model", "affinity_provider", "affinity_backend"}
Continuities == {"same_family", "same_provider", "same_backend", "context_locality"}

\* The counts a request carries are never negative; it may name identities.
ASSUME InputsAssumption ==
    /\ \A q \in Requests :
          /\ q.required \in Nat /\ q.preferred \in Nat /\ q.target \in Nat /\ q.context \in Nat
          /\ q.asked \subseteq Affinities \cup Continuities
    /\ Bases \subseteq [Items -> Nat \cup {Unknown}]

VARIABLES request,   \* the request
          evidence,  \* evidence[c]: the observations of a candidate
          last,      \* last_winner_by_tenant, 0 if none
          ranked,    \* ranked[c]: the RankedCandidate a route would build now
          judged,    \* history: the evidence that the route ranked which wrote last,
                     \* <<>> if a fallback wrote it
          changes    \* bound: publications so far

vars == <<request, evidence, last, ranked, judged, changes>>

-----------------------------------------------------------------------------
(* Integer arithmetic.                                                     *)

\* Two's complement: what an overflowing product becomes.
Wrap(n) == ((n + MaxScore + 1) % (2 * (MaxScore + 1))) - (MaxScore + 1)

Clamp(n, low, high) == IF n < low THEN low ELSE IF n > high THEN high ELSE n

\* Contributions are not negative, since weights are not.
saturating_add(l, r) == IF r > 0 /\ l > MaxScore - r THEN MaxScore ELSE l + r

\* Mutant: no guard against the overflow of the product.
mul_div_unguarded(value, numerator, denominator) ==
    Wrap(value * numerator) \div denominator

\* Every caller passes a value and a numerator that are not negative.
mul_div(value, numerator, denominator) ==
    IF denominator <= 0 \/ value = 0 \/ numerator = 0 THEN 0
    ELSE IF value > MaxScore \div numerator THEN MaxScore
    ELSE Wrap(value * numerator) \div denominator

normalize_higher_better(raw, ref) ==
    IF raw <= 0 THEN 0 ELSE Clamp(mul_div(raw, Scale, ref), 0, Scale)

normalize_lower_better(raw, ref) ==
    IF raw <= 0 THEN Scale
    ELSE LET cost == mul_div(raw, Scale, ref) IN IF cost >= Scale THEN 0 ELSE Scale - cost

-----------------------------------------------------------------------------
(* Factors.  A factor is its normalized value, or Unknown.                 *)

unknown == Unknown

\* Mutant: the value is not clamped to the scale.
known_value_unclamped(normalized) == normalized

known_value(normalized) == Clamp(normalized, 0, Scale)

Ratio(part, total) ==
    IF part # Unknown /\ total > 0 THEN known_value(mul_div(part, Scale, total)) ELSE unknown

\* Mutant: an absent observation is ranked like the value zero.
LowerBetterOrFree(raw, ref) == known_value(normalize_lower_better(raw, ref))

LowerBetter(raw, ref) ==
    IF raw = Unknown THEN unknown ELSE known_value(normalize_lower_better(raw, ref))
HigherBetter(raw, ref) ==
    IF raw = Unknown THEN unknown ELSE known_value(normalize_higher_better(raw, ref))

\* States of evidence with three levels: 2 is READY, RESIDENT, AVAILABLE or HEALTHY, 1 is
\* WARMING, LOADING or DEGRADED.
Graded(state) ==
    IF state = Unknown THEN unknown
    ELSE known_value(IF state >= 2 THEN Scale ELSE IF state = 1 THEN Scale \div 2 ELSE 0)
Matches(asked, yes) == IF asked THEN known_value(IF yes THEN Scale ELSE 0) ELSE unknown
Trusted(trust) ==
    IF trust = Unknown THEN unknown ELSE known_value(mul_div(trust, Scale, 4))

Local == 4
Shares(asked, met) == Ratio(Cardinality(asked \cap met), Cardinality(asked))

\* Readiness, less the cold start that is observed.
Warmth(e) ==
    LET ready   == Graded(e["readiness"])
        penalty == IF e["cold_start"] = Unknown THEN 0
                   ELSE mul_div(e["cold_start"], Scale, Reference)
    IN  IF ready = Unknown THEN unknown ELSE known_value(ready - penalty)

\* PolicyEvaluator's soft preference: half for a preferred family, a tenth per trust rank.
Preference(q, c, e) ==
    Min({(IF c \in q.preferred_family THEN Scale \div 2 ELSE 0)
         + (IF e["trust"] = Unknown THEN 0 ELSE (e["trust"] * Scale) \div 10), Scale})

\* Data moves nowhere on a local backend.
Movement(e) ==
    IF e["trust"] = Local THEN LowerBetter(0, Reference) ELSE LowerBetter(e["distance"], Reference)

\* The latency against the target of the request, and the context left over.
OnTarget(q, e) == IF q.target > 0 THEN LowerBetter(e["dispatch"], q.target) ELSE unknown
Headroom(q, e) ==
    IF q.context > 0 /\ e["context"] >= q.context
    THEN HigherBetter(e["context"] - q.context, Reference) ELSE unknown

Reserved(e) == Matches(e["reservation"] # Unknown, TRUE)

\* What a candidate has in common with the request: identities it was asked for by
\* affinity, and identities or locality it was asked to stay with.
Met(q, c, e) ==
    {a \in {"affinity_model", "affinity_provider", "affinity_backend",
            "same_family", "same_provider", "same_backend"} : q.names[a] = c}
    \cup (IF e["trust"] = Local THEN {"context_locality"} ELSE {})

\* Mutant: the winner of the last route is penalised.
ContinuityAgainst(winner, c) == Matches(winner # 0, winner # c)

\* Cache affinity and the route switch penalty have the same value.
Continuity(winner, c) == Matches(winner # 0, winner = c)

\* The factors in the order of RankingFactor, in three groups.
ServiceFactors(q, e) ==
    << Ratio(q.required, q.required),                          \* capability fit: all proven
       Ratio(e["preferred"], q.preferred),
       HigherBetter(e["quality"], Reference),
       LowerBetter(e["cost"], Reference),
       LowerBetter(e["dispatch"], Reference),                  \* latency
       LowerBetter(e["tail"], Reference),
       LowerBetter(e["queue"], Reference),
       Warmth(e),
       Graded(e["residency"]) >>

BackendFactors(q, e) ==
    << Trusted(e["trust"]),                                    \* locality
       LowerBetter(e["distance"], Reference),
       Graded(e["availability"]),
       Graded(e["health"]),
       Graded(e["readiness"]),
       Ratio(e["available_slots"], e["total_slots"]),          \* capacity headroom
       Reserved(e),
       OnTarget(q, e),
       Headroom(q, e) >>

PreferenceFactors(q, c, e, winner) ==
    << Trusted(e["trust"]),
       known_value(Preference(q, c, e)),
       Matches("affinity_model" \in q.asked, "affinity_model" \in Met(q, c, e)),
       Continuity(winner, c),                                  \* cache affinity
       HigherBetter(e["reliability"], Reference),
       unknown,                               \* diversity: no caller sets a reference
       Movement(e),
       LowerBetter(e["cold_start"], Reference),                \* startup cost
       Continuity(winner, c),                                  \* route switch penalty
       Shares(q.asked \cap Continuities, Met(q, c, e)),
       Shares(q.asked \cap Affinities, Met(q, c, e)) >>

build_factors(q, c, e, winner) ==
    ServiceFactors(q, e) \o BackendFactors(q, e) \o PreferenceFactors(q, c, e, winner)

\* FactorValue.
Valued(f, weight) ==
    LET normalized == IF f = Unknown THEN 0 ELSE f
    IN  [contribution |-> mul_div(normalized, weight, Scale), normalized |-> normalized,
         known |-> IF f = Unknown THEN 0 ELSE 1]

\* The score: the contributions of n factors, added one by one.
Total(values, n) ==
    LET upto[i \in 0..n] ==
            IF i = 0 THEN 0 ELSE saturating_add(upto[i - 1], values[i].contribution)
    IN  upto[n]

\* RankedCandidate: the factors and their saturating sum.
Ranked(q, c, e, winner) ==
    LET fs == build_factors(q, c, e, winner)
        values == [i \in DOMAIN fs |-> Valued(fs[i], Weights[i])]
    IN  [score |-> Total(values, Len(fs)), factors |-> values]

-----------------------------------------------------------------------------
(* The order.                                                              *)

\* The first factor in which two candidates differ decides, by contribution, then by
\* normalized value, then known before unknown.
Exceeds(f, g) ==
    \/ f.contribution > g.contribution
    \/ f.contribution = g.contribution /\ f.normalized > g.normalized
    \/ f.contribution = g.contribution /\ f.normalized = g.normalized /\ f.known > g.known

TieBreak(fs, gs) ==
    \E i \in DOMAIN fs : Exceeds(fs[i], gs[i]) /\ \A j \in 1..(i - 1) : fs[j] = gs[j]

\* Mutant: candidates whose factors are equal are left in the order they came in.
ranks_before_without_key(R, c, d) ==
    \/ R[c].score > R[d].score
    \/ R[c].score = R[d].score /\ TieBreak(R[c].factors, R[d].factors)

candidate_ranks_before(R, c, d) ==
    \/ R[c].score > R[d].score
    \/ R[c].score = R[d].score /\ TieBreak(R[c].factors, R[d].factors)
    \/ R[c] = R[d] /\ c < d

\* std::stable_sort of the candidates, which come in the order `place': the rank of each.
stable_sort(R, place) ==
    [c \in Candidates |->
        1 + Cardinality({d \in Candidates :
                           \/ candidate_ranks_before(R, d, c)
                           \/ ~candidate_ranks_before(R, c, d) /\ place[d] < place[c]})]

\* route() sorts the candidates by key before it judges them.
Winner(R) ==
    CHOOSE c \in Candidates : stable_sort(R, [d \in Candidates |-> d])[c] = 1

-----------------------------------------------------------------------------
Init ==
    /\ request \in Requests
    /\ evidence \in [Candidates -> Bases]
    /\ last = 0
    /\ ranked = [c \in Candidates |-> Ranked(request, c, evidence[c], 0)]
    /\ judged = <<>>
    /\ changes = 0

\* An observation of a candidate is published, or its expiry comes.
publish(c, item, v) ==
    /\ changes < MaxChanges
    /\ v # evidence[c][item]
    /\ evidence' = [evidence EXCEPT ![c][item] = v]
    /\ changes' = changes + 1
    /\ ranked' = [ranked EXCEPT ![c] = Ranked(request, c, evidence'[c], last)]
    /\ UNCHANGED <<request, last, judged>>

\* Latency evidence expires as a whole.
expire_latency(c) ==
    /\ changes < MaxChanges
    /\ evidence' = [evidence EXCEPT ![c] = [i \in Items |->
                       IF i \in {"dispatch", "tail", "queue", "cold_start"} THEN Unknown ELSE @[i]]]
    /\ changes' = changes + 1
    /\ ranked' = [ranked EXCEPT ![c] = Ranked(request, c, evidence'[c], last)]
    /\ UNCHANGED <<request, last, judged>>

\* A route commits: its winner is the continuity reference of the next one.
route ==
    /\ last' = Winner(ranked)
    /\ ranked' = [c \in Candidates |-> Ranked(request, c, evidence[c], last')]
    /\ judged' = evidence
    /\ UNCHANGED <<request, evidence, changes>>

\* reroute() commits a fallback of an earlier route of the tenant.  It ranks nothing: the
\* candidate is the first of the fallbacks that is still eligible, here any of them.
fallback(c) ==
    /\ last # 0
    /\ last' = c
    /\ ranked' = [d \in Candidates |-> Ranked(request, d, evidence[d], last')]
    /\ judged' = <<>>
    /\ UNCHANGED <<request, evidence, changes>>

Next ==
    \/ \E c \in Candidates, i \in Items : \E v \in Domain(request, i) : publish(c, i, v)
    \/ \E c \in Candidates : expire_latency(c) \/ fallback(c)
    \/ route

Spec == Init /\ [][Next]_vars

-----------------------------------------------------------------------------
FactorValues == [contribution : 0..MaxScore, normalized : 0..Scale, known : {0, 1}]
RankedCandidates == [score : 0..MaxScore, factors : [1..29 -> FactorValues]]
Observations == [Candidates -> [Items -> Nat \cup {Unknown}]]

\* The types of the variables: normalized values lie in the scale, scores in the integers.
TypeOK ==
    /\ request \in Requests
    /\ evidence \in Observations
    /\ last \in Candidates \cup {0}
    /\ ranked \in [Candidates -> RankedCandidates]
    /\ judged = <<>> \/ judged \in Observations
    /\ changes \in 0..MaxChanges

\* The order does not depend on where the candidates came from: whatever order they are
\* sorted from, ranks are the same and no two candidates share one.
RankingCanonical ==
    LET rank == stable_sort(ranked, [c \in Candidates |-> c])
    IN  /\ \A c, d \in Candidates : c # d => rank[c] # rank[d]
        /\ \A place \in [Candidates -> 1..Cardinality(Candidates)] :
              (\A c, d \in Candidates : c # d => place[c] # place[d])
                  => stable_sort(ranked, place) = rank

\* No overflow reaches a score: factors and scores are what unbounded integers give,
\* however large the observation, up to the largest integer.
ExactTotal(fs, n) ==
    LET upto[i \in 0..n] ==
            IF i = 0 THEN 0 ELSE upto[i - 1] + (fs[i].normalized * Weights[i]) \div Scale
    IN  upto[n]
ExactShare(raw) == Min({(raw * Scale) \div Reference, Scale})
Exact(e, item) == IF e[item] = Unknown THEN 0 ELSE Scale - ExactShare(e[item])
ScoreExact ==
    \A c \in Candidates :
        LET fs == ranked[c].factors
        IN  /\ fs[4].normalized = Exact(evidence[c], "cost")
            /\ fs[6].normalized = Exact(evidence[c], "tail")
            /\ fs[7].normalized = Exact(evidence[c], "queue")
            /\ fs[26].normalized = Exact(evidence[c], "cold_start")
            /\ ranked[c].score = Min({ExactTotal(fs, 29), MaxScore})

\* Missing evidence is never favourable: a candidate that loses observations does not
\* overtake anyone.  The cold start penalty is the exception: it lowers warmth when it is
\* observed, and warmth keeps its full value when it is not.
Lost(e, f) == f # e /\ \A i \in Items : f[i] = e[i] \/ f[i] = Unknown
MissingNeverFavoured ==
    [][\A c \in Candidates :
          /\ Lost(evidence[c], evidence'[c])
          /\ evidence'[c]["cold_start"] = evidence[c]["cold_start"]
          => \A d \in Candidates \ {c} :
                candidate_ranks_before(ranked', c, d) => candidate_ranks_before(ranked, c, d)]_vars

\* Continuity only holds a winner: while the evidence stays the same and no fallback has
\* taken its place, the next route of the tenant has the winner of the last one.
WinnerStays ==
    [][judged # <<>> /\ judged = evidence /\ judged' # <<>> => last' = last]_vars

=============================================================================
