----------------------------- MODULE RankingProofs -----------------------------
(***************************************************************************)
(* Theorems about Ranking, for any candidates, requests, weights and       *)
(* observations.                                                           *)
(***************************************************************************)
EXTENDS Ranking, LeastNumber, FiniteSetTheorems, SequenceTheorems

-----------------------------------------------------------------------------
(* Machine arithmetic.                                                      *)

\* The integer quotient.
LEMMA Quotient ==
    ASSUME NEW a \in Nat, NEW b \in Nat \ {0}
    PROVE  /\ a \div b \in Nat
           /\ b * (a \div b) <= a /\ a < b * (a \div b) + b
  OBVIOUS

LEMMA QuotientMonotone ==
    ASSUME NEW a \in Nat, NEW c \in Nat, a <= c, NEW b \in Nat \ {0}
    PROVE  a \div b <= c \div b
  OBVIOUS

LEMMA QuotientBelow ==
    ASSUME NEW a \in Nat, NEW b \in Nat \ {0}
    PROVE  a \div b <= a
  OBVIOUS

\* A product that fits is not changed by the wrap-around.
LEMMA WrapFits ==
    ASSUME NEW n \in 0..MaxScore
    PROVE  Wrap(n) = n
  BY RankingAssumption DEF Wrap

\* The guard of mul_div lets through exactly the products that fit.
LEMMA GuardFits ==
    ASSUME NEW v \in Nat, NEW k \in Nat \ {0}
    PROVE  (v > MaxScore \div k) <=> (v * k > MaxScore)
  BY RankingAssumption

\* mul_div is the exact quotient where the product fits, the largest integer elsewhere.
LEMMA MulDiv ==
    ASSUME NEW v \in Nat, NEW k \in Nat, NEW d \in Nat \ {0}
    PROVE  /\ mul_div(v, k, d) \in 0..MaxScore
           /\ v * k <= MaxScore => mul_div(v, k, d) = (v * k) \div d
           /\ v * k > MaxScore => mul_div(v, k, d) = MaxScore
  <1>1. MaxScore \in Nat /\ v * k \in Nat
    BY RankingAssumption
  <1>2. CASE v = 0 \/ k = 0
    <2>1. v * k = 0 /\ mul_div(v, k, d) = 0
      BY <1>2 DEF mul_div
    <2>2. 0 \div d = 0
      OBVIOUS
    <2> QED
      BY <1>1, <2>1, <2>2
  <1>3. CASE v # 0 /\ k # 0 /\ v * k > MaxScore
    <2>1. v > MaxScore \div k
      BY <1>3, GuardFits
    <2> QED
      BY <1>1, <1>3, <2>1 DEF mul_div
  <1>4. CASE v # 0 /\ k # 0 /\ v * k <= MaxScore
    <2>1. ~(v > MaxScore \div k) /\ Wrap(v * k) = v * k
      BY <1>1, <1>4, GuardFits, WrapFits
    <2>2. mul_div(v, k, d) = (v * k) \div d
      BY <1>4, <2>1 DEF mul_div
    <2>3. (v * k) \div d \in Nat /\ (v * k) \div d <= v * k
      BY <1>1, Quotient, QuotientBelow
    <2> QED
      BY <1>1, <1>4, <2>2, <2>3
  <1> QED
    BY <1>1, <1>2, <1>3, <1>4

LEMMA MulDivNat ==
    ASSUME NEW v \in Nat, NEW k \in Nat, NEW d \in Nat \ {0}
    PROVE  mul_div(v, k, d) \in Nat
  <1>1. mul_div(v, k, d) \in 0..MaxScore
    BY MulDiv
  <1> QED
    BY <1>1, RankingAssumption

\* A larger value never gives a smaller quotient, saturated or not.
LEMMA MulDivMonotone ==
    ASSUME NEW v \in Nat, NEW w \in Nat, v <= w, NEW k \in Nat, NEW d \in Nat \ {0}
    PROVE  mul_div(v, k, d) <= mul_div(w, k, d)
  <1>1. MaxScore \in Nat /\ v * k \in Nat /\ w * k \in Nat /\ v * k <= w * k
    BY RankingAssumption
  <1>2. mul_div(v, k, d) \in 0..MaxScore /\ mul_div(w, k, d) \in 0..MaxScore
    BY MulDiv
  <1>3. CASE w * k > MaxScore
    <2>1. mul_div(w, k, d) = MaxScore
      BY <1>3, MulDiv
    <2> QED
      BY <1>1, <1>2, <2>1
  <1>4. CASE w * k <= MaxScore
    <2>1. v * k <= MaxScore
      BY <1>1, <1>4
    <2>2. mul_div(v, k, d) = (v * k) \div d /\ mul_div(w, k, d) = (w * k) \div d
      BY <1>4, <2>1, MulDiv
    <2>3. (v * k) \div d <= (w * k) \div d
      BY <1>1, QuotientMonotone
    <2> QED
      BY <2>2, <2>3
  <1> QED
    BY <1>1, <1>3, <1>4

\* The contribution of a factor: exact, because a weight times the scale fits.
LEMMA Contribution ==
    ASSUME NEW f \in 0..Scale, NEW i \in 1..29
    PROVE  /\ mul_div(f, Weights[i], Scale) = (f * Weights[i]) \div Scale
           /\ mul_div(f, Weights[i], Scale) \in 0..MaxScore
  <1>1. Scale \in Nat \ {0} /\ MaxScore \in Nat /\ Weights[i] \in Nat /\ Scale * Weights[i] <= MaxScore
    BY RankingAssumption
  <1>2. f * Weights[i] <= Scale * Weights[i] /\ f * Weights[i] \in Nat
    BY <1>1
  <1>3. f * Weights[i] <= MaxScore /\ f \in Nat
    BY <1>1, <1>2
  <1>4. /\ mul_div(f, Weights[i], Scale) \in 0..MaxScore
        /\ f * Weights[i] <= MaxScore => mul_div(f, Weights[i], Scale) = (f * Weights[i]) \div Scale
    BY <1>1, <1>3, MulDiv
  <1> QED
    BY <1>3, <1>4

\* A better factor never contributes less.
LEMMA ContributionMonotone ==
    ASSUME NEW f \in 0..Scale, NEW g \in 0..Scale, f <= g, NEW i \in 1..29
    PROVE  mul_div(f, Weights[i], Scale) <= mul_div(g, Weights[i], Scale)
  <1>1. Scale \in Nat \ {0} /\ Weights[i] \in Nat
    BY RankingAssumption
  <1>2. f * Weights[i] <= g * Weights[i] /\ f * Weights[i] \in Nat /\ g * Weights[i] \in Nat
    BY <1>1
  <1> QED
    BY <1>1, <1>2, Contribution, QuotientMonotone

-----------------------------------------------------------------------------
(* Factors.                                                                 *)

\* A normalized value in the scale, or Unknown.
Factor == {Unknown} \cup 0..Scale

LEMMA KnownValue ==
    ASSUME NEW n \in Int
    PROVE  known_value(n) \in 0..Scale /\ (n \in 0..Scale => known_value(n) = n)
  BY RankingAssumption DEF known_value, Clamp

LEMMA ShareFactors ==
    ASSUME NEW raw \in Nat \cup {Unknown}, NEW ref \in Nat \ {0}
    PROVE  /\ LowerBetter(raw, ref) \in Factor /\ HigherBetter(raw, ref) \in Factor
           /\ raw = Unknown => LowerBetter(raw, ref) = Unknown /\ HigherBetter(raw, ref) = Unknown
           /\ raw # Unknown => LowerBetter(raw, ref) \in 0..Scale /\ HigherBetter(raw, ref) \in 0..Scale
  <1>1. CASE raw = Unknown
    BY <1>1 DEF LowerBetter, HigherBetter, unknown, Factor
  <1>2. CASE raw \in Nat /\ raw # Unknown
    <2>1. mul_div(raw, Scale, ref) \in 0..MaxScore /\ Scale \in Nat /\ MaxScore \in Nat
      BY <1>2, MulDiv, RankingAssumption
    <2>2. normalize_lower_better(raw, ref) \in Int /\ normalize_higher_better(raw, ref) \in Int
      BY <2>1 DEF normalize_lower_better, normalize_higher_better, Clamp
    <2>3. /\ known_value(normalize_lower_better(raw, ref)) \in 0..Scale
          /\ known_value(normalize_higher_better(raw, ref)) \in 0..Scale
      BY <2>2, KnownValue
    <2>4. LowerBetter(raw, ref) \in 0..Scale /\ HigherBetter(raw, ref) \in 0..Scale
      BY <1>2, <2>3 DEF LowerBetter, HigherBetter
    <2> QED
      BY <1>2, <2>4 DEF Factor
  <1> QED
    BY <1>1, <1>2 DEF Unknown

LEMMA RatioFactor ==
    ASSUME NEW part \in Nat \cup {Unknown}, NEW total \in Nat \cup {Unknown}
    PROVE  Ratio(part, total) \in Factor
  <1>1. CASE part # Unknown /\ total > 0
    <2>1. part \in Nat /\ total \in Nat \ {0} /\ Scale \in Nat
      BY <1>1, RankingAssumption DEF Unknown
    <2>2. mul_div(part, Scale, total) \in Int
      BY <2>1, MulDivNat
    <2>3. known_value(mul_div(part, Scale, total)) \in 0..Scale
      BY <2>2, KnownValue
    <2> QED
      BY <1>1, <2>3 DEF Ratio, Factor
  <1>2. CASE ~(part # Unknown /\ total > 0)
    BY <1>2 DEF Ratio, unknown, Factor
  <1> QED
    BY <1>1, <1>2

LEMMA StateFactors ==
    /\ \A state \in Nat \cup {Unknown} : Graded(state) \in Factor /\ Trusted(state) \in Factor
    /\ \A asked, yes \in BOOLEAN : Matches(asked, yes) \in Factor
  <1>1. Scale \in Nat /\ Scale \div 2 \in Int
    BY RankingAssumption, Quotient
  <1>2. ASSUME NEW state \in Nat \cup {Unknown} PROVE Graded(state) \in Factor /\ Trusted(state) \in Factor
    <2>1. Graded(state) \in Factor
      BY <1>1, KnownValue DEF Graded, unknown, Factor
    <2>2. CASE state = Unknown
      BY <2>1, <2>2 DEF Trusted, unknown, Factor
    <2>3. CASE state # Unknown
      <3>1. mul_div(state, Scale, 4) \in Int
        BY <1>1, <2>3, MulDivNat
      <3> QED
        BY <2>1, <2>3, <3>1, KnownValue DEF Trusted, Factor
    <2> QED
      BY <2>2, <2>3
  <1>3. ASSUME NEW asked \in BOOLEAN, NEW yes \in BOOLEAN PROVE Matches(asked, yes) \in Factor
    BY <1>1, KnownValue DEF Matches, unknown, Factor
  <1> QED
    BY <1>2, <1>3

\* The smaller of two numbers.
LEMMA MinOfTwo ==
    ASSUME NEW a \in Int, NEW b \in Int
    PROVE  Min({a, b}) = IF a <= b THEN a ELSE b
  BY DEF Min

\* The evidence of one candidate.
Evidence == [Items -> Nat \cup {Unknown}]

LEMMA WarmthFactor ==
    ASSUME NEW e \in Evidence
    PROVE  Warmth(e) \in Factor
  <1>1. e["readiness"] \in Nat \cup {Unknown} /\ e["cold_start"] \in Nat \cup {Unknown}
    BY DEF Evidence, Items
  <1>2. Scale \in Nat /\ Reference \in Nat \ {0} /\ Graded(e["readiness"]) \in Factor
    BY <1>1, StateFactors, RankingAssumption
  <1>3. e["cold_start"] # Unknown => mul_div(e["cold_start"], Scale, Reference) \in Int
    <2>1. e["cold_start"] \in Nat => mul_div(e["cold_start"], Scale, Reference) \in Nat
      BY <1>2, MulDivNat
    <2> QED
      BY <1>1, <2>1
  <1> DEFINE penalty == IF e["cold_start"] = Unknown THEN 0
                        ELSE mul_div(e["cold_start"], Scale, Reference)
  <1>4. penalty \in Int
    BY <1>3
  <1>5. Warmth(e) = IF Graded(e["readiness"]) = Unknown THEN unknown
                    ELSE known_value(Graded(e["readiness"]) - penalty)
    BY DEF Warmth
  <1> HIDE DEF penalty
  <1>6. CASE Graded(e["readiness"]) = Unknown
    BY <1>5, <1>6 DEF unknown, Factor
  <1>7. CASE Graded(e["readiness"]) # Unknown
    <2>1. Graded(e["readiness"]) \in Int
      BY <1>2, <1>7 DEF Factor
    <2>2. Graded(e["readiness"]) - penalty \in Int
      BY <1>4, <2>1
    <2>3. known_value(Graded(e["readiness"]) - penalty) \in 0..Scale
      BY <2>2, KnownValue
    <2> QED
      BY <1>5, <1>7, <2>3 DEF Factor
  <1> QED
    BY <1>6, <1>7

\* The soft preference is a number, and losing the trust of a candidate does not raise it.
LEMMA PreferenceBound ==
    ASSUME NEW q, NEW c, NEW e \in Evidence
    PROVE  /\ Preference(q, c, e) \in 0..Scale
           /\ \A f \in Evidence : f["trust"] \in {e["trust"], Unknown}
                 => Preference(q, c, f) <= Preference(q, c, e)
  <1>1. Scale \in Nat /\ Scale \div 2 \in Nat
    BY RankingAssumption, Quotient
  <1> DEFINE Family == IF c \in q.preferred_family THEN Scale \div 2 ELSE 0
             Trust(g) == IF g["trust"] = Unknown THEN 0 ELSE (g["trust"] * Scale) \div 10
  <1>2. Family \in Nat
    BY <1>1
  <1>3. ASSUME NEW g \in Evidence PROVE Trust(g) \in Nat
    <2>1. g["trust"] \in Nat \cup {Unknown}
      BY DEF Evidence, Items
    <2>2. g["trust"] \in Nat => g["trust"] * Scale \in Nat
      BY <1>1
    <2>3. g["trust"] \in Nat => (g["trust"] * Scale) \div 10 \in Nat
      BY <2>2, Quotient
    <2> QED
      BY <2>1, <2>3
  <1>4. ASSUME NEW f \in Evidence, f["trust"] \in {e["trust"], Unknown} PROVE Trust(f) <= Trust(e)
    BY <1>3, <1>4
  <1>5. \A g : Preference(q, c, g) = Min({Family + Trust(g), Scale})
    BY DEF Preference
  <1> HIDE DEF Family, Trust
  <1>6. ASSUME NEW g \in Evidence
        PROVE  Preference(q, c, g) = IF Family + Trust(g) <= Scale THEN Family + Trust(g) ELSE Scale
    <2>1. Family + Trust(g) \in Int /\ Scale \in Int
      BY <1>1, <1>2, <1>3
    <2> QED
      BY <1>5, <2>1, MinOfTwo
  <1>7. Preference(q, c, e) \in 0..Scale
    BY <1>1, <1>2, <1>3, <1>6
  <1>8. ASSUME NEW f \in Evidence, f["trust"] \in {e["trust"], Unknown}
        PROVE  Preference(q, c, f) <= Preference(q, c, e)
    <2>1. Trust(f) <= Trust(e) /\ Trust(f) \in Nat /\ Trust(e) \in Nat
      BY <1>3, <1>4, <1>8
    <2> QED
      BY <1>1, <1>2, <1>6, <2>1
  <1> QED
    BY <1>7, <1>8

LEMMA MovementFactor ==
    ASSUME NEW e \in Evidence
    PROVE  Movement(e) \in Factor
  <1>1. e["distance"] \in Nat \cup {Unknown} /\ 0 \in Nat \cup {Unknown} /\ Reference \in Nat \ {0}
    BY RankingAssumption DEF Evidence, Items
  <1>2. LowerBetter(e["distance"], Reference) \in Factor /\ LowerBetter(0, Reference) \in Factor
    BY <1>1, ShareFactors
  <1> QED
    BY <1>2 DEF Movement

\* The identities a request may name are few.
LEMMA AskedFinite ==
    ASSUME NEW q \in Requests
    PROVE  /\ IsFiniteSet(q.asked \cap Continuities)
           /\ IsFiniteSet(q.asked \cap Affinities)
  <1>1. IsFiniteSet(Continuities)
    <2>1. Continuities = ((({} \cup {"same_family"}) \cup {"same_provider"}) \cup {"same_backend"})
                             \cup {"context_locality"}
      BY DEF Continuities
    <2> QED
      BY <2>1, FS_EmptySet, FS_AddElement, Zenon
  <1>2. IsFiniteSet(Affinities)
    <2>1. Affinities = (({} \cup {"affinity_model"}) \cup {"affinity_provider"})
                             \cup {"affinity_backend"}
      BY DEF Affinities
    <2> QED
      BY <2>1, FS_EmptySet, FS_AddElement, Zenon
  <1> QED
    BY <1>1, <1>2, FS_Subset

LEMMA SharesFactor ==
    ASSUME NEW asked, IsFiniteSet(asked), NEW met
    PROVE  Shares(asked, met) \in Factor
  <1>1. IsFiniteSet(asked \cap met)
    BY FS_Subset
  <1>2. /\ Cardinality(asked) \in Nat \cup {Unknown}
        /\ Cardinality(asked \cap met) \in Nat \cup {Unknown}
    BY <1>1, FS_CardinalityType
  <1>3. Ratio(Cardinality(asked \cap met), Cardinality(asked)) \in Factor
    BY <1>2, RatioFactor
  <1> QED
    BY <1>3 DEF Shares

\* The factors of each group.
LEMMA ServiceType ==
    ASSUME NEW q \in Requests, NEW e \in Evidence
    PROVE  ServiceFactors(q, e) \in Seq(Factor) /\ Len(ServiceFactors(q, e)) = 9
  <1>1. /\ q.required \in Nat \cup {Unknown} /\ q.preferred \in Nat \cup {Unknown}
        /\ Reference \in Nat \ {0}
    BY InputsAssumption, RankingAssumption
  <1>2. /\ e["preferred"] \in Nat \cup {Unknown} /\ e["quality"] \in Nat \cup {Unknown}
        /\ e["cost"] \in Nat \cup {Unknown} /\ e["dispatch"] \in Nat \cup {Unknown}
        /\ e["tail"] \in Nat \cup {Unknown} /\ e["queue"] \in Nat \cup {Unknown}
        /\ e["residency"] \in Nat \cup {Unknown}
    BY DEF Evidence, Items
  <1>3. Ratio(q.required, q.required) \in Factor /\ Ratio(e["preferred"], q.preferred) \in Factor
    BY <1>1, <1>2, RatioFactor
  <1>4. /\ HigherBetter(e["quality"], Reference) \in Factor
        /\ LowerBetter(e["cost"], Reference) \in Factor
        /\ LowerBetter(e["dispatch"], Reference) \in Factor
        /\ LowerBetter(e["tail"], Reference) \in Factor
        /\ LowerBetter(e["queue"], Reference) \in Factor
    BY <1>1, <1>2, ShareFactors
  <1>5. Warmth(e) \in Factor /\ Graded(e["residency"]) \in Factor
    BY <1>2, WarmthFactor, StateFactors
  <1> QED
    BY <1>3, <1>4, <1>5 DEF ServiceFactors

LEMMA BackendType ==
    ASSUME NEW q \in Requests, NEW e \in Evidence
    PROVE  BackendFactors(q, e) \in Seq(Factor) /\ Len(BackendFactors(q, e)) = 9
  <1>1. q.target \in Nat /\ q.context \in Nat /\ Reference \in Nat \ {0}
    BY InputsAssumption, RankingAssumption
  <1>2. /\ e["trust"] \in Nat \cup {Unknown} /\ e["distance"] \in Nat \cup {Unknown}
        /\ e["availability"] \in Nat \cup {Unknown} /\ e["health"] \in Nat \cup {Unknown}
        /\ e["readiness"] \in Nat \cup {Unknown} /\ e["dispatch"] \in Nat \cup {Unknown}
        /\ e["available_slots"] \in Nat \cup {Unknown} /\ e["total_slots"] \in Nat \cup {Unknown}
        /\ e["context"] \in Nat \cup {Unknown}
    BY DEF Evidence, Items
  <1>3. /\ Trusted(e["trust"]) \in Factor /\ Graded(e["availability"]) \in Factor
        /\ Graded(e["health"]) \in Factor /\ Graded(e["readiness"]) \in Factor
    BY <1>2, StateFactors
  <1>4. Reserved(e) \in Factor
    <2>1. (e["reservation"] # Unknown) \in BOOLEAN
      OBVIOUS
    <2> QED
      BY <2>1, StateFactors DEF Reserved
  <1>5. LowerBetter(e["distance"], Reference) \in Factor
    BY <1>1, <1>2, ShareFactors
  <1>6. Ratio(e["available_slots"], e["total_slots"]) \in Factor
    BY <1>2, RatioFactor
  <1>7. OnTarget(q, e) \in Factor
    <2>1. CASE q.target > 0
      <3>1. q.target \in Nat \ {0}
        BY <1>1, <2>1
      <3> QED
        BY <1>2, <2>1, <3>1, ShareFactors DEF OnTarget
    <2>2. CASE ~(q.target > 0)
      BY <2>2 DEF OnTarget, unknown, Factor
    <2> QED
      BY <2>1, <2>2
  <1>8. Headroom(q, e) \in Factor
    <2>1. CASE q.context > 0 /\ e["context"] >= q.context
      <3>1. e["context"] - q.context \in Nat
        BY <1>1, <1>2, <2>1 DEF Unknown
      <3>2. HigherBetter(e["context"] - q.context, Reference) \in Factor
        BY <1>1, <3>1, ShareFactors
      <3> QED
        BY <2>1, <3>2 DEF Headroom
    <2>2. CASE ~(q.context > 0 /\ e["context"] >= q.context)
      BY <2>2 DEF Headroom, unknown, Factor
    <2> QED
      BY <2>1, <2>2
  <1> QED
    BY <1>3, <1>4, <1>5, <1>6, <1>7, <1>8 DEF BackendFactors

LEMMA PreferenceType ==
    ASSUME NEW q \in Requests, NEW c, NEW e \in Evidence, NEW winner
    PROVE  PreferenceFactors(q, c, e, winner) \in Seq(Factor)
           /\ Len(PreferenceFactors(q, c, e, winner)) = 11
  <1>1. Reference \in Nat \ {0} /\ Scale \in Nat
    BY RankingAssumption
  <1>2. /\ e["trust"] \in Nat \cup {Unknown} /\ e["reliability"] \in Nat \cup {Unknown}
        /\ e["cold_start"] \in Nat \cup {Unknown}
    BY DEF Evidence, Items
  <1>3. Trusted(e["trust"]) \in Factor
    BY <1>2, StateFactors
  <1>4. known_value(Preference(q, c, e)) \in Factor
    <2>1. Preference(q, c, e) \in 0..Scale
      BY PreferenceBound
    <2>2. Preference(q, c, e) \in Int
      BY <1>1, <2>1
    <2> QED
      BY <2>2, KnownValue DEF Factor
  <1>5. /\ Matches("affinity_model" \in q.asked, "affinity_model" \in Met(q, c, e)) \in Factor
        /\ Continuity(winner, c) \in Factor
    <2>1. /\ ("affinity_model" \in q.asked) \in BOOLEAN
          /\ ("affinity_model" \in Met(q, c, e)) \in BOOLEAN
          /\ (winner # 0) \in BOOLEAN /\ (winner = c) \in BOOLEAN
      OBVIOUS
    <2> QED
      BY <2>1, StateFactors DEF Continuity
  <1>6. /\ HigherBetter(e["reliability"], Reference) \in Factor
        /\ LowerBetter(e["cold_start"], Reference) \in Factor
    BY <1>1, <1>2, ShareFactors
  <1>7. unknown \in Factor /\ Movement(e) \in Factor
    BY MovementFactor DEF unknown, Factor
  <1>8. /\ Shares(q.asked \cap Continuities, Met(q, c, e)) \in Factor
        /\ Shares(q.asked \cap Affinities, Met(q, c, e)) \in Factor
    BY AskedFinite, SharesFactor
  <1> QED
    BY <1>3, <1>4, <1>5, <1>6, <1>7, <1>8 DEF PreferenceFactors

\* Three groups in a row.
Row(S, B, P) == S \o B \o P

LEMMA ThreeGroups ==
    ASSUME NEW S \in Seq(Factor), NEW B \in Seq(Factor), NEW P \in Seq(Factor),
           Len(S) = 9, Len(B) = 9, Len(P) = 11
    PROVE  /\ Row(S, B, P) \in [1..29 -> Factor] /\ Len(Row(S, B, P)) = 29
           /\ \A i \in 1..29 : Row(S, B, P)[i] =
                  IF i <= 9 THEN S[i] ELSE IF i <= 18 THEN B[i - 9] ELSE P[i - 18]
  <1>1. PICK T \in Seq(Factor) : T = S \o B
    BY ConcatProperties, Zenon
  <1>2. /\ Len(T) = Len(S) + Len(B)
        /\ \A i \in 1..(Len(S) + Len(B)) : T[i] = IF i <= Len(S) THEN S[i] ELSE B[i - Len(S)]
    BY <1>1, ConcatProperties, Zenon
  <1>3. PICK U \in Seq(Factor) : U = T \o P
    BY ConcatProperties, Zenon
  <1>4. /\ Len(U) = Len(T) + Len(P)
        /\ \A i \in 1..(Len(T) + Len(P)) : U[i] = IF i <= Len(T) THEN T[i] ELSE P[i - Len(T)]
    BY <1>3, ConcatProperties, Zenon
  <1>5. Len(T) = 18 /\ Len(U) = 29
    BY <1>2, <1>4
  <1>6. \A i \in 1..18 : T[i] = IF i <= 9 THEN S[i] ELSE B[i - 9]
    BY <1>2, <1>5
  <1>7. \A i \in 1..29 : U[i] = IF i <= 18 THEN T[i] ELSE P[i - 18]
    BY <1>4, <1>5
  <1>8. ASSUME NEW i \in 1..29
        PROVE  U[i] = IF i <= 9 THEN S[i] ELSE IF i <= 18 THEN B[i - 9] ELSE P[i - 18]
    <2>1. CASE i <= 18
      <3>1. i \in 1..18
        BY <2>1
      <3>2. U[i] = T[i] /\ T[i] = IF i <= 9 THEN S[i] ELSE B[i - 9]
        BY <2>1, <3>1, <1>6, <1>7, Zenon
      <3> QED
        BY <2>1, <3>2, Zenon
    <2>2. CASE ~(i <= 18)
      <3>1. ~(i <= 9)
        BY <2>2
      <3> QED
        BY <2>2, <3>1, <1>7, Zenon
    <2> QED
      BY <2>1, <2>2
  <1>9. U \in [1..29 -> Factor]
    BY <1>5, LenProperties, Zenon
  <1>10. U = Row(S, B, P)
    BY <1>1, <1>3, Zenon DEF Row
  <1> QED
    BY <1>5, <1>8, <1>9, <1>10, Zenon

\* Where each factor comes from, and that there are 29 of them.
LEMMA FactorsByGroup ==
    ASSUME NEW q \in Requests, NEW c, NEW e \in Evidence, NEW winner
    PROVE  /\ build_factors(q, c, e, winner) \in [1..29 -> Factor]
           /\ Len(build_factors(q, c, e, winner)) = 29
           /\ \A i \in 1..29 : build_factors(q, c, e, winner)[i] =
                  IF i <= 9 THEN ServiceFactors(q, e)[i]
                  ELSE IF i <= 18 THEN BackendFactors(q, e)[i - 9]
                  ELSE PreferenceFactors(q, c, e, winner)[i - 18]
  <1>1. PICK S \in Seq(Factor) : S = ServiceFactors(q, e) /\ Len(S) = 9
    BY ServiceType
  <1>2. PICK B \in Seq(Factor) : B = BackendFactors(q, e) /\ Len(B) = 9
    BY BackendType
  <1>3. PICK P \in Seq(Factor) : P = PreferenceFactors(q, c, e, winner) /\ Len(P) = 11
    BY PreferenceType
  <1>4. build_factors(q, c, e, winner) = Row(S, B, P)
    BY <1>1, <1>2, <1>3, Zenon DEF build_factors, Row
  <1>5. Len(S) = 9 /\ Len(B) = 9 /\ Len(P) = 11
    BY <1>1, <1>2, <1>3
  <1>6. /\ Row(S, B, P) \in [1..29 -> Factor] /\ Len(Row(S, B, P)) = 29
        /\ \A i \in 1..29 : Row(S, B, P)[i] =
               IF i <= 9 THEN S[i] ELSE IF i <= 18 THEN B[i - 9] ELSE P[i - 18]
    BY <1>5, ThreeGroups, ZenonT(40)
  <1> QED
    BY <1>1, <1>2, <1>3, <1>4, <1>6

-----------------------------------------------------------------------------
(* FactorValue: the value, its contribution and whether it is known.        *)

LEMMA ValuedFields ==
    ASSUME NEW f \in Factor, NEW i \in 1..29
    PROVE  /\ Valued(f, Weights[i]) \in FactorValues
           /\ Valued(f, Weights[i]).normalized = IF f = Unknown THEN 0 ELSE f
           /\ Valued(f, Weights[i]).known = IF f = Unknown THEN 0 ELSE 1
           /\ Valued(f, Weights[i]).contribution
                 = mul_div(IF f = Unknown THEN 0 ELSE f, Weights[i], Scale)
           /\ Valued(f, Weights[i]).contribution
                 = (Valued(f, Weights[i]).normalized * Weights[i]) \div Scale
  <1>1. Scale \in Nat
    BY RankingAssumption
  <1>2. PICK n \in 0..Scale : n = IF f = Unknown THEN 0 ELSE f
    BY <1>1 DEF Factor
  <1>3. Valued(f, Weights[i]) = [contribution |-> mul_div(n, Weights[i], Scale), normalized |-> n,
                                 known |-> IF f = Unknown THEN 0 ELSE 1]
    BY <1>2 DEF Valued
  <1>4. /\ mul_div(n, Weights[i], Scale) \in 0..MaxScore
        /\ mul_div(n, Weights[i], Scale) = (n * Weights[i]) \div Scale
    BY Contribution
  <1> QED
    BY <1>2, <1>3, <1>4 DEF FactorValues

\* Exceeds orders the values of a factor strictly and totally.
LEMMA ExceedsOrder ==
    ASSUME NEW f \in FactorValues, NEW g \in FactorValues, NEW h \in FactorValues
    PROVE  /\ ~Exceeds(f, f)
           /\ f = g \/ Exceeds(f, g) \/ Exceeds(g, f)
           /\ Exceeds(f, g) /\ Exceeds(g, h) => Exceeds(f, h)
  <1>1. /\ f.contribution \in Int /\ g.contribution \in Int /\ h.contribution \in Int
        /\ f.normalized \in Int /\ g.normalized \in Int /\ h.normalized \in Int
        /\ f.known \in Int /\ g.known \in Int /\ h.known \in Int
    BY RankingAssumption DEF FactorValues
  <1>2. ~Exceeds(f, f)
    BY <1>1 DEF Exceeds
  <1>3. Exceeds(f, g) /\ Exceeds(g, h) => Exceeds(f, h)
    BY <1>1 DEF Exceeds
  <1>4. ASSUME ~Exceeds(f, g), ~Exceeds(g, f) PROVE f = g
    <2>1. f.contribution = g.contribution /\ f.normalized = g.normalized /\ f.known = g.known
      BY <1>1, <1>4 DEF Exceeds
    <2> QED
      BY <2>1 DEF FactorValues
  <1> QED
    BY <1>2, <1>3, <1>4

\* A higher factor, Unknown below all, has a better value and contributes no less.
LEMMA ValuedMonotone ==
    ASSUME NEW f \in Factor, NEW g \in Factor, f <= g, NEW i \in 1..29
    PROVE  /\ Valued(f, Weights[i]).contribution <= Valued(g, Weights[i]).contribution
           /\ Valued(f, Weights[i]) = Valued(g, Weights[i])
              \/ Exceeds(Valued(g, Weights[i]), Valued(f, Weights[i]))
           /\ f < g => Exceeds(Valued(g, Weights[i]), Valued(f, Weights[i]))
  <1>1. Scale \in Nat
    BY RankingAssumption
  <1>2. PICK m \in 0..Scale : m = IF f = Unknown THEN 0 ELSE f
    BY <1>1 DEF Factor
  <1>3. PICK n \in 0..Scale : n = IF g = Unknown THEN 0 ELSE g
    BY <1>1 DEF Factor
  <1>4. m <= n /\ (f # Unknown => g # Unknown)
    BY <1>1, <1>2, <1>3 DEF Factor, Unknown
  <1>5. f < g => m < n \/ (m = n /\ f = Unknown /\ g # Unknown)
    BY <1>1, <1>2, <1>3 DEF Factor, Unknown
  <1> DEFINE F == Valued(f, Weights[i])
             G == Valued(g, Weights[i])
  <1>6. /\ F \in FactorValues /\ F.normalized = m /\ F.known = (IF f = Unknown THEN 0 ELSE 1)
        /\ F.contribution = mul_div(m, Weights[i], Scale)
    BY <1>2, ValuedFields
  <1>7. /\ G \in FactorValues /\ G.normalized = n /\ G.known = (IF g = Unknown THEN 0 ELSE 1)
        /\ G.contribution = mul_div(n, Weights[i], Scale)
    BY <1>3, ValuedFields
  <1>8. mul_div(m, Weights[i], Scale) <= mul_div(n, Weights[i], Scale)
    BY <1>4, ContributionMonotone
  <1> HIDE DEF F, G
  <1>9. F.contribution \in Int /\ G.contribution \in Int
    BY <1>6, <1>7, RankingAssumption DEF FactorValues
  <1>10. f < g => Exceeds(G, F)
    <2>1. CASE m < n
      BY <1>6, <1>7, <1>8, <1>9, <2>1 DEF Exceeds
    <2>2. CASE m = n /\ f = Unknown /\ g # Unknown
      BY <1>6, <1>7, <1>8, <1>9, <2>2 DEF Exceeds
    <2> QED
      BY <1>5, <2>1, <2>2
  <1>11. f = g => F = G
    BY DEF F, G
  <1>12. f = g \/ f < g
    BY <1>1 DEF Factor, Unknown
  <1> QED
    BY <1>6, <1>7, <1>8, <1>10, <1>11, <1>12 DEF F, G

-----------------------------------------------------------------------------
(* The score.                                                               *)

LEMMA SaturatingAdd ==
    ASSUME NEW l \in 0..MaxScore, NEW r \in 0..MaxScore
    PROVE  /\ saturating_add(l, r) \in 0..MaxScore
           /\ saturating_add(l, r) = IF l + r <= MaxScore THEN l + r ELSE MaxScore
  BY RankingAssumption DEF saturating_add

\* The partial sums behind a score.
PartialSums(values, u) ==
    /\ u \in [0..29 -> 0..MaxScore] /\ u[0] = 0
    /\ \A i \in 1..29 : u[i] = saturating_add(u[i - 1], values[i].contribution)

LEMMA TotalUnfolds ==
    ASSUME NEW values \in [1..29 -> FactorValues]
    PROVE  \E u : PartialSums(values, u) /\ Total(values, 29) = u[29]
  <1> DEFINE V == 0..MaxScore
             g == [i \in 1..29 |-> [s \in V |-> saturating_add(s, values[i].contribution)]]
  <1>1. \A i \in 1..29 : values[i].contribution \in V
    BY DEF FactorValues
  <1>2. g \in [1..29 -> [V -> V]]
    BY <1>1, SaturatingAdd
  <1>3. 29 \in Nat /\ 0 \in V
    BY RankingAssumption
  <1>4. PICK f \in [0..29 -> V] : f[0] = 0 /\ \A i \in 1..29 : f[i] = g[i][f[i - 1]]
    <2>1. g \in Steps(29, V)
      BY <1>2 DEF Steps
    <2> HIDE DEF V, g
    <2>2. \E f : Recursion(29, V, 0, g, f)
      BY <1>3, <2>1, RecursionExists
    <2> QED
      BY <2>2 DEF Recursion
  <1>5. f = [i \in 0..29 |-> IF i = 0 THEN 0 ELSE saturating_add(f[i - 1], values[i].contribution)]
    <2>1. ASSUME NEW i \in 1..29
          PROVE  g[i][f[i - 1]] = saturating_add(f[i - 1], values[i].contribution)
      <3> HIDE DEF V
      <3>1. f[i - 1] \in V
        OBVIOUS
      <3> QED
        BY <3>1
    <2> HIDE DEF g
    <2>2. \A i \in 0..29 :
              f[i] = IF i = 0 THEN 0 ELSE saturating_add(f[i - 1], values[i].contribution)
      BY <1>4, <2>1, SMTT(40)
    <2> QED
      BY <2>2
  <1> HIDE DEF g
  <1>6. PICK u : /\ u = [i \in 0..29 |-> IF i = 0 THEN 0
                                         ELSE saturating_add(u[i - 1], values[i].contribution)]
                 /\ Total(values, 29) = u[29]
    BY <1>5 DEF Total
  <1>7. u[0] = 0 /\ \A i \in 1..29 : u[i] = saturating_add(u[i - 1], values[i].contribution)
    BY <1>6
  <1>8. \A i \in 0..29 : u[i] \in V
    <2> DEFINE S == {i \in 0..29 : u[i] \in V}
    <2>1. 0 \in S
      BY <1>3, <1>7
    <2>2. ASSUME NEW k \in 0..(29 - 1), k \in S PROVE k + 1 \in S
      <3>1. k + 1 \in 1..29 /\ (k + 1) - 1 = k /\ u[k] \in V
        BY <2>2
      <3>2. u[k + 1] = saturating_add(u[k], values[k + 1].contribution)
        BY <1>7, <3>1
      <3>3. u[k + 1] \in V
        BY <1>1, <3>1, <3>2, SaturatingAdd
      <3> QED
        BY <3>1, <3>3
    <2> HIDE DEF S
    <2>3. \A k \in 0..(29 - 1) : k \in S => k + 1 \in S
      BY <2>2
    <2>4. \A k \in 0..29 : k \in S
      BY <1>3, <2>1, <2>3, SetInduction
    <2> QED
      BY <2>4 DEF S
  <1>9. u \in [0..29 -> V]
    BY <1>6, <1>8
  <1> QED
    BY <1>6, <1>7, <1>9 DEF PartialSums

\* The same sum in unbounded integers.
ExactSums(fs, v) ==
    /\ v \in [0..29 -> Nat] /\ v[0] = 0
    /\ \A i \in 1..29 : v[i] = v[i - 1] + (fs[i].normalized * Weights[i]) \div Scale

LEMMA ExactTerm ==
    ASSUME NEW fs \in [1..29 -> FactorValues], NEW i \in 1..29
    PROVE  (fs[i].normalized * Weights[i]) \div Scale \in Nat
  <1>1. fs[i].normalized \in Nat /\ Weights[i] \in Nat /\ Scale \in Nat \ {0}
    BY RankingAssumption DEF FactorValues
  <1>2. fs[i].normalized * Weights[i] \in Nat
    BY <1>1
  <1> QED
    BY <1>1, <1>2, Quotient

LEMMA ExactUnfolds ==
    ASSUME NEW fs \in [1..29 -> FactorValues]
    PROVE  \E v : ExactSums(fs, v) /\ ExactTotal(fs, 29) = v[29]
  <1> DEFINE term(i) == (fs[i].normalized * Weights[i]) \div Scale
             g == [i \in 1..29 |-> [s \in Nat |-> s + term(i)]]
  <1>1. \A i \in 1..29 : term(i) \in Nat
    BY ExactTerm
  <1>3. (\E f : f = [i \in 0..29 |-> IF i = 0 THEN 0 ELSE f[i - 1] + term(i)])
        => \E u : /\ u = [i \in 0..29 |-> IF i = 0 THEN 0 ELSE u[i - 1] + term(i)]
                  /\ ExactTotal(fs, 29) = u[29]
    BY DEF ExactTotal
  <1> HIDE DEF term
  <1>4. g \in [1..29 -> [Nat -> Nat]]
    BY <1>1
  <1>5. PICK f \in [0..29 -> Nat] : f[0] = 0 /\ \A i \in 1..29 : f[i] = g[i][f[i - 1]]
    <2>1. g \in Steps(29, Nat) /\ 29 \in Nat /\ 0 \in Nat
      BY <1>4 DEF Steps
    <2> HIDE DEF g
    <2>2. \E f : Recursion(29, Nat, 0, g, f)
      BY <2>1, RecursionExists
    <2> QED
      BY <2>2 DEF Recursion
  <1>6. f = [i \in 0..29 |-> IF i = 0 THEN 0 ELSE f[i - 1] + term(i)]
    <2>1. \A i \in 1..29 : g[i][f[i - 1]] = f[i - 1] + term(i)
      OBVIOUS
    <2> HIDE DEF g
    <2>2. \A i \in 0..29 : f[i] = IF i = 0 THEN 0 ELSE f[i - 1] + term(i)
      BY <1>5, <2>1
    <2> QED
      BY <2>2
  <1> HIDE DEF g
  <1>7. PICK u : /\ u = [i \in 0..29 |-> IF i = 0 THEN 0 ELSE u[i - 1] + term(i)]
                 /\ ExactTotal(fs, 29) = u[29]
    BY <1>3, <1>6
  <1>8. u[0] = 0 /\ \A i \in 1..29 : u[i] = u[i - 1] + term(i)
    BY <1>7
  <1>9. \A i \in 0..29 : u[i] \in Nat
    <2> DEFINE S == {i \in 0..29 : u[i] \in Nat}
    <2>1. 0 \in S /\ 29 \in Nat
      BY <1>8
    <2>2. ASSUME NEW k \in 0..(29 - 1), k \in S PROVE k + 1 \in S
      <3>1. k + 1 \in 1..29 /\ (k + 1) - 1 = k /\ u[k] \in Nat
        BY <2>2
      <3>2. u[k + 1] = u[k] + term(k + 1)
        BY <1>8, <3>1
      <3> QED
        BY <1>1, <3>1, <3>2
    <2> HIDE DEF S
    <2>3. \A k \in 0..(29 - 1) : k \in S => k + 1 \in S
      BY <2>2
    <2>4. \A k \in 0..29 : k \in S
      BY <2>1, <2>3, SetInduction
    <2> QED
      BY <2>4 DEF S
  <1>10. u \in [0..29 -> Nat]
    BY <1>7, <1>9
  <1> QED
    BY <1>7, <1>8, <1>10 DEF ExactSums, term

\* Saturation shows only where the exact sum does not fit.
LEMMA TotalIsExact ==
    ASSUME NEW fs \in [1..29 -> FactorValues],
           \A i \in 1..29 : fs[i].contribution = (fs[i].normalized * Weights[i]) \div Scale
    PROVE  /\ Total(fs, 29) \in 0..MaxScore
           /\ Total(fs, 29) = Min({ExactTotal(fs, 29), MaxScore})
  <1>1. PICK u : PartialSums(fs, u) /\ Total(fs, 29) = u[29]
    BY TotalUnfolds
  <1>2. PICK v : ExactSums(fs, v) /\ ExactTotal(fs, 29) = v[29]
    BY ExactUnfolds
  <1>3. MaxScore \in Nat /\ \A i \in 1..29 : fs[i].contribution \in 0..MaxScore
    BY RankingAssumption DEF FactorValues
  <1>4. /\ u \in [0..29 -> 0..MaxScore] /\ u[0] = 0
        /\ \A i \in 1..29 : u[i] = saturating_add(u[i - 1], fs[i].contribution)
    BY <1>1 DEF PartialSums
  <1>5. /\ v \in [0..29 -> Nat] /\ v[0] = 0
        /\ \A i \in 1..29 : v[i] = v[i - 1] + fs[i].contribution
    BY <1>2 DEF ExactSums
  <1> DEFINE S == {i \in 0..29 : u[i] = IF v[i] <= MaxScore THEN v[i] ELSE MaxScore}
  <1>6. 0 \in S /\ 29 \in Nat
    BY <1>3, <1>4, <1>5
  <1>7. ASSUME NEW k \in 0..(29 - 1), k \in S PROVE k + 1 \in S
    <2>1. k + 1 \in 1..29 /\ (k + 1) - 1 = k /\ k \in 0..29
      OBVIOUS
    <2>2. u[k] = IF v[k] <= MaxScore THEN v[k] ELSE MaxScore
      BY <1>7
    <2>3. u[k] \in 0..MaxScore /\ v[k] \in Nat /\ fs[k + 1].contribution \in 0..MaxScore
      BY <1>3, <1>4, <1>5, <2>1
    <2>4. u[k + 1] = saturating_add(u[k], fs[k + 1].contribution)
      BY <1>4, <2>1
    <2>5. v[k + 1] = v[k] + fs[k + 1].contribution
      BY <1>5, <2>1
    <2>6. saturating_add(u[k], fs[k + 1].contribution) =
              IF u[k] + fs[k + 1].contribution <= MaxScore
              THEN u[k] + fs[k + 1].contribution ELSE MaxScore
      BY <2>3, SaturatingAdd
    <2>7. u[k + 1] = IF v[k + 1] <= MaxScore THEN v[k + 1] ELSE MaxScore
      BY <1>3, <2>2, <2>3, <2>4, <2>5, <2>6
    <2> QED
      BY <2>1, <2>7
  <1> HIDE DEF S
  <1>8. \A k \in 0..(29 - 1) : k \in S => k + 1 \in S
    BY <1>7
  <1>9. \A k \in 0..29 : k \in S
    BY <1>6, <1>8, SetInduction
  <1>10. u[29] = (IF v[29] <= MaxScore THEN v[29] ELSE MaxScore) /\ v[29] \in Nat
    BY <1>5, <1>9 DEF S
  <1>11. Min({v[29], MaxScore}) = IF v[29] <= MaxScore THEN v[29] ELSE MaxScore
    BY <1>3, <1>10, MinOfTwo, SMTT(40)
  <1>12. u[29] \in 0..MaxScore
    BY <1>4
  <1>13. u[29] = Min({v[29], MaxScore})
    BY <1>10, <1>11, Zenon
  <1> QED
    BY <1>1, <1>2, <1>12, <1>13, Zenon

\* Factors that contribute no less give a score that is no lower.
LEMMA TotalMonotone ==
    ASSUME NEW fs \in [1..29 -> FactorValues], NEW gs \in [1..29 -> FactorValues],
           \A i \in 1..29 : fs[i].contribution <= gs[i].contribution
    PROVE  Total(fs, 29) <= Total(gs, 29)
  <1>1. PICK u : PartialSums(fs, u) /\ Total(fs, 29) = u[29]
    BY TotalUnfolds
  <1>2. PICK v : PartialSums(gs, v) /\ Total(gs, 29) = v[29]
    BY TotalUnfolds
  <1>3. /\ MaxScore \in Nat
        /\ \A i \in 1..29 : fs[i].contribution \in 0..MaxScore /\ gs[i].contribution \in 0..MaxScore
    BY RankingAssumption DEF FactorValues
  <1>4. /\ u \in [0..29 -> 0..MaxScore] /\ u[0] = 0
        /\ \A i \in 1..29 : u[i] = saturating_add(u[i - 1], fs[i].contribution)
    BY <1>1 DEF PartialSums
  <1>5. /\ v \in [0..29 -> 0..MaxScore] /\ v[0] = 0
        /\ \A i \in 1..29 : v[i] = saturating_add(v[i - 1], gs[i].contribution)
    BY <1>2 DEF PartialSums
  <1> DEFINE S == {i \in 0..29 : u[i] <= v[i]}
  <1>6. 0 \in S /\ 29 \in Nat
    BY <1>4, <1>5
  <1>7. ASSUME NEW k \in 0..(29 - 1), k \in S PROVE k + 1 \in S
    <2>1. k + 1 \in 1..29 /\ (k + 1) - 1 = k /\ k \in 0..29
      OBVIOUS
    <2>2. u[k] <= v[k]
      BY <1>7
    <2>3. /\ u[k] \in 0..MaxScore /\ v[k] \in 0..MaxScore
          /\ fs[k + 1].contribution \in 0..MaxScore /\ gs[k + 1].contribution \in 0..MaxScore
      BY <1>3, <1>4, <1>5, <2>1
    <2>4. u[k + 1] = saturating_add(u[k], fs[k + 1].contribution)
      BY <1>4, <2>1
    <2>5. v[k + 1] = saturating_add(v[k], gs[k + 1].contribution)
      BY <1>5, <2>1
    <2>6. fs[k + 1].contribution <= gs[k + 1].contribution
      BY <2>1
    <2>7. u[k + 1] <= v[k + 1]
      BY <1>3, <2>2, <2>3, <2>4, <2>5, <2>6 DEF saturating_add
    <2> QED
      BY <2>1, <2>7
  <1> HIDE DEF S
  <1>8. \A k \in 0..(29 - 1) : k \in S => k + 1 \in S
    BY <1>7
  <1>9. \A k \in 0..29 : k \in S
    BY <1>6, <1>8, SetInduction
  <1>10. u[29] <= v[29]
    BY <1>9 DEF S
  <1> QED
    BY <1>1, <1>2, <1>10

\* What a route builds for a candidate: the factors fs and the RankedCandidate r.
Built(q, c, e, winner, fs, r) ==
    /\ fs = build_factors(q, c, e, winner) /\ r = Ranked(q, c, e, winner)
    /\ \A i \in 1..29 : r.factors[i] = Valued(fs[i], Weights[i])
    /\ r.score = Total(r.factors, 29)
    /\ r.score = Min({ExactTotal(r.factors, 29), MaxScore})

LEMMA RankedParts ==
    ASSUME NEW q \in Requests, NEW c, NEW e \in Evidence, NEW winner
    PROVE  \E fs \in [1..29 -> Factor], r \in RankedCandidates : Built(q, c, e, winner, fs, r)
  <1>1. PICK fs \in [1..29 -> Factor] : fs = build_factors(q, c, e, winner) /\ Len(fs) = 29
    BY FactorsByGroup
  <1> DEFINE values == [i \in 1..29 |-> Valued(fs[i], Weights[i])]
  <1>2. Ranked(q, c, e, winner) = [score |-> Total(values, 29), factors |-> values]
    BY <1>1 DEF Ranked
  <1>3. \A i \in 1..29 : values[i] = Valued(fs[i], Weights[i]) /\ values[i] \in FactorValues
    BY ValuedFields
  <1>4. values \in [1..29 -> FactorValues]
    BY <1>3
  <1>5. \A i \in 1..29 : values[i].contribution = (values[i].normalized * Weights[i]) \div Scale
    BY <1>3, ValuedFields
  <1> HIDE DEF values
  <1>6. /\ Total(values, 29) \in 0..MaxScore
        /\ Total(values, 29) = Min({ExactTotal(values, 29), MaxScore})
    BY <1>4, <1>5, TotalIsExact
  <1>7. PICK r \in RankedCandidates : r = [score |-> Total(values, 29), factors |-> values]
    BY <1>4, <1>6 DEF RankedCandidates
  <1>8. r.factors = values /\ r.score = Total(values, 29)
    BY <1>7
  <1>9. r.score = Total(r.factors, 29) /\ r.score = Min({ExactTotal(r.factors, 29), MaxScore})
    BY <1>6, <1>8, Zenon
  <1>10. fs = build_factors(q, c, e, winner) /\ r = Ranked(q, c, e, winner)
    BY <1>1, <1>2, <1>7
  <1>11. \A i \in 1..29 : r.factors[i] = Valued(fs[i], Weights[i])
    BY <1>3, <1>8
  <1>12. Built(q, c, e, winner, fs, r)
    BY <1>9, <1>10, <1>11, Zenon DEF Built
  <1> QED
    BY <1>12

-----------------------------------------------------------------------------
(* The order of candidates.                                                 *)

Factored == [1..29 -> FactorValues]

\* Lists of factors that differ have a first place where they do.
LEMMA FirstDifference ==
    ASSUME NEW fs \in Factored, NEW gs \in Factored, fs # gs
    PROVE  \E i \in 1..29 : fs[i] # gs[i] /\ \A j \in 1..(i - 1) : fs[j] = gs[j]
  <1> DEFINE T == {i \in 1..29 : fs[i] # gs[i]}
  <1>1. T \subseteq Nat /\ T # {}
    BY DEF Factored
  <1>2. PICK i \in T : \A k \in T : i <= k
    <2> HIDE DEF T
    <2> QED
      BY <1>1, LeastElement
  <1>3. ASSUME NEW j \in 1..(i - 1) PROVE fs[j] = gs[j]
    <2>1. j \in 1..29 /\ ~(i <= j)
      OBVIOUS
    <2> QED
      BY <1>2, <2>1
  <1> QED
    BY <1>3

\* The tie break is a strict total order on lists of factors.
LEMMA TieBreakOrder ==
    ASSUME NEW fs \in Factored, NEW gs \in Factored, NEW hs \in Factored
    PROVE  /\ ~TieBreak(fs, fs)
           /\ fs = gs \/ TieBreak(fs, gs) \/ TieBreak(gs, fs)
           /\ TieBreak(fs, gs) /\ TieBreak(gs, hs) => TieBreak(fs, hs)
  <1>1. /\ DOMAIN fs = 1..29 /\ DOMAIN gs = 1..29 /\ DOMAIN hs = 1..29
        /\ \A i \in 1..29 : fs[i] \in FactorValues /\ gs[i] \in FactorValues /\ hs[i] \in FactorValues
    BY DEF Factored
  <1>2. ~TieBreak(fs, fs)
    BY <1>1, ExceedsOrder DEF TieBreak
  <1>3. ASSUME fs # gs PROVE TieBreak(fs, gs) \/ TieBreak(gs, fs)
    <2>1. PICK i \in 1..29 : fs[i] # gs[i] /\ \A j \in 1..(i - 1) : fs[j] = gs[j]
      BY <1>3, FirstDifference
    <2>2. Exceeds(fs[i], gs[i]) \/ Exceeds(gs[i], fs[i])
      BY <1>1, <2>1, ExceedsOrder
    <2>3. \A j \in 1..(i - 1) : gs[j] = fs[j]
      BY <2>1
    <2> QED
      BY <1>1, <2>1, <2>2, <2>3 DEF TieBreak
  <1>4. ASSUME TieBreak(fs, gs), TieBreak(gs, hs) PROVE TieBreak(fs, hs)
    <2>1. PICK i \in 1..29 : Exceeds(fs[i], gs[i]) /\ \A j \in 1..(i - 1) : fs[j] = gs[j]
      BY <1>1, <1>4 DEF TieBreak
    <2>2. PICK k \in 1..29 : Exceeds(gs[k], hs[k]) /\ \A j \in 1..(k - 1) : gs[j] = hs[j]
      BY <1>1, <1>4 DEF TieBreak
    <2>3. CASE i < k
      <3>1. i \in 1..(k - 1) /\ \A j \in 1..(i - 1) : j \in 1..(k - 1)
        BY <2>3
      <3>2. Exceeds(fs[i], hs[i]) /\ \A j \in 1..(i - 1) : fs[j] = hs[j]
        BY <2>1, <2>2, <3>1
      <3> QED
        BY <1>1, <3>2 DEF TieBreak
    <2>4. CASE k < i
      <3>1. k \in 1..(i - 1) /\ \A j \in 1..(k - 1) : j \in 1..(i - 1)
        BY <2>4
      <3>2. Exceeds(fs[k], hs[k]) /\ \A j \in 1..(k - 1) : fs[j] = hs[j]
        BY <2>1, <2>2, <3>1
      <3> QED
        BY <1>1, <3>2 DEF TieBreak
    <2>5. CASE i = k
      <3>1. Exceeds(fs[i], hs[i]) /\ \A j \in 1..(i - 1) : fs[j] = hs[j]
        BY <1>1, <2>1, <2>2, <2>5, ExceedsOrder
      <3> QED
        BY <1>1, <3>1 DEF TieBreak
    <2> QED
      BY <2>3, <2>4, <2>5
  <1> QED
    BY <1>2, <1>3, <1>4

\* What a route ranks: one RankedCandidate for each candidate.
Rankings == [Candidates -> RankedCandidates]

LEMMA RankedFields ==
    ASSUME NEW r \in RankedCandidates
    PROVE  /\ r.score \in Int /\ r.factors \in Factored
           /\ \A t \in RankedCandidates : r.score = t.score /\ r.factors = t.factors => r = t
  <1>1. MaxScore \in Nat
    BY RankingAssumption
  <1> QED
    BY <1>1 DEF RankedCandidates, Factored

\* candidate_ranks_before is a strict total order of the candidates.
LEMMA RanksOrder ==
    ASSUME NEW R \in Rankings, NEW b \in Candidates, NEW c \in Candidates, NEW d \in Candidates
    PROVE  /\ ~candidate_ranks_before(R, c, c)
           /\ c = d \/ candidate_ranks_before(R, c, d) \/ candidate_ranks_before(R, d, c)
           /\ candidate_ranks_before(R, b, c) /\ candidate_ranks_before(R, c, d)
                 => candidate_ranks_before(R, b, d)
  <1>1. b \in Nat /\ c \in Nat /\ d \in Nat
    BY RankingAssumption
  <1>2. R[b] \in RankedCandidates /\ R[c] \in RankedCandidates /\ R[d] \in RankedCandidates
    BY DEF Rankings
  <1>3. /\ R[b].score \in Int /\ R[c].score \in Int /\ R[d].score \in Int
        /\ R[b].factors \in Factored /\ R[c].factors \in Factored /\ R[d].factors \in Factored
        /\ R[c].score = R[d].score /\ R[c].factors = R[d].factors => R[c] = R[d]
    BY <1>2, RankedFields
  <1>4. ~candidate_ranks_before(R, c, c)
    BY <1>1, <1>3, TieBreakOrder DEF candidate_ranks_before
  <1>5. ASSUME c # d PROVE candidate_ranks_before(R, c, d) \/ candidate_ranks_before(R, d, c)
    <2>1. \/ R[c].factors = R[d].factors
          \/ TieBreak(R[c].factors, R[d].factors) \/ TieBreak(R[d].factors, R[c].factors)
      BY <1>3, TieBreakOrder
    <2>2. c < d \/ d < c
      BY <1>1, <1>5
    <2>3. R[c].score > R[d].score \/ R[d].score > R[c].score \/ R[c].score = R[d].score
      BY <1>3
    <2> QED
      BY <1>3, <2>1, <2>2, <2>3 DEF candidate_ranks_before
  <1>6. ASSUME candidate_ranks_before(R, b, c), candidate_ranks_before(R, c, d)
        PROVE  candidate_ranks_before(R, b, d)
    <2>1. R[b].score >= R[c].score /\ R[c].score >= R[d].score
      BY <1>3, <1>6 DEF candidate_ranks_before
    <2>2. CASE R[b].score > R[c].score \/ R[c].score > R[d].score
      <3>1. R[b].score > R[d].score
        BY <1>3, <2>1, <2>2
      <3> QED
        BY <3>1 DEF candidate_ranks_before
    <2>3. CASE R[b].score = R[c].score /\ R[c].score = R[d].score
      <3>1. ~(R[b].score > R[c].score) /\ ~(R[c].score > R[d].score) /\ R[b].score = R[d].score
        BY <1>3, <2>3
      <3>2. TieBreak(R[b].factors, R[c].factors) \/ (R[b] = R[c] /\ b < c)
        BY <1>6, <3>1 DEF candidate_ranks_before
      <3>3. TieBreak(R[c].factors, R[d].factors) \/ (R[c] = R[d] /\ c < d)
        BY <1>6, <3>1 DEF candidate_ranks_before
      <3>4. CASE TieBreak(R[b].factors, R[c].factors) /\ TieBreak(R[c].factors, R[d].factors)
        <4>1. TieBreak(R[b].factors, R[d].factors)
          BY <1>3, <3>4, TieBreakOrder
        <4> QED
          BY <3>1, <4>1 DEF candidate_ranks_before
      <3>5. CASE R[b] = R[c] /\ b < c /\ R[c] = R[d] /\ c < d
        <4>1. R[b] = R[d] /\ b < d
          BY <1>1, <3>5
        <4> QED
          BY <4>1 DEF candidate_ranks_before
      <3>6. CASE TieBreak(R[b].factors, R[c].factors) /\ R[c] = R[d]
        BY <3>1, <3>6 DEF candidate_ranks_before
      <3>7. CASE R[b] = R[c] /\ TieBreak(R[c].factors, R[d].factors)
        BY <3>1, <3>7 DEF candidate_ranks_before
      <3> QED
        BY <3>2, <3>3, <3>4, <3>5, <3>6, <3>7
    <2> QED
      BY <1>3, <2>1, <2>2, <2>3
  <1> QED
    BY <1>4, <1>5, <1>6

\* The candidates that rank before one.
Ahead(R, c) == {d \in Candidates : candidate_ranks_before(R, d, c)}
Position(R, c) == Cardinality(Ahead(R, c))

LEMMA PositionType ==
    ASSUME NEW R, NEW c
    PROVE  IsFiniteSet(Ahead(R, c)) /\ Position(R, c) \in Nat
  <1>1. Ahead(R, c) \subseteq Candidates /\ IsFiniteSet(Candidates)
    BY RankingAssumption DEF Ahead
  <1>2. IsFiniteSet(Ahead(R, c))
    BY <1>1, FS_Subset
  <1> QED
    BY <1>2, FS_CardinalityType DEF Position

\* A stable sort by a total order has no use for the order its input came in.
LEMMA SortIgnoresPlace ==
    ASSUME NEW R \in Rankings, NEW place \in [Candidates -> Int]
    PROVE  stable_sort(R, place) = [c \in Candidates |-> 1 + Position(R, c)]
  <1> DEFINE Sorted(c) == {d \in Candidates :
                             \/ candidate_ranks_before(R, d, c)
                             \/ ~candidate_ranks_before(R, c, d) /\ place[d] < place[c]}
  <1>1. ASSUME NEW c \in Candidates PROVE Sorted(c) = Ahead(R, c)
    <2>1. ASSUME NEW d \in Candidates, ~candidate_ranks_before(R, c, d), place[d] < place[c]
          PROVE  candidate_ranks_before(R, d, c)
      <3>1. place[c] \in Int
        OBVIOUS
      <3>2. d # c
        BY <2>1, <3>1
      <3> QED
        BY <2>1, <3>2, RanksOrder
    <2> QED
      BY <2>1 DEF Ahead
  <1>2. stable_sort(R, place) = [c \in Candidates |-> 1 + Cardinality(Sorted(c))]
    BY DEF stable_sort
  <1> HIDE DEF Sorted
  <1> QED
    BY <1>1, <1>2 DEF Position

\* Whoever ranks before a candidate has fewer before it.
LEMMA PositionIncreases ==
    ASSUME NEW R \in Rankings, NEW c \in Candidates, NEW d \in Candidates,
           candidate_ranks_before(R, c, d)
    PROVE  Position(R, c) < Position(R, d)
  <1>1. Ahead(R, c) \subseteq Ahead(R, d)
    BY RanksOrder DEF Ahead
  <1>2. c \in Ahead(R, d) /\ c \notin Ahead(R, c)
    BY RanksOrder DEF Ahead
  <1>3. IsFiniteSet(Ahead(R, d)) /\ IsFiniteSet(Ahead(R, c))
    BY PositionType
  <1>4. Ahead(R, c) # Ahead(R, d)
    BY <1>2
  <1>5. Cardinality(Ahead(R, c)) <= Cardinality(Ahead(R, d))
    BY <1>1, <1>3, FS_Subset
  <1>6. Cardinality(Ahead(R, c)) # Cardinality(Ahead(R, d))
    BY <1>1, <1>3, <1>4, FS_Subset
  <1>7. Position(R, c) \in Nat /\ Position(R, d) \in Nat
    BY PositionType
  <1> QED
    BY <1>5, <1>6, <1>7 DEF Position

\* One candidate, and no other, ranks before all the others: the winner.
LEMMA WinnerIsFirst ==
    ASSUME NEW R \in Rankings
    PROVE  /\ Winner(R) \in Candidates
           /\ \A c \in Candidates :
                 Winner(R) = c <=> \A d \in Candidates \ {c} : candidate_ranks_before(R, c, d)
  <1> DEFINE First(c) == \A d \in Candidates \ {c} : candidate_ranks_before(R, c, d)
             T == {Position(R, c) : c \in Candidates}
  <1>1. \A c \in Candidates : Position(R, c) \in Nat
    BY PositionType
  <1>2. T \subseteq Nat /\ T # {}
    BY <1>1, RankingAssumption
  <1>3. PICK m \in T : \A k \in T : m <= k
    <2> HIDE DEF T
    <2> QED
      BY <1>2, LeastElement
  <1>4. PICK w \in Candidates : \A c \in Candidates : Position(R, w) <= Position(R, c)
    BY <1>3
  <1>5. First(w)
    <2>1. ASSUME NEW d \in Candidates \ {w} PROVE candidate_ranks_before(R, w, d)
      <3>1. ~candidate_ranks_before(R, d, w)
        <4>1. Position(R, w) \in Nat /\ Position(R, d) \in Nat /\ Position(R, w) <= Position(R, d)
          BY <1>1, <1>4
        <4>2. candidate_ranks_before(R, d, w) => Position(R, d) < Position(R, w)
          BY PositionIncreases
        <4> QED
          BY <4>1, <4>2
      <3> QED
        BY <3>1, RanksOrder
    <2> QED
      BY <2>1
  <1>6. ASSUME NEW c \in Candidates
        PROVE  stable_sort(R, [d \in Candidates |-> d])[c] = 1 <=> First(c)
    <2>1. [d \in Candidates |-> d] \in [Candidates -> Int]
      BY RankingAssumption
    <2>2. stable_sort(R, [d \in Candidates |-> d])[c] = 1 + Position(R, c)
      BY <2>1, SortIgnoresPlace
    <2>3. Position(R, c) = 0 <=> Ahead(R, c) = {}
      BY PositionType, FS_EmptySet DEF Position
    <2>4. Ahead(R, c) = {} <=> First(c)
      <3>1. ASSUME Ahead(R, c) = {}, NEW d \in Candidates \ {c} PROVE candidate_ranks_before(R, c, d)
        BY <3>1, RanksOrder DEF Ahead
      <3>2. ASSUME First(c), NEW d \in Ahead(R, c) PROVE FALSE
        <4>1. d \in Candidates /\ candidate_ranks_before(R, d, c)
          BY DEF Ahead
        <4>2. d # c
          BY <4>1, RanksOrder
        <4>3. candidate_ranks_before(R, c, d)
          BY <3>2, <4>1, <4>2
        <4>4. candidate_ranks_before(R, c, c)
          BY <4>1, <4>3, RanksOrder
        <4> QED
          BY <4>4, RanksOrder
      <3> QED
        BY <3>1, <3>2
    <2>5. Position(R, c) \in Nat
      BY <1>1
    <2> HIDE DEF First
    <2> QED
      BY <2>2, <2>3, <2>4, <2>5
  <1>7. ASSUME NEW c \in Candidates, NEW d \in Candidates, First(c), First(d) PROVE c = d
    <2> SUFFICES ASSUME c # d PROVE FALSE
      OBVIOUS
    <2>1. candidate_ranks_before(R, c, d) /\ candidate_ranks_before(R, d, c)
      BY <1>7
    <2>2. candidate_ranks_before(R, c, c)
      BY <2>1, RanksOrder
    <2> QED
      BY <2>2, RanksOrder
  <1> HIDE DEF First, T
  <1>8. Winner(R) \in Candidates /\ First(Winner(R))
    <2>1. \E c \in Candidates : stable_sort(R, [d \in Candidates |-> d])[c] = 1
      BY <1>5, <1>6
    <2>2. Winner(R) \in Candidates /\ stable_sort(R, [d \in Candidates |-> d])[Winner(R)] = 1
      BY <2>1, Zenon DEF Winner
    <2> QED
      BY <1>6, <2>2
  <1>9. \A c \in Candidates : Winner(R) = c <=> First(c)
    BY <1>7, <1>8
  <1> QED
    BY <1>8, <1>9 DEF First

-----------------------------------------------------------------------------
(* The reachable states.                                                    *)

\* The ranking is what the evidence and the last winner make of it.
CurrentRanking == ranked = [c \in Candidates |-> Ranked(request, c, evidence[c], last)]

\* A last winner that a route left won the ranking of the evidence it was judged by.
Rank(q, O, winner) == [c \in Candidates |-> Ranked(q, c, O[c], winner)]
WonBefore ==
    judged # <<>> => /\ last # 0
                     /\ \E p \in Candidates \cup {0} : last = Winner(Rank(request, judged, p))

RankingInv == TypeOK /\ CurrentRanking /\ WonBefore

LEMMA RankType ==
    ASSUME NEW q \in Requests, NEW O \in Observations, NEW winner
    PROVE  Rank(q, O, winner) \in Rankings
  <1>1. \A c \in Candidates : O[c] \in Evidence
    BY DEF Observations, Evidence
  <1>2. ASSUME NEW c \in Candidates PROVE Ranked(q, c, O[c], winner) \in RankedCandidates
    <2>1. PICK fs \in [1..29 -> Factor], r \in RankedCandidates : Built(q, c, O[c], winner, fs, r)
      BY <1>1, RankedParts
    <2> QED
      BY <2>1, Zenon DEF Built
  <1> QED
    BY <1>2 DEF Rank, Rankings

LEMMA InitInv == Init => RankingInv
  <1> SUFFICES ASSUME Init PROVE RankingInv
    OBVIOUS
  <1>1. request \in Requests /\ evidence \in Observations
    BY InputsAssumption DEF Init, Observations
  <1>2. CurrentRanking
    BY DEF Init, CurrentRanking
  <1>3. ranked \in [Candidates -> RankedCandidates]
    BY <1>1, <1>2, RankType DEF CurrentRanking, Rank, Rankings
  <1>4. last = 0 /\ judged = <<>> /\ changes \in 0..MaxChanges
    BY RankingAssumption DEF Init
  <1> QED
    BY <1>1, <1>2, <1>3, <1>4 DEF RankingInv, TypeOK, WonBefore

\* What may be published is a number or Unknown.
LEMMA DomainType ==
    ASSUME NEW q \in Requests, NEW item \in Items, NEW v \in Domain(q, item)
    PROVE  v \in Nat \cup {Unknown}
  <1>1. Values \subseteq Nat /\ q.preferred \in Nat
    BY RankingAssumption, InputsAssumption
  <1> QED
    BY <1>1 DEF Domain, Items

\* The evidence of one candidate changes, by a publication or an expiry.
Observed(c) ==
    /\ evidence' \in Observations
    /\ \A d \in Candidates \ {c} : evidence'[d] = evidence[d]
    /\ ranked' = [ranked EXCEPT ![c] = Ranked(request, c, evidence'[c], last)]
    /\ changes' \in 0..MaxChanges
    /\ UNCHANGED <<request, last, judged>>

LEMMA PublishObserves ==
    ASSUME TypeOK, NEW c \in Candidates, NEW item \in Items, NEW v \in Domain(request, item),
           publish(c, item, v)
    PROVE  Observed(c)
  <1>1. evidence \in Observations /\ v \in Nat \cup {Unknown}
    BY DomainType DEF TypeOK
  <1>2. evidence' = [evidence EXCEPT ![c][item] = v]
    BY DEF publish
  <1>3. evidence' \in Observations /\ \A d \in Candidates \ {c} : evidence'[d] = evidence[d]
    BY <1>1, <1>2 DEF Observations
  <1>4. changes' \in 0..MaxChanges
    <2>1. MaxChanges \in Nat /\ changes \in 0..MaxChanges
      BY RankingAssumption DEF TypeOK
    <2>2. changes < MaxChanges /\ changes' = changes + 1
      BY DEF publish
    <2> QED
      BY <2>1, <2>2
  <1> QED
    BY <1>3, <1>4 DEF Observed, publish

LEMMA ExpiryObserves ==
    ASSUME TypeOK, NEW c \in Candidates, expire_latency(c)
    PROVE  Observed(c)
  <1>1. evidence \in Observations
    BY DEF TypeOK
  <1> DEFINE E == [i \in Items |-> IF i \in {"dispatch", "tail", "queue", "cold_start"}
                                   THEN Unknown ELSE evidence[c][i]]
  <1>2. evidence' = [evidence EXCEPT ![c] = E]
    BY DEF expire_latency
  <1>3. E \in [Items -> Nat \cup {Unknown}]
    BY <1>1 DEF Observations
  <1> HIDE DEF E
  <1>4. evidence' \in Observations /\ \A d \in Candidates \ {c} : evidence'[d] = evidence[d]
    BY <1>1, <1>2, <1>3 DEF Observations
  <1>5. changes' \in 0..MaxChanges
    BY RankingAssumption DEF TypeOK, expire_latency
  <1> QED
    BY <1>4, <1>5 DEF Observed, expire_latency

LEMMA ObservedKeepsInv ==
    ASSUME RankingInv, NEW c \in Candidates, Observed(c)
    PROVE  RankingInv'
  <1>1. /\ request' = request /\ last' = last /\ judged' = judged
        /\ evidence' \in Observations /\ changes' \in 0..MaxChanges
    BY DEF Observed
  <1>2. request \in Requests /\ last \in Candidates \cup {0}
        /\ (judged = <<>> \/ judged \in Observations)
    BY DEF RankingInv, TypeOK
  <1>3. CurrentRanking'
    <2>1. ranked = [d \in Candidates |-> Ranked(request, d, evidence[d], last)]
      BY DEF RankingInv, CurrentRanking
    <2>2. ranked' = [ranked EXCEPT ![c] = Ranked(request, c, evidence'[c], last)]
      BY DEF Observed
    <2>3. \A d \in Candidates \ {c} : evidence'[d] = evidence[d]
      BY DEF Observed
    <2>4. ranked' = [d \in Candidates |-> Ranked(request, d, evidence'[d], last)]
      BY <2>1, <2>2, <2>3
    <2> QED
      BY <1>1, <2>4 DEF CurrentRanking
  <1>4. Rank(request', evidence', last') \in Rankings
    BY <1>1, <1>2, RankType
  <1>5. ranked' \in [Candidates -> RankedCandidates]
    BY <1>3, <1>4 DEF CurrentRanking, Rank, Rankings
  <1>6. TypeOK'
    BY <1>1, <1>2, <1>5 DEF TypeOK
  <1>7. WonBefore'
    BY <1>1 DEF RankingInv, WonBefore
  <1> QED
    BY <1>3, <1>6, <1>7 DEF RankingInv

LEMMA RouteKeepsInv ==
    ASSUME RankingInv, route
    PROVE  RankingInv'
  <1>1. /\ request' = request /\ evidence' = evidence /\ changes' = changes
        /\ last' = Winner(ranked) /\ judged' = evidence
        /\ ranked' = [c \in Candidates |-> Ranked(request, c, evidence[c], last')]
    BY DEF route
  <1>2. /\ request \in Requests /\ evidence \in Observations /\ last \in Candidates \cup {0}
        /\ ranked \in Rankings /\ changes \in 0..MaxChanges
    BY DEF RankingInv, TypeOK, Rankings
  <1>3. ranked = Rank(request, evidence, last)
    BY DEF RankingInv, CurrentRanking, Rank
  <1>4. last' \in Candidates
    BY <1>1, <1>2, WinnerIsFirst
  <1>5. CurrentRanking'
    BY <1>1 DEF CurrentRanking
  <1>6. Rank(request', evidence', last') \in Rankings
    BY <1>1, <1>2, RankType
  <1>7. ranked' \in [Candidates -> RankedCandidates]
    BY <1>5, <1>6 DEF CurrentRanking, Rank, Rankings
  <1>8. TypeOK'
    BY <1>1, <1>2, <1>4, <1>7 DEF TypeOK
  <1>9. WonBefore'
    <2>1. last' # 0
      BY <1>4, RankingAssumption
    <2> QED
      BY <1>1, <1>2, <1>3, <2>1 DEF WonBefore
  <1> QED
    BY <1>5, <1>8, <1>9 DEF RankingInv

LEMMA FallbackKeepsInv ==
    ASSUME RankingInv, NEW c \in Candidates, fallback(c)
    PROVE  RankingInv'
  <1>1. /\ request' = request /\ evidence' = evidence /\ changes' = changes
        /\ last' = c /\ judged' = <<>>
        /\ ranked' = [d \in Candidates |-> Ranked(request, d, evidence[d], last')]
    BY DEF fallback
  <1>2. request \in Requests /\ evidence \in Observations /\ changes \in 0..MaxChanges
    BY DEF RankingInv, TypeOK
  <1>3. CurrentRanking'
    BY <1>1 DEF CurrentRanking
  <1>4. Rank(request', evidence', last') \in Rankings
    BY <1>1, <1>2, RankType
  <1>5. ranked' \in [Candidates -> RankedCandidates]
    BY <1>3, <1>4 DEF CurrentRanking, Rank, Rankings
  <1>6. TypeOK' /\ WonBefore'
    BY <1>1, <1>2, <1>5 DEF TypeOK, WonBefore
  <1> QED
    BY <1>3, <1>6 DEF RankingInv

LEMMA NextKeepsInv == RankingInv /\ [Next]_vars => RankingInv'
  <1> SUFFICES ASSUME RankingInv, [Next]_vars PROVE RankingInv'
    OBVIOUS
  <1>1. ASSUME NEW c \in Candidates, NEW i \in Items, NEW v \in Domain(request, i), publish(c, i, v)
        PROVE  RankingInv'
    BY <1>1, PublishObserves, ObservedKeepsInv DEF RankingInv
  <1>2. ASSUME NEW c \in Candidates, expire_latency(c) PROVE RankingInv'
    BY <1>2, ExpiryObserves, ObservedKeepsInv DEF RankingInv
  <1>3. CASE route
    BY <1>3, RouteKeepsInv
  <1>4. ASSUME NEW c \in Candidates, fallback(c) PROVE RankingInv'
    BY <1>4, FallbackKeepsInv
  <1>5. CASE UNCHANGED vars
    BY <1>5 DEF vars, RankingInv, TypeOK, CurrentRanking, WonBefore
  <1> QED
    BY <1>1, <1>2, <1>3, <1>4, <1>5 DEF Next

LEMMA RankingInvariant == Spec => []RankingInv
  BY InitInv, NextKeepsInv, PTL DEF Spec

\* The types hold whatever is published and however often the tenant routes: factors stay
\* in the scale and scores in the machine integers.
THEOREM TypeCorrect == Spec => []TypeOK
  <1>1. RankingInv => TypeOK
    BY DEF RankingInv
  <1> QED
    BY <1>1, RankingInvariant, PTL

LEMMA CanonicalNow == TypeOK => RankingCanonical
  <1> SUFFICES ASSUME TypeOK PROVE RankingCanonical
    OBVIOUS
  <1>1. ranked \in Rankings
    BY DEF TypeOK, Rankings
  <1> DEFINE sorted == [c \in Candidates |-> 1 + Position(ranked, c)]
  <1>2. stable_sort(ranked, [c \in Candidates |-> c]) = sorted
    <2>1. [c \in Candidates |-> c] \in [Candidates -> Int]
      BY RankingAssumption
    <2> QED
      BY <1>1, <2>1, SortIgnoresPlace
  <1>3. ASSUME NEW c \in Candidates, NEW d \in Candidates, c # d PROVE sorted[c] # sorted[d]
    <2>1. Position(ranked, c) \in Nat /\ Position(ranked, d) \in Nat
      BY PositionType
    <2>2. Position(ranked, c) < Position(ranked, d) \/ Position(ranked, d) < Position(ranked, c)
      BY <1>1, <1>3, RanksOrder, PositionIncreases
    <2> QED
      BY <2>1, <2>2
  <1>4. ASSUME NEW place \in [Candidates -> 1..Cardinality(Candidates)]
        PROVE  stable_sort(ranked, place) = sorted
    <2>1. place \in [Candidates -> Int]
      OBVIOUS
    <2> QED
      BY <1>1, <2>1, SortIgnoresPlace
  <1> HIDE DEF sorted
  <1> QED
    BY <1>2, <1>3, <1>4 DEF RankingCanonical

\* std::stable_sort by candidate_ranks_before gives each candidate a rank of its own, the
\* same one whatever order the candidates come in.
THEOREM RankingIsCanonical == Spec => []RankingCanonical
  BY TypeCorrect, CanonicalNow, PTL

\* A lower-is-better factor is exact: where the product overflows, the exact value has
\* long left the scale.
LEMMA LowerBetterExact ==
    ASSUME NEW raw \in Nat
    PROVE  LowerBetter(raw, Reference) = Scale - ExactShare(raw)
  <1>1. /\ Scale \in Nat \ {0} /\ Reference \in Nat \ {0} /\ MaxScore \in Nat
        /\ Scale * Reference <= MaxScore
    BY RankingAssumption
  <1>2. raw * Scale \in Nat
    BY <1>1
  <1>3. PICK share \in Nat : share = (raw * Scale) \div Reference
    BY <1>1, <1>2, Quotient
  <1>4. ExactShare(raw) = IF share <= Scale THEN share ELSE Scale
    <2>1. share \in Int /\ Scale \in Int
      BY <1>1
    <2>2. Min({share, Scale}) = IF share <= Scale THEN share ELSE Scale
      BY <2>1, MinOfTwo
    <2> QED
      BY <1>3, <2>2, Zenon DEF ExactShare
  <1>5. LowerBetter(raw, Reference) = known_value(normalize_lower_better(raw, Reference))
    BY DEF LowerBetter, Unknown
  <1>6. CASE raw = 0
    <2>1. raw * Scale = 0
      BY <1>1, <1>6
    <2>2. share = 0
      BY <1>1, <1>3, <2>1
    <2>3. normalize_lower_better(raw, Reference) = Scale
      BY <1>6 DEF normalize_lower_better
    <2>4. Scale \in Int /\ Scale \in 0..Scale
      BY <1>1
    <2>5. known_value(Scale) = Scale
      BY <2>4, KnownValue
    <2> QED
      BY <1>1, <1>4, <1>5, <2>2, <2>3, <2>5
  <1>7. CASE raw # 0
    <2> DEFINE cost == mul_div(raw, Scale, Reference)
    <2>1. normalize_lower_better(raw, Reference) = IF cost >= Scale THEN 0 ELSE Scale - cost
      BY <1>7 DEF normalize_lower_better
    <2>2. cost \in Nat
      BY <1>1, MulDivNat
    <2>3. raw * Scale <= MaxScore => cost = share
      BY <1>1, <1>3, MulDiv
    <2>4. raw * Scale > MaxScore => cost = MaxScore
      BY <1>1, MulDiv
    <2> HIDE DEF cost
    <2>5. raw * Scale > MaxScore => share >= Scale /\ MaxScore >= Scale
      <3>1. ASSUME raw * Scale > MaxScore PROVE share >= Scale /\ MaxScore >= Scale
        <4>1. Scale * Reference <= raw * Scale /\ Scale * Reference \in Nat
          BY <1>1, <1>2, <3>1
        <4>2. (Scale * Reference) \div Reference <= (raw * Scale) \div Reference
          BY <1>1, <1>2, <4>1, QuotientMonotone
        <4>3. (Scale * Reference) \div Reference = Scale
          BY <1>1
        <4>4. Scale <= Scale * Reference
          BY <1>1
        <4>5. MaxScore >= Scale
          BY <1>1, <4>1, <4>4
        <4> QED
          BY <1>1, <1>3, <4>2, <4>3, <4>5
      <3> QED
        BY <3>1
    <2>6. (IF cost >= Scale THEN 0 ELSE Scale - cost) = Scale - ExactShare(raw)
      <3>1. CASE raw * Scale <= MaxScore
        BY <1>1, <1>4, <2>2, <2>3, <3>1
      <3>2. CASE raw * Scale > MaxScore
        BY <1>1, <1>4, <2>2, <2>4, <2>5, <3>2
      <3> QED
        BY <1>1, <1>2, <3>1, <3>2
    <2>7. Scale - ExactShare(raw) \in 0..Scale
      BY <1>1, <1>4
    <2>8. Scale - ExactShare(raw) \in Int
      BY <1>1, <2>7
    <2> QED
      BY <1>5, <2>1, <2>6, <2>7, <2>8, KnownValue
  <1> QED
    BY <1>6, <1>7

LEMMA ExactValued ==
    ASSUME NEW e \in Evidence, NEW item \in Items, NEW i \in 1..29
    PROVE  Valued(LowerBetter(e[item], Reference), Weights[i]).normalized = Exact(e, item)
  <1>1. e[item] \in Nat \cup {Unknown} /\ Reference \in Nat \ {0}
    BY RankingAssumption DEF Evidence
  <1>2. /\ LowerBetter(e[item], Reference) \in Factor
        /\ e[item] = Unknown => LowerBetter(e[item], Reference) = Unknown
        /\ e[item] # Unknown => LowerBetter(e[item], Reference) \in 0..Scale
    BY <1>1, ShareFactors
  <1>3. Valued(LowerBetter(e[item], Reference), Weights[i]).normalized =
            IF LowerBetter(e[item], Reference) = Unknown THEN 0 ELSE LowerBetter(e[item], Reference)
    BY <1>2, ValuedFields
  <1>4. CASE e[item] = Unknown
    BY <1>2, <1>3, <1>4 DEF Exact
  <1>5. CASE e[item] # Unknown
    <2>1. LowerBetter(e[item], Reference) # Unknown
      BY <1>2, <1>5, RankingAssumption DEF Unknown
    <2>2. e[item] \in Nat
      BY <1>1, <1>5
    <2>3. LowerBetter(e[item], Reference) = Scale - ExactShare(e[item])
      BY <2>2, LowerBetterExact
    <2> QED
      BY <1>3, <1>5, <2>1, <2>3 DEF Exact
  <1> QED
    BY <1>4, <1>5

LEMMA ExactNow == RankingInv => ScoreExact
  <1> SUFFICES ASSUME RankingInv, NEW c \in Candidates
               PROVE  LET fs == ranked[c].factors
                      IN  /\ fs[4].normalized = Exact(evidence[c], "cost")
                          /\ fs[6].normalized = Exact(evidence[c], "tail")
                          /\ fs[7].normalized = Exact(evidence[c], "queue")
                          /\ fs[26].normalized = Exact(evidence[c], "cold_start")
                          /\ ranked[c].score = Min({ExactTotal(fs, 29), MaxScore})
    BY DEF ScoreExact
  <1>1. ranked[c] = Ranked(request, c, evidence[c], last)
    BY DEF RankingInv, CurrentRanking
  <1>2. PICK e \in Evidence : e = evidence[c]
    BY DEF RankingInv, TypeOK, Observations, Evidence
  <1>3. request \in Requests
    BY DEF RankingInv, TypeOK
  <1>a. PICK built \in [1..29 -> Factor], r \in RankedCandidates :
            Built(request, c, e, last, built, r)
    BY <1>3, RankedParts
  <1>b. built = build_factors(request, c, e, last) /\ r = ranked[c]
    BY <1>1, <1>2, <1>a DEF Built
  <1>4. /\ \A i \in 1..29 : ranked[c].factors[i] = Valued(built[i], Weights[i])
        /\ ranked[c].score = Min({ExactTotal(ranked[c].factors, 29), MaxScore})
    BY <1>a, <1>b, Zenon DEF Built
  <1>5. \A i \in 1..29 : built[i] = IF i <= 9 THEN ServiceFactors(request, e)[i]
                                    ELSE IF i <= 18 THEN BackendFactors(request, e)[i - 9]
                                    ELSE PreferenceFactors(request, c, e, last)[i - 18]
    BY <1>3, <1>b, FactorsByGroup
  <1>6. /\ built[4] = ServiceFactors(request, e)[4] /\ built[6] = ServiceFactors(request, e)[6]
        /\ built[7] = ServiceFactors(request, e)[7]
        /\ built[26] = PreferenceFactors(request, c, e, last)[8]
    BY <1>5
  <1>7. /\ built[4] = LowerBetter(e["cost"], Reference) /\ built[6] = LowerBetter(e["tail"], Reference)
        /\ built[7] = LowerBetter(e["queue"], Reference)
    BY <1>6 DEF ServiceFactors
  <1>8. built[26] = LowerBetter(e["cold_start"], Reference)
    BY <1>6 DEF PreferenceFactors
  <1>9. "cost" \in Items /\ "tail" \in Items /\ "queue" \in Items /\ "cold_start" \in Items
    BY DEF Items
  <1>10. /\ ranked[c].factors[4].normalized = Exact(e, "cost")
         /\ ranked[c].factors[6].normalized = Exact(e, "tail")
         /\ ranked[c].factors[7].normalized = Exact(e, "queue")
    <2>1. /\ ranked[c].factors[4] = Valued(LowerBetter(e["cost"], Reference), Weights[4])
          /\ ranked[c].factors[6] = Valued(LowerBetter(e["tail"], Reference), Weights[6])
          /\ ranked[c].factors[7] = Valued(LowerBetter(e["queue"], Reference), Weights[7])
      BY <1>4, <1>7
    <2>2. 4 \in 1..29 /\ 6 \in 1..29 /\ 7 \in 1..29
      OBVIOUS
    <2> QED
      BY <1>9, <2>1, <2>2, ExactValued, Zenon
  <1>11. ranked[c].factors[26].normalized = Exact(e, "cold_start")
    <2>1. ranked[c].factors[26] = Valued(LowerBetter(e["cold_start"], Reference), Weights[26])
      BY <1>4, <1>8
    <2>2. 26 \in 1..29
      OBVIOUS
    <2> QED
      BY <1>9, <2>1, <2>2, ExactValued, Zenon
  <1> QED
    BY <1>2, <1>4, <1>10, <1>11

\* No overflow reaches a score: the factors that normalize a cost or a time, and the score,
\* are what unbounded integers give, whatever the observation.
THEOREM ScoresAreExact == Spec => []ScoreExact
  BY RankingInvariant, ExactNow, PTL

-----------------------------------------------------------------------------
(* Missing evidence is never favourable.                                    *)

\* Factors that are the same or better, one by one, do not lose a tie break.
LEMMA BetterFactorsFirst ==
    ASSUME NEW fs \in Factored, NEW gs \in Factored,
           \A i \in 1..29 : gs[i] = fs[i] \/ Exceeds(gs[i], fs[i])
    PROVE  gs = fs \/ TieBreak(gs, fs)
  <1> SUFFICES ASSUME gs # fs PROVE TieBreak(gs, fs)
    OBVIOUS
  <1>1. PICK i \in 1..29 : gs[i] # fs[i] /\ \A j \in 1..(i - 1) : gs[j] = fs[j]
    BY FirstDifference
  <1>2. DOMAIN gs = 1..29
    BY DEF Factored
  <1> QED
    BY <1>1, <1>2 DEF TieBreak

\* A candidate that is the same or better, factor by factor, stays before whom it was before.
LEMMA BetterStaysBefore ==
    ASSUME NEW R \in Rankings, NEW S \in Rankings, NEW c \in Candidates, NEW d \in Candidates,
           S[d] = R[d], R[c].score <= S[c].score,
           \A i \in 1..29 : \/ S[c].factors[i] = R[c].factors[i]
                            \/ Exceeds(S[c].factors[i], R[c].factors[i]),
           candidate_ranks_before(R, c, d)
    PROVE  candidate_ranks_before(S, c, d)
  <1>1. R[c] \in RankedCandidates /\ S[c] \in RankedCandidates /\ R[d] \in RankedCandidates
    BY DEF Rankings
  <1>2. /\ R[c].score \in Int /\ S[c].score \in Int /\ R[d].score \in Int
        /\ R[c].factors \in Factored /\ S[c].factors \in Factored /\ R[d].factors \in Factored
        /\ S[c].score = R[d].score /\ S[c].factors = R[d].factors => S[c] = R[d]
    BY <1>1, RankedFields
  <1>3. R[c].score >= R[d].score
    BY <1>2 DEF candidate_ranks_before
  <1>4. CASE S[c].score > R[d].score
    BY <1>4 DEF candidate_ranks_before
  <1>5. CASE ~(S[c].score > R[d].score)
    <2>1. S[c].score = R[d].score /\ R[c].score = R[d].score /\ ~(R[c].score > R[d].score)
      BY <1>2, <1>3, <1>5
    <2>2. S[c].factors = R[c].factors \/ TieBreak(S[c].factors, R[c].factors)
      BY <1>2, BetterFactorsFirst
    <2>3. CASE TieBreak(R[c].factors, R[d].factors)
      <3>1. TieBreak(S[c].factors, R[d].factors)
        BY <1>2, <2>2, <2>3, TieBreakOrder
      <3> QED
        BY <2>1, <3>1 DEF candidate_ranks_before
    <2>4. CASE R[c] = R[d] /\ c < d
      <3>1. CASE S[c].factors = R[c].factors
        <4>1. S[c] = S[d]
          BY <1>2, <2>1, <2>4, <3>1
        <4> QED
          BY <2>4, <4>1 DEF candidate_ranks_before
      <3>2. CASE TieBreak(S[c].factors, R[c].factors)
        BY <2>1, <2>4, <3>2 DEF candidate_ranks_before
      <3> QED
        BY <2>2, <3>1, <3>2
    <2> QED
      BY <2>1, <2>3, <2>4 DEF candidate_ranks_before
  <1> QED
    BY <1>4, <1>5

\* Higher factors make a candidate that is the same or better, factor by factor.
LEMMA HigherFactors ==
    ASSUME NEW q \in Requests, NEW c, NEW e \in Evidence, NEW f \in Evidence, NEW v, NEW w,
           \A i \in 1..29 : build_factors(q, c, f, v)[i] <= build_factors(q, c, e, w)[i]
    PROVE  /\ Ranked(q, c, f, v).score <= Ranked(q, c, e, w).score
           /\ \A i \in 1..29 :
                 \/ Ranked(q, c, e, w).factors[i] = Ranked(q, c, f, v).factors[i]
                 \/ Exceeds(Ranked(q, c, e, w).factors[i], Ranked(q, c, f, v).factors[i])
  <1>1. PICK es \in [1..29 -> Factor], E \in RankedCandidates : Built(q, c, e, w, es, E)
    BY RankedParts
  <1>2. PICK fs \in [1..29 -> Factor], F \in RankedCandidates : Built(q, c, f, v, fs, F)
    BY RankedParts
  <1>3. /\ es = build_factors(q, c, e, w) /\ E = Ranked(q, c, e, w) /\ E.score = Total(E.factors, 29)
        /\ \A i \in 1..29 : E.factors[i] = Valued(es[i], Weights[i])
    BY <1>1 DEF Built
  <1>4. /\ fs = build_factors(q, c, f, v) /\ F = Ranked(q, c, f, v) /\ F.score = Total(F.factors, 29)
        /\ \A i \in 1..29 : F.factors[i] = Valued(fs[i], Weights[i])
    BY <1>2 DEF Built
  <1>5. \A i \in 1..29 : fs[i] <= es[i] /\ fs[i] \in Factor /\ es[i] \in Factor
    BY <1>3, <1>4
  <1>6. \A i \in 1..29 : /\ F.factors[i].contribution <= E.factors[i].contribution
                         /\ E.factors[i] = F.factors[i] \/ Exceeds(E.factors[i], F.factors[i])
    BY <1>3, <1>4, <1>5, ValuedMonotone
  <1>7. E.factors \in [1..29 -> FactorValues] /\ F.factors \in [1..29 -> FactorValues]
    BY DEF RankedCandidates
  <1>8. F.score <= E.score
    BY <1>3, <1>4, <1>6, <1>7, TotalMonotone
  <1> QED
    BY <1>3, <1>4, <1>6, <1>8

\* Unknown is below every factor, and nothing is above the scale.
LEMMA FactorBounds ==
    ASSUME NEW a \in Factor
    PROVE  Unknown <= a /\ a <= Scale /\ a <= a
  BY RankingAssumption DEF Factor, Unknown

LEMMA KnownValueMonotone ==
    ASSUME NEW m \in Int, NEW n \in Int, m <= n
    PROVE  known_value(m) <= known_value(n)
  BY RankingAssumption DEF known_value, Clamp

LEMMA SharesMonotone ==
    ASSUME NEW asked, IsFiniteSet(asked), NEW met, NEW less, less \subseteq met
    PROVE  Shares(asked, less) <= Shares(asked, met)
  <1>1. IsFiniteSet(asked \cap met)
    BY FS_Subset
  <1>2. asked \cap less \in SUBSET (asked \cap met)
    OBVIOUS
  <1>3. IsFiniteSet(asked \cap less) /\ Cardinality(asked \cap less) <= Cardinality(asked \cap met)
    BY <1>1, <1>2, FS_Subset
  <1>4. PICK m \in Nat, n \in Nat, t \in Nat :
            /\ m = Cardinality(asked \cap less) /\ n = Cardinality(asked \cap met)
            /\ t = Cardinality(asked)
    BY <1>1, <1>3, FS_CardinalityType
  <1>5. m <= n
    BY <1>3, <1>4
  <1>6. CASE t > 0
    <2>0. Scale \in Nat /\ t \in Nat \ {0}
      BY <1>6, RankingAssumption
    <2>1. mul_div(m, Scale, t) <= mul_div(n, Scale, t)
      BY <1>5, <2>0, MulDivMonotone
    <2>2. mul_div(m, Scale, t) \in Nat /\ mul_div(n, Scale, t) \in Nat
      BY <2>0, MulDivNat
    <2>3. known_value(mul_div(m, Scale, t)) <= known_value(mul_div(n, Scale, t))
      BY <2>1, <2>2, KnownValueMonotone
    <2>4. m # Unknown /\ n # Unknown
      BY DEF Unknown
    <2> QED
      BY <1>4, <1>6, <2>3, <2>4 DEF Shares, Ratio
  <1>7. CASE ~(t > 0)
    BY <1>4, <1>7 DEF Shares, Ratio, unknown, Unknown
  <1> QED
    BY <1>6, <1>7

\* Evidence that lost observations but not the cold start.
Less(e, f) ==
    (\A i \in Items : f[i] = e[i] \/ f[i] = Unknown) /\ f["cold_start"] = e["cold_start"]

LEMMA LessService ==
    ASSUME NEW q \in Requests, NEW e \in Evidence, NEW f \in Evidence, Less(e, f)
    PROVE  \A i \in 1..9 : ServiceFactors(q, f)[i] <= ServiceFactors(q, e)[i]
  <1>1. /\ q.required \in Nat \cup {Unknown} /\ q.preferred \in Nat \cup {Unknown}
        /\ Reference \in Nat \ {0}
    BY InputsAssumption, RankingAssumption
  <1>2. /\ e["preferred"] \in Nat \cup {Unknown} /\ e["quality"] \in Nat \cup {Unknown}
        /\ e["cost"] \in Nat \cup {Unknown} /\ e["dispatch"] \in Nat \cup {Unknown}
        /\ e["tail"] \in Nat \cup {Unknown} /\ e["queue"] \in Nat \cup {Unknown}
        /\ e["residency"] \in Nat \cup {Unknown} /\ e["readiness"] \in Nat \cup {Unknown}
    BY DEF Evidence, Items
  <1>3. /\ f["preferred"] \in {e["preferred"], Unknown} /\ f["quality"] \in {e["quality"], Unknown}
        /\ f["cost"] \in {e["cost"], Unknown} /\ f["dispatch"] \in {e["dispatch"], Unknown}
        /\ f["tail"] \in {e["tail"], Unknown} /\ f["queue"] \in {e["queue"], Unknown}
        /\ f["residency"] \in {e["residency"], Unknown}
        /\ f["readiness"] \in {e["readiness"], Unknown} /\ f["cold_start"] = e["cold_start"]
    BY DEF Less, Items
  <1>4. ASSUME NEW a \in Nat \cup {Unknown}, NEW b \in {a, Unknown}
        PROVE  /\ HigherBetter(b, Reference) <= HigherBetter(a, Reference)
               /\ LowerBetter(b, Reference) <= LowerBetter(a, Reference)
    BY <1>1, <1>4, ShareFactors, FactorBounds
  <1>5. /\ HigherBetter(f["quality"], Reference) <= HigherBetter(e["quality"], Reference)
        /\ LowerBetter(f["cost"], Reference) <= LowerBetter(e["cost"], Reference)
        /\ LowerBetter(f["dispatch"], Reference) <= LowerBetter(e["dispatch"], Reference)
        /\ LowerBetter(f["tail"], Reference) <= LowerBetter(e["tail"], Reference)
        /\ LowerBetter(f["queue"], Reference) <= LowerBetter(e["queue"], Reference)
    BY <1>2, <1>3, <1>4
  <1>6. Ratio(q.required, q.required) <= Ratio(q.required, q.required)
    BY <1>1, RatioFactor, FactorBounds
  <1>7. Ratio(f["preferred"], q.preferred) <= Ratio(e["preferred"], q.preferred)
    <2>1. Ratio(e["preferred"], q.preferred) \in Factor
      BY <1>1, <1>2, RatioFactor
    <2>2. Ratio(Unknown, q.preferred) = Unknown
      BY DEF Ratio, unknown
    <2> QED
      BY <1>3, <2>1, <2>2, FactorBounds
  <1>8. Graded(f["residency"]) <= Graded(e["residency"])
    <2>1. Graded(e["residency"]) \in Factor /\ Graded(Unknown) = Unknown
      BY <1>2, StateFactors DEF Graded, unknown
    <2> QED
      BY <1>3, <2>1, FactorBounds
  <1>9. Warmth(f) <= Warmth(e)
    <2>1. Warmth(e) \in Factor
      BY WarmthFactor
    <2>2. CASE f["readiness"] = e["readiness"]
      <3>1. Warmth(f) = Warmth(e)
        BY <1>3, <2>2 DEF Warmth
      <3> QED
        BY <2>1, <3>1, FactorBounds
    <2>3. CASE f["readiness"] = Unknown
      <3>1. Warmth(f) = Unknown
        BY <2>3 DEF Warmth, Graded, unknown
      <3> QED
        BY <2>1, <3>1, FactorBounds
    <2> QED
      BY <1>3, <2>2, <2>3
  <1> QED
    BY <1>5, <1>6, <1>7, <1>8, <1>9 DEF ServiceFactors

LEMMA LessBackend ==
    ASSUME NEW q \in Requests, NEW e \in Evidence, NEW f \in Evidence, Less(e, f)
    PROVE  \A i \in 1..9 : BackendFactors(q, f)[i] <= BackendFactors(q, e)[i]
  <1>1. q.target \in Nat /\ q.context \in Nat /\ Reference \in Nat \ {0}
    BY InputsAssumption, RankingAssumption
  <1>2. /\ e["trust"] \in Nat \cup {Unknown} /\ e["distance"] \in Nat \cup {Unknown}
        /\ e["availability"] \in Nat \cup {Unknown} /\ e["health"] \in Nat \cup {Unknown}
        /\ e["readiness"] \in Nat \cup {Unknown} /\ e["dispatch"] \in Nat \cup {Unknown}
        /\ e["available_slots"] \in Nat \cup {Unknown} /\ e["total_slots"] \in Nat \cup {Unknown}
        /\ e["context"] \in Nat \cup {Unknown}
    BY DEF Evidence, Items
  <1>3. /\ f["trust"] \in {e["trust"], Unknown} /\ f["distance"] \in {e["distance"], Unknown}
        /\ f["availability"] \in {e["availability"], Unknown}
        /\ f["health"] \in {e["health"], Unknown} /\ f["readiness"] \in {e["readiness"], Unknown}
        /\ f["dispatch"] \in {e["dispatch"], Unknown}
        /\ f["available_slots"] \in {e["available_slots"], Unknown}
        /\ f["total_slots"] \in {e["total_slots"], Unknown}
        /\ f["context"] \in {e["context"], Unknown}
        /\ f["reservation"] \in {e["reservation"], Unknown}
    BY DEF Less, Items
  <1>4. ASSUME NEW a \in Nat \cup {Unknown}, NEW b \in {a, Unknown}
        PROVE  Graded(b) <= Graded(a) /\ Trusted(b) <= Trusted(a)
    <2>1. Graded(a) \in Factor /\ Trusted(a) \in Factor
      BY StateFactors
    <2>2. Graded(Unknown) = Unknown /\ Trusted(Unknown) = Unknown
      BY DEF Graded, Trusted, unknown
    <2> QED
      BY <2>1, <2>2, FactorBounds
  <1>5. /\ Trusted(f["trust"]) <= Trusted(e["trust"])
        /\ Graded(f["availability"]) <= Graded(e["availability"])
        /\ Graded(f["health"]) <= Graded(e["health"])
        /\ Graded(f["readiness"]) <= Graded(e["readiness"])
    BY <1>2, <1>3, <1>4
  <1>6. LowerBetter(f["distance"], Reference) <= LowerBetter(e["distance"], Reference)
    BY <1>1, <1>2, <1>3, ShareFactors, FactorBounds
  <1>7. Ratio(f["available_slots"], f["total_slots"]) <= Ratio(e["available_slots"], e["total_slots"])
    <2>1. Ratio(e["available_slots"], e["total_slots"]) \in Factor
      BY <1>2, RatioFactor
    <2>2. \/ Ratio(f["available_slots"], f["total_slots"]) = Unknown
          \/ Ratio(f["available_slots"], f["total_slots"]) = Ratio(e["available_slots"], e["total_slots"])
      BY <1>3 DEF Ratio, unknown, Unknown
    <2> QED
      BY <2>1, <2>2, FactorBounds
  <1>8. Reserved(f) <= Reserved(e)
    <2>1. (e["reservation"] # Unknown) \in BOOLEAN
      OBVIOUS
    <2>2. Reserved(e) \in Factor
      BY <2>1, StateFactors DEF Reserved
    <2>3. Reserved(f) = Reserved(e) \/ Reserved(f) = Unknown
      BY <1>3 DEF Reserved, Matches, unknown
    <2> QED
      BY <2>2, <2>3, FactorBounds
  <1>9. OnTarget(q, f) <= OnTarget(q, e)
    <2>1. CASE q.target > 0
      <3>1. q.target \in Nat \ {0}
        BY <1>1, <2>1
      <3>2. LowerBetter(f["dispatch"], q.target) <= LowerBetter(e["dispatch"], q.target)
        BY <1>2, <1>3, <3>1, ShareFactors, FactorBounds
      <3> QED
        BY <2>1, <3>2 DEF OnTarget
    <2>2. CASE ~(q.target > 0)
      BY <2>2 DEF OnTarget, unknown, Unknown
    <2> QED
      BY <2>1, <2>2
  <1>10. Headroom(q, f) <= Headroom(q, e)
    <2>1. Headroom(q, e) \in Factor
      <3>1. CASE q.context > 0 /\ e["context"] >= q.context
        <4>1. e["context"] - q.context \in Nat
          BY <1>1, <1>2, <3>1 DEF Unknown
        <4>2. HigherBetter(e["context"] - q.context, Reference) \in Factor
          BY <1>1, <4>1, ShareFactors
        <4> QED
          BY <3>1, <4>2 DEF Headroom
      <3>2. CASE ~(q.context > 0 /\ e["context"] >= q.context)
        BY <3>2 DEF Headroom, unknown, Factor
      <3> QED
        BY <3>1, <3>2
    <2>2. f["context"] = Unknown => Headroom(q, f) = Unknown
      <3>1. q.context > 0 => ~(Unknown >= q.context)
        BY <1>1 DEF Unknown
      <3> QED
        BY <3>1 DEF Headroom, unknown
    <2>3. f["context"] = e["context"] => Headroom(q, f) = Headroom(q, e)
      BY DEF Headroom
    <2> QED
      BY <1>3, <2>1, <2>2, <2>3, FactorBounds
  <1> QED
    BY <1>5, <1>6, <1>7, <1>8, <1>9, <1>10 DEF BackendFactors

LEMMA LessMovement ==
    ASSUME NEW e \in Evidence, NEW f \in Evidence, Less(e, f)
    PROVE  Movement(f) <= Movement(e)
  <1>1. /\ e["distance"] \in Nat \cup {Unknown} /\ Reference \in Nat \ {0}
        /\ f["distance"] \in {e["distance"], Unknown} /\ f["trust"] \in {e["trust"], Unknown}
    BY RankingAssumption DEF Evidence, Items, Less
  <1>2. Movement(f) \in Factor /\ Movement(e) \in Factor
    BY MovementFactor
  <1>3. CASE e["trust"] = Local
    <2>1. 0 \in Nat /\ normalize_lower_better(0, Reference) = Scale /\ 0 # Unknown
      BY DEF normalize_lower_better, Unknown
    <2>2. Scale \in Int /\ Scale \in 0..Scale
      BY RankingAssumption
    <2>3. known_value(Scale) = Scale
      BY <2>2, KnownValue
    <2>4. Movement(e) = Scale
      BY <1>3, <2>1, <2>3 DEF Movement, LowerBetter
    <2> QED
      BY <1>2, <2>4, FactorBounds
  <1>4. CASE e["trust"] # Local
    <2>1. f["trust"] # Local
      BY <1>1, <1>4 DEF Local, Unknown
    <2>2. LowerBetter(f["distance"], Reference) <= LowerBetter(e["distance"], Reference)
      BY <1>1, ShareFactors, FactorBounds
    <2> QED
      BY <1>4, <2>1, <2>2 DEF Movement
  <1> QED
    BY <1>3, <1>4

LEMMA LessPreference ==
    ASSUME NEW q \in Requests, NEW c, NEW e \in Evidence, NEW f \in Evidence, Less(e, f), NEW w
    PROVE  \A i \in 1..11 : PreferenceFactors(q, c, f, w)[i] <= PreferenceFactors(q, c, e, w)[i]
  <1>1. Reference \in Nat \ {0} /\ Scale \in Nat
    BY RankingAssumption
  <1>2. /\ e["trust"] \in Nat \cup {Unknown} /\ e["reliability"] \in Nat \cup {Unknown}
        /\ e["cold_start"] \in Nat \cup {Unknown}
        /\ f["trust"] \in {e["trust"], Unknown} /\ f["reliability"] \in {e["reliability"], Unknown}
        /\ f["cold_start"] = e["cold_start"]
    BY DEF Evidence, Items, Less
  <1>3. Trusted(f["trust"]) <= Trusted(e["trust"])
    <2>1. Trusted(e["trust"]) \in Factor /\ Trusted(Unknown) = Unknown
      BY <1>2, StateFactors DEF Trusted, unknown
    <2> QED
      BY <1>2, <2>1, FactorBounds
  <1>4. known_value(Preference(q, c, f)) <= known_value(Preference(q, c, e))
    <2>1. Preference(q, c, e) \in 0..Scale /\ Preference(q, c, f) \in 0..Scale
      BY PreferenceBound
    <2>2. Preference(q, c, f) <= Preference(q, c, e)
      BY <1>2, PreferenceBound
    <2>3. Preference(q, c, e) \in Int /\ Preference(q, c, f) \in Int
      BY <1>1, <2>1
    <2> QED
      BY <2>2, <2>3, KnownValueMonotone
  <1>5. Met(q, c, f) \subseteq Met(q, c, e)
        /\ ("affinity_model" \in Met(q, c, f) <=> "affinity_model" \in Met(q, c, e))
    <2>1. f["trust"] = Local => e["trust"] = Local
      BY <1>2 DEF Local, Unknown
    <2> QED
      BY <2>1 DEF Met
  <1> DEFINE Model(g) == Matches("affinity_model" \in q.asked, "affinity_model" \in Met(q, c, g))
  <1>6. Model(f) <= Model(e)
    <2>1. /\ ("affinity_model" \in q.asked) \in BOOLEAN
          /\ ("affinity_model" \in Met(q, c, e)) \in BOOLEAN
      OBVIOUS
    <2>2. Model(e) \in Factor
      BY <2>1, StateFactors
    <2>3. Model(f) = Model(e)
      BY <1>5 DEF Matches
    <2> HIDE DEF Model
    <2> QED
      BY <2>2, <2>3, FactorBounds
  <1>7. Continuity(w, c) <= Continuity(w, c)
    <2>1. (w # 0) \in BOOLEAN /\ (w = c) \in BOOLEAN
      OBVIOUS
    <2>2. Continuity(w, c) \in Factor
      BY <2>1, StateFactors DEF Continuity
    <2> QED
      BY <2>2, FactorBounds
  <1>8. /\ HigherBetter(f["reliability"], Reference) <= HigherBetter(e["reliability"], Reference)
        /\ LowerBetter(f["cold_start"], Reference) <= LowerBetter(e["cold_start"], Reference)
    BY <1>1, <1>2, ShareFactors, FactorBounds
  <1>9. unknown <= unknown /\ Movement(f) <= Movement(e)
    BY LessMovement DEF unknown, Unknown
  <1>10. /\ Shares(q.asked \cap Continuities, Met(q, c, f)) <= Shares(q.asked \cap Continuities, Met(q, c, e))
         /\ Shares(q.asked \cap Affinities, Met(q, c, f)) <= Shares(q.asked \cap Affinities, Met(q, c, e))
    BY <1>5, AskedFinite, SharesMonotone
  <1> QED
    BY <1>3, <1>4, <1>6, <1>7, <1>8, <1>9, <1>10 DEF PreferenceFactors

LEMMA LessFactors ==
    ASSUME NEW q \in Requests, NEW c, NEW e \in Evidence, NEW f \in Evidence, Less(e, f), NEW w
    PROVE  \A i \in 1..29 : build_factors(q, c, f, w)[i] <= build_factors(q, c, e, w)[i]
  <1> SUFFICES ASSUME NEW i \in 1..29
               PROVE  build_factors(q, c, f, w)[i] <= build_factors(q, c, e, w)[i]
    OBVIOUS
  <1>1. CASE i <= 9
    <2>1. i \in 1..9
      BY <1>1
    <2>2. /\ build_factors(q, c, f, w)[i] = ServiceFactors(q, f)[i]
          /\ build_factors(q, c, e, w)[i] = ServiceFactors(q, e)[i]
      BY <1>1, FactorsByGroup
    <2> QED
      BY <2>1, <2>2, LessService
  <1>2. CASE ~(i <= 9) /\ i <= 18
    <2>1. i - 9 \in 1..9
      BY <1>2
    <2>2. /\ build_factors(q, c, f, w)[i] = BackendFactors(q, f)[i - 9]
          /\ build_factors(q, c, e, w)[i] = BackendFactors(q, e)[i - 9]
      BY <1>2, FactorsByGroup
    <2> QED
      BY <2>1, <2>2, LessBackend
  <1>3. CASE ~(i <= 9) /\ ~(i <= 18)
    <2>1. i - 18 \in 1..11
      BY <1>3
    <2>2. /\ build_factors(q, c, f, w)[i] = PreferenceFactors(q, c, f, w)[i - 18]
          /\ build_factors(q, c, e, w)[i] = PreferenceFactors(q, c, e, w)[i - 18]
      BY <1>3, FactorsByGroup
    <2> QED
      BY <2>1, <2>2, LessPreference
  <1> QED
    BY <1>1, <1>2, <1>3

LEMMA LosingEvidence ==
    ASSUME RankingInv, NEW b \in Candidates, Observed(b), NEW c \in Candidates,
           Lost(evidence[c], evidence'[c]), evidence'[c]["cold_start"] = evidence[c]["cold_start"],
           NEW d \in Candidates \ {c}, candidate_ranks_before(ranked', c, d)
    PROVE  candidate_ranks_before(ranked, c, d)
  <1>1. request \in Requests /\ evidence \in Observations /\ ranked \in Rankings
    BY DEF RankingInv, TypeOK, Rankings
  <1>2. RankingInv'
    BY ObservedKeepsInv
  <1>3. evidence' \in Observations /\ ranked' \in Rankings
    BY <1>2 DEF RankingInv, TypeOK, Rankings
  <1>4. request' = request /\ last' = last
    BY DEF Observed
  <1>5. b = c
    BY DEF Observed, Lost
  <1>6. PICK e \in Evidence : e = evidence[c]
    BY <1>1 DEF Observations, Evidence
  <1>7. PICK f \in Evidence : f = evidence'[c]
    BY <1>3 DEF Observations, Evidence
  <1>8. Less(e, f)
    BY <1>6, <1>7 DEF Less, Lost
  <1>9. ranked[c] = Ranked(request, c, e, last)
    BY <1>6 DEF RankingInv, CurrentRanking
  <1>10. ranked' = [ranked EXCEPT ![c] = Ranked(request, c, f, last)]
    BY <1>5, <1>7 DEF Observed
  <1>11. ranked'[c] = Ranked(request, c, f, last) /\ ranked'[d] = ranked[d]
    BY <1>1, <1>10 DEF Rankings
  <1>12. \A i \in 1..29 : build_factors(request, c, f, last)[i] <= build_factors(request, c, e, last)[i]
    BY <1>1, <1>8, LessFactors
  <1>13. /\ ranked'[c].score <= ranked[c].score
         /\ \A i \in 1..29 : \/ ranked[c].factors[i] = ranked'[c].factors[i]
                             \/ Exceeds(ranked[c].factors[i], ranked'[c].factors[i])
    BY <1>1, <1>9, <1>11, <1>12, HigherFactors
  <1>14. PICK R \in Rankings : R = ranked'
    BY <1>3
  <1>15. PICK S \in Rankings : S = ranked
    BY <1>1
  <1>16. /\ S[d] = R[d] /\ R[c].score <= S[c].score /\ candidate_ranks_before(R, c, d)
         /\ \A i \in 1..29 : \/ S[c].factors[i] = R[c].factors[i]
                             \/ Exceeds(S[c].factors[i], R[c].factors[i])
    BY <1>11, <1>13, <1>14, <1>15
  <1>17. candidate_ranks_before(S, c, d)
    BY <1>16, BetterStaysBefore
  <1> QED
    BY <1>15, <1>17

\* The step of MissingNeverFavoured.
NotFavoured ==
    \A c \in Candidates :
        /\ Lost(evidence[c], evidence'[c])
        /\ evidence'[c]["cold_start"] = evidence[c]["cold_start"]
        => \A d \in Candidates \ {c} :
              candidate_ranks_before(ranked', c, d) => candidate_ranks_before(ranked, c, d)

LEMMA StepNotFavoured == RankingInv /\ [Next]_vars => [NotFavoured]_vars
  <1> SUFFICES ASSUME RankingInv, Next PROVE NotFavoured
    OBVIOUS
  <1>1. ASSUME NEW b \in Candidates, Observed(b) PROVE NotFavoured
    BY <1>1, LosingEvidence DEF NotFavoured
  <1>2. ASSUME NEW c \in Candidates, NEW i \in Items, NEW v \in Domain(request, i), publish(c, i, v)
        PROVE  NotFavoured
    BY <1>1, <1>2, PublishObserves DEF RankingInv
  <1>3. ASSUME NEW c \in Candidates, expire_latency(c) PROVE NotFavoured
    BY <1>1, <1>3, ExpiryObserves DEF RankingInv
  <1>4. CASE route
    BY <1>4 DEF route, NotFavoured, Lost
  <1>5. ASSUME NEW c \in Candidates, fallback(c) PROVE NotFavoured
    BY <1>5 DEF fallback, NotFavoured, Lost
  <1> QED
    BY <1>2, <1>3, <1>4, <1>5 DEF Next

\* A candidate that loses observations overtakes nobody, whichever observations they are
\* (the cold start apart, which ranking.cpp only ever counts against a candidate).
THEOREM MissingIsNotFavoured == Spec => MissingNeverFavoured
  <1>1. [][NotFavoured]_vars => MissingNeverFavoured
    BY DEF MissingNeverFavoured, NotFavoured
  <1> QED
    BY <1>1, RankingInvariant, StepNotFavoured, PTL DEF Spec

-----------------------------------------------------------------------------
(* Continuity.                                                              *)

\* Two of the factors depend on the last winner.
LEMMA ContinuityFactors ==
    ASSUME NEW q \in Requests, NEW c, NEW e \in Evidence, NEW v, NEW w
    PROVE  /\ \A i \in 1..29 : i \notin {22, 27} =>
                 build_factors(q, c, e, v)[i] = build_factors(q, c, e, w)[i]
           /\ build_factors(q, c, e, w)[22] = Continuity(w, c)
           /\ build_factors(q, c, e, w)[27] = Continuity(w, c)
  <1>1. PreferenceFactors(q, c, e, w)[4] = Continuity(w, c)
        /\ PreferenceFactors(q, c, e, w)[9] = Continuity(w, c)
    BY DEF PreferenceFactors
  <1>2. \A k \in 1..11 : k \notin {4, 9} =>
            PreferenceFactors(q, c, e, v)[k] = PreferenceFactors(q, c, e, w)[k]
    BY DEF PreferenceFactors
  <1>3. ASSUME NEW i \in 1..29, i \notin {22, 27}
        PROVE  build_factors(q, c, e, v)[i] = build_factors(q, c, e, w)[i]
    <2>1. CASE i <= 18
      BY <2>1, FactorsByGroup
    <2>2. CASE ~(i <= 18)
      <3>1. i - 18 \in 1..11 /\ i - 18 \notin {4, 9} /\ ~(i <= 9)
        BY <1>3, <2>2
      <3>2. PreferenceFactors(q, c, e, v)[i - 18] = PreferenceFactors(q, c, e, w)[i - 18]
        BY <1>2, <3>1
      <3> QED
        BY <2>2, <3>1, <3>2, FactorsByGroup
    <2> QED
      BY <2>1, <2>2
  <1>4. /\ build_factors(q, c, e, w)[22] = PreferenceFactors(q, c, e, w)[22 - 18]
        /\ build_factors(q, c, e, w)[27] = PreferenceFactors(q, c, e, w)[27 - 18]
    BY FactorsByGroup
  <1>5. 22 - 18 = 4 /\ 27 - 18 = 9
    OBVIOUS
  <1> QED
    BY <1>1, <1>3, <1>4, <1>5

LEMMA ContinuityValues ==
    ASSUME NEW w \in Candidates, NEW c \in Candidates
    PROVE  Continuity(w, c) = IF w = c THEN Scale ELSE 0
  <1>1. w # 0 /\ Scale \in Nat
    BY RankingAssumption
  <1>2. known_value(Scale) = Scale /\ known_value(0) = 0
    BY <1>1, KnownValue
  <1> QED
    BY <1>1, <1>2 DEF Continuity, Matches

\* The winner's factors do not get worse by its having won.
LEMMA WinnerGains ==
    ASSUME NEW q \in Requests, NEW w \in Candidates, NEW e \in Evidence, NEW p
    PROVE  \A i \in 1..29 : build_factors(q, w, e, p)[i] <= build_factors(q, w, e, w)[i]
  <1> SUFFICES ASSUME NEW i \in 1..29
               PROVE  build_factors(q, w, e, p)[i] <= build_factors(q, w, e, w)[i]
    OBVIOUS
  <1>1. build_factors(q, w, e, p)[i] \in Factor /\ build_factors(q, w, e, w)[i] \in Factor
    <2>1. PICK fs \in [1..29 -> Factor] : fs = build_factors(q, w, e, p)
      BY FactorsByGroup
    <2>2. PICK gs \in [1..29 -> Factor] : gs = build_factors(q, w, e, w)
      BY FactorsByGroup
    <2> QED
      BY <2>1, <2>2
  <1>2. CASE i \in {22, 27}
    <2>1. build_factors(q, w, e, w)[i] = Scale
      BY <1>2, ContinuityFactors, ContinuityValues
    <2> QED
      BY <1>1, <2>1, FactorBounds
  <1>3. CASE i \notin {22, 27}
    <2>1. build_factors(q, w, e, p)[i] = build_factors(q, w, e, w)[i]
      BY <1>3, ContinuityFactors
    <2> QED
      BY <1>1, <2>1, FactorBounds
  <1> QED
    BY <1>2, <1>3

\* The score of a candidate does not rise by another's having won.
LEMMA OthersGainNothing ==
    ASSUME NEW q \in Requests, NEW w \in Candidates, NEW c \in Candidates, c # w,
           NEW e \in Evidence, NEW p
    PROVE  Ranked(q, c, e, w).score <= Ranked(q, c, e, p).score
  <1>1. PICK ws \in [1..29 -> Factor], W \in RankedCandidates : Built(q, c, e, w, ws, W)
    BY RankedParts
  <1>2. PICK ps \in [1..29 -> Factor], P \in RankedCandidates : Built(q, c, e, p, ps, P)
    BY RankedParts
  <1>3. ws = build_factors(q, c, e, w) /\ W = Ranked(q, c, e, w)
    BY <1>1 DEF Built
  <1>4. ps = build_factors(q, c, e, p) /\ P = Ranked(q, c, e, p)
    BY <1>2 DEF Built
  <1>5. W.score = Total(W.factors, 29) /\ \A i \in 1..29 : W.factors[i] = Valued(ws[i], Weights[i])
    BY <1>1 DEF Built
  <1>6. P.score = Total(P.factors, 29) /\ \A i \in 1..29 : P.factors[i] = Valued(ps[i], Weights[i])
    BY <1>2 DEF Built
  <1>7. W.factors \in [1..29 -> FactorValues] /\ P.factors \in [1..29 -> FactorValues]
    BY DEF RankedCandidates
  <1>8. ASSUME NEW i \in 1..29 PROVE W.factors[i].contribution <= P.factors[i].contribution
    <2>1. P.factors[i].contribution \in Nat
      BY <1>7, RankingAssumption DEF FactorValues
    <2>2. CASE i \in {22, 27}
      <3>1. ws[i] = 0 /\ 0 # Unknown
        <4>1. Continuity(w, c) = 0
          BY ContinuityValues
        <4>2. build_factors(q, c, e, w)[i] = Continuity(w, c)
          BY <2>2, ContinuityFactors
        <4> QED
          BY <1>3, <4>1, <4>2 DEF Unknown
      <3>2. Valued(ws[i], Weights[i]).contribution
                = mul_div(IF ws[i] = Unknown THEN 0 ELSE ws[i], Weights[i], Scale)
        BY ValuedFields
      <3>3. W.factors[i].contribution = mul_div(0, Weights[i], Scale)
        BY <1>5, <3>1, <3>2
      <3>4. mul_div(0, Weights[i], Scale) = 0
        BY DEF mul_div
      <3> QED
        BY <2>1, <3>3, <3>4
    <2>3. CASE i \notin {22, 27}
      <3>1. ws[i] = ps[i]
        BY <1>3, <1>4, <2>3, ContinuityFactors
      <3>2. W.factors[i] = P.factors[i]
        BY <1>5, <1>6, <3>1
      <3> QED
        BY <2>1, <3>2
    <2> QED
      BY <2>2, <2>3
  <1>9. W.score <= P.score
    BY <1>5, <1>6, <1>7, <1>8, TotalMonotone
  <1> QED
    BY <1>3, <1>4, <1>9

\* A winner still ranks before the others once it is the last winner: its score has not
\* fallen, theirs have not risen, and it wins a tie at the cache affinity, if not sooner.
LEMMA ContinuityHolds ==
    ASSUME NEW q \in Requests, NEW O \in Observations, NEW w \in Candidates, NEW p,
           NEW d \in Candidates \ {w}, candidate_ranks_before(Rank(q, O, p), w, d)
    PROVE  candidate_ranks_before(Rank(q, O, w), w, d)
  <1>1. PICK e \in Evidence, f \in Evidence : e = O[w] /\ f = O[d]
    BY DEF Observations, Evidence
  <1>2. PICK R \in Rankings : R = Rank(q, O, p)
    BY RankType
  <1>3. PICK S \in Rankings : S = Rank(q, O, w)
    BY RankType
  <1>4. PICK ps \in [1..29 -> Factor], P \in RankedCandidates : Built(q, w, e, p, ps, P)
    BY RankedParts
  <1>5. PICK ws \in [1..29 -> Factor], W \in RankedCandidates : Built(q, w, e, w, ws, W)
    BY RankedParts
  <1>6. PICK os \in [1..29 -> Factor], D \in RankedCandidates : Built(q, d, f, p, os, D)
    BY RankedParts
  <1>7. PICK ns \in [1..29 -> Factor], N \in RankedCandidates : Built(q, d, f, w, ns, N)
    BY RankedParts
  <1>8. R[w] = P /\ R[d] = D
    BY <1>1, <1>2, <1>4, <1>6 DEF Rank, Built
  <1>9. S[w] = W /\ S[d] = N
    BY <1>1, <1>3, <1>5, <1>7 DEF Rank, Built
  <1>10. P.score <= W.score
    <2>1. \A i \in 1..29 : build_factors(q, w, e, p)[i] <= build_factors(q, w, e, w)[i]
      BY WinnerGains
    <2>2. Ranked(q, w, e, p).score <= Ranked(q, w, e, w).score
      BY <2>1, HigherFactors
    <2> QED
      BY <1>4, <1>5, <2>2 DEF Built
  <1>11. N.score <= D.score
    <2>1. Ranked(q, d, f, w).score <= Ranked(q, d, f, p).score
      BY OthersGainNothing
    <2> QED
      BY <1>6, <1>7, <2>1 DEF Built
  <1>12. P.score \in Int /\ W.score \in Int /\ D.score \in Int /\ N.score \in Int
    BY RankedFields
  <1>13. /\ \A i \in 1..29 : P.factors[i] = Valued(ps[i], Weights[i])
         /\ \A i \in 1..29 : W.factors[i] = Valued(ws[i], Weights[i])
         /\ \A i \in 1..29 : D.factors[i] = Valued(os[i], Weights[i])
         /\ \A i \in 1..29 : N.factors[i] = Valued(ns[i], Weights[i])
    BY <1>4, <1>5, <1>6, <1>7 DEF Built
  <1>14. \A i \in 1..21 : W.factors[i] = P.factors[i] /\ N.factors[i] = D.factors[i]
    <2>1. \A i \in 1..21 : i \in 1..29 /\ i \notin {22, 27}
      OBVIOUS
    <2>2. \A i \in 1..21 : ws[i] = ps[i]
      BY <1>4, <1>5, <2>1, ContinuityFactors DEF Built
    <2>3. \A i \in 1..21 : ns[i] = os[i]
      BY <1>6, <1>7, <2>1, ContinuityFactors DEF Built
    <2> QED
      BY <1>13, <2>1, <2>2, <2>3
  <1>15. Exceeds(W.factors[22], N.factors[22])
    <2>1. Continuity(w, w) = Scale /\ Continuity(w, d) = 0
      BY ContinuityValues
    <2>2. build_factors(q, w, e, w)[22] = Continuity(w, w)
      BY ContinuityFactors
    <2>3. build_factors(q, d, f, w)[22] = Continuity(w, d)
      BY ContinuityFactors
    <2>4. ws[22] = Scale /\ ns[22] = 0
      BY <1>5, <1>7, <2>1, <2>2, <2>3 DEF Built
    <2>5. 0 \in Factor /\ Scale \in Factor /\ 0 <= Scale /\ 0 < Scale
      BY RankingAssumption DEF Factor
    <2>6. PICK low \in Factor, high \in Factor, k \in 1..29 : low = 0 /\ high = Scale /\ k = 22
      BY <2>5
    <2>7. low <= high /\ low < high
      BY <2>5, <2>6
    <2>8. Exceeds(Valued(high, Weights[k]), Valued(low, Weights[k]))
      BY <2>7, ValuedMonotone
    <2> QED
      BY <1>13, <2>4, <2>6, <2>8
  <1>16. /\ P.factors \in Factored /\ W.factors \in Factored
         /\ D.factors \in Factored /\ N.factors \in Factored
    BY RankedFields
  <1>17. P.score >= D.score
    BY <1>2, <1>8, <1>12 DEF candidate_ranks_before
  <1>18. CASE W.score > N.score
    BY <1>3, <1>9, <1>18 DEF candidate_ranks_before
  <1>19. CASE ~(W.score > N.score)
    <2>1. W.score = N.score /\ P.score = D.score /\ ~(P.score > D.score)
      BY <1>10, <1>11, <1>12, <1>17, <1>19
    <2>2. DOMAIN P.factors = 1..29 /\ DOMAIN W.factors = 1..29
      BY <1>16 DEF Factored
    <2>3. TieBreak(W.factors, N.factors)
      <3>1. CASE \E i \in 1..21 : /\ Exceeds(P.factors[i], D.factors[i])
                                  /\ \A j \in 1..(i - 1) : P.factors[j] = D.factors[j]
        <4>1. PICK i \in 1..21 : /\ Exceeds(P.factors[i], D.factors[i])
                                 /\ \A j \in 1..(i - 1) : P.factors[j] = D.factors[j]
          BY <3>1
        <4>2. i \in 1..29 /\ \A j \in 1..(i - 1) : j \in 1..21
          OBVIOUS
        <4>3. Exceeds(W.factors[i], N.factors[i]) /\ \A j \in 1..(i - 1) : W.factors[j] = N.factors[j]
          BY <1>14, <4>1, <4>2
        <4> QED
          BY <2>2, <4>2, <4>3 DEF TieBreak
      <3>2. CASE \A j \in 1..21 : P.factors[j] = D.factors[j]
        <4>1. \A j \in 1..(22 - 1) : W.factors[j] = N.factors[j]
          BY <1>14, <3>2
        <4> QED
          <5>1. 22 \in DOMAIN W.factors
            BY <2>2
          <5> QED
            BY <1>15, <4>1, <5>1, Zenon DEF TieBreak
      <3>3. \/ P.factors = D.factors
            \/ \E i \in 1..29 : /\ Exceeds(P.factors[i], D.factors[i])
                                /\ \A j \in 1..(i - 1) : P.factors[j] = D.factors[j]
        <4>1. TieBreak(P.factors, D.factors) \/ P = D
          BY <1>2, <1>8, <2>1 DEF candidate_ranks_before
        <4> QED
          BY <2>2, <4>1 DEF TieBreak
      <3>4. ASSUME NEW i \in 1..29, ~(i \in 1..21), \A j \in 1..(i - 1) : P.factors[j] = D.factors[j]
            PROVE  \A j \in 1..21 : P.factors[j] = D.factors[j]
        <4>1. \A j \in 1..21 : j \in 1..(i - 1)
          BY <3>4
        <4> QED
          BY <3>4, <4>1
      <3> QED
        BY <3>1, <3>2, <3>3, <3>4
    <2> QED
      BY <1>3, <1>9, <2>1, <2>3 DEF candidate_ranks_before
  <1> QED
    BY <1>18, <1>19

LEMMA RouteHolds ==
    ASSUME RankingInv, route, judged # <<>>, judged = evidence
    PROVE  last' = last
  <1>1. /\ request \in Requests /\ evidence \in Observations /\ last \in Candidates
        /\ ranked \in Rankings
    BY DEF RankingInv, TypeOK, WonBefore, Rankings
  <1>2. PICK p \in Candidates \cup {0} : last = Winner(Rank(request, evidence, p))
    BY DEF RankingInv, WonBefore
  <1>3. ranked = Rank(request, evidence, last)
    BY DEF RankingInv, CurrentRanking, Rank
  <1>4. Rank(request, evidence, p) \in Rankings
    BY <1>1, RankType
  <1>5. \A d \in Candidates \ {last} : candidate_ranks_before(Rank(request, evidence, p), last, d)
    BY <1>1, <1>2, <1>4, WinnerIsFirst
  <1>6. \A d \in Candidates \ {last} : candidate_ranks_before(Rank(request, evidence, last), last, d)
    BY <1>1, <1>5, ContinuityHolds
  <1>7. Winner(ranked) = last
    BY <1>1, <1>3, <1>6, WinnerIsFirst
  <1> QED
    BY <1>7 DEF route

\* The step of WinnerStays.
Held == judged # <<>> /\ judged = evidence /\ judged' # <<>> => last' = last

LEMMA StepHolds == RankingInv /\ [Next]_vars => [Held]_vars
  <1> SUFFICES ASSUME RankingInv, Next PROVE Held
    OBVIOUS
  <1>1. ASSUME NEW c \in Candidates, NEW i \in Items, NEW v \in Domain(request, i), publish(c, i, v)
        PROVE  Held
    BY <1>1 DEF publish, Held
  <1>2. ASSUME NEW c \in Candidates, expire_latency(c) PROVE Held
    BY <1>2 DEF expire_latency, Held
  <1>3. CASE route
    BY <1>3, RouteHolds DEF Held
  <1>4. ASSUME NEW c \in Candidates, fallback(c) PROVE Held
    BY <1>4 DEF fallback, Held
  <1> QED
    BY <1>1, <1>2, <1>3, <1>4 DEF Next

\* While the evidence stays what the last route judged, and no fallback has been committed
\* since, the tenant's next route has the same winner: continuity holds a winner and never
\* dethrones one.
THEOREM ContinuityKeepsWinner == Spec => WinnerStays
  <1>1. [][Held]_vars => WinnerStays
    BY DEF WinnerStays, Held
  <1> QED
    BY <1>1, RankingInvariant, StepHolds, PTL DEF Spec

===============================================================================
