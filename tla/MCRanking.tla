------------------------------ MODULE MCRanking ------------------------------
(* Small instances of Ranking: the default weights in units of 10000 ppm.   *)
EXTENDS Ranking

DefaultWeights == <<30, 4, 12, 15, 8, 4, 3, 6, 4, 4, 2, 6, 10, 8, 5, 3, 7, 2, 6, 6,
                    5, 3, 4, 2, 2, 2, 3, 5, 10>>

\* Everything observed, at middling values; nothing observed, as after a restart.
Observed == [i \in Items |-> CASE i = "preferred" -> 0
                              [] i \in {"readiness", "residency", "availability", "health"} -> 2
                              [] i = "trust" -> 3
                              [] i = "reservation" -> 1
                              [] OTHER -> 5]
Recovered == [[i \in Items |-> Unknown] EXCEPT !["trust"] = 3, !["preferred"] = 0, !["context"] = 5]
AnyBase == {Observed, Recovered}

NoNames == [a \in Affinities \cup Continuities |-> 0]
Plain == [required |-> 0, preferred |-> 0, target |-> 0, context |-> 0, asked |-> {},
          names |-> NoNames, preferred_family |-> {}]
Choosy == [required |-> 2, preferred |-> 2, target |-> 8, context |-> 4,
           asked |-> {"affinity_model", "affinity_backend", "same_provider", "context_locality"},
           names |-> [NoNames EXCEPT !["affinity_model"] = 1, !["affinity_backend"] = 2,
                                     !["same_provider"] = 2],
           preferred_family |-> {2}]
Both == {Plain, Choosy}
=============================================================================
