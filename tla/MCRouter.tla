------------------------------ MODULE MCRouter ------------------------------
(* Small instances of Router for TLC: catalogs, requests and publications.  *)
EXTENDS Router, TLC

CONSTANTS t1, t2, b1, b2

Fresh    == [gen |-> 1, st |-> "good", exp |-> 0]
AllFresh == [k \in Kinds |-> Fresh]
NoCost   == [AllFresh EXCEPT !["price"] = NoEvidence]

Snapped == [s \in Snapshots |-> [gen |-> 1, deny |-> {}]]

\* Every backend registered once with good evidence, and a policy published.
Running(ev) ==
    [epoch |-> 1, model |-> [gen |-> 1, life |-> "CURRENT"],
     backends |-> [b \in Backends |-> [reg |-> 1, gen |-> 1, boot |-> 1, mgen |-> 1, ev |-> ev]],
     fenced |-> {}, snap |-> Snapped]
RunningAll  == Running(AllFresh)
RunningFree == Running(NoCost)

Simple   == [needs |-> {"health"}, uses |-> {}, fallbacks |-> 0, exp |-> 0]
Simples  == {Simple}
Retrying == {[Simple EXCEPT !.fallbacks = 1]}
RetryingExpiring == {[Simple EXCEPT !.fallbacks = 1, !.exp = 1]}

Good(g) == [gen |-> g, st |-> "good", exp |-> 0]
Bad(g)  == [gen |-> g, st |-> "bad", exp |-> 0]
GoodOrBad     == {Good(2), Bad(2)}
JustGood      == {Good(2)}
JustBad       == {Bad(2)}
RegFresh      == {AllFresh}
AllowAll      == {{}}
NoGeneration  == {0}

Symmetry == Permutations(Threads)
=============================================================================
