---------------------------- MODULE RouterClaims ----------------------------
(***************************************************************************)
(* What the repository's comments say of a routing pass, and what its      *)
(* critical sections do not give: a run of its own ends in a               *)
(* counterexample.                                                         *)
(***************************************************************************)
EXTENDS MCRouter

\* router_impl.hpp: a mutation that landed during a routing pass cannot leave a
\* freshly inserted decision current.  The evidence a CURRENT decision of route()
\* binds is the evidence its winner was found eligible with.
BoundEvidenceWasJudged ==
    \A d \in Decisions : routes[d].status = "CURRENT" /\ routes[d].via = "route" =>
        \A k \in required_kinds(routes[d].auth) : routes[d].seen[k] = routes[d].auth.ev[k]

=============================================================================
