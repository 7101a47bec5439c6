----------------------------- MODULE MCStatusPage -----------------------------
(* Two tenants, two pages that share a stem, one service, one incident, two  *)
(* handlers at once with a reader and the prober.                            *)
EXTENDS StatusPage

CONSTANTS t1, t2, p1, p2, c1, c2

MCPlatform == <<"platform", "status">>
MCSlugs == {<<"joe">>, <<"joe", "dev">>, <<"joe", "org">>, MCPlatform}
MCRaws == {[words |-> <<"joe", "dev">>, dotted |-> TRUE],
           [words |-> <<"joe">>, dotted |-> FALSE]}
Symmetry == Permutations({t1, t2}) \cup Permutations({p1, p2}) \cup Permutations({c1, c2})
=============================================================================
