------------------------------ MODULE MCTenancy ------------------------------
(* Two tenants one after the other or side by side, one person, three        *)
(* credentials, one partner reference, two requests at once.                 *)
EXTENDS Tenancy

CONSTANTS t1, t2, a1, a2, a3, c1, c2

Symmetry == Permutations({t1, t2}) \cup Permutations({a1, a2, a3}) \cup Permutations({c1, c2})
==============================================================================
