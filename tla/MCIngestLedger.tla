--------------------------- MODULE MCIngestLedger ---------------------------
(* Instances of IngestLedger for TLC. *)
EXTENDS IngestLedger, TLC

CONSTANTS e1, e2, gA, gB, h1, h2, w1, w2, p1, r1, r2

OnlyEvent == e1 :> gA
OneGroup  == e1 :> gA @@ e2 :> gA
TwoGroups == e1 :> gA @@ e2 :> gB

\* Request handlers are interchangeable.
HandlerSymmetry == Permutations(Handlers)
=============================================================================
