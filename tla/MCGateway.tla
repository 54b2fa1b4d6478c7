----------------------------- MODULE MCGateway -----------------------------
(* Model checking of Gateway on small instances. *)
EXTENDS Gateway, TLC

\* Gateway cells are interchangeable, and so are threads that all may wrap.
CellSymmetry == Permutations(Gateways)
FullSymmetry == CellSymmetry \cup Permutations(Threads)
=============================================================================
