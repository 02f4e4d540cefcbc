--------------------------- MODULE MCTableService ----------------------------
(* Constants for TableService.                                              *)
EXTENDS TableService, TLC

CONSTANTS c1, c2, n1, n2

MCClient == {c1, c2}
MCName == {n1, n2}
MCFault == {[kind |-> "injected", failure |-> "throttle"]}

\* Clients are interchangeable and so are names.
Symmetric == Permutations(MCClient) \cup Permutations(MCName)

=============================================================================
