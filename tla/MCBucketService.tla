--------------------------- MODULE MCBucketService ---------------------------
(* Constants for BucketService.                                              *)
EXTENDS BucketService, TLC

CONSTANTS c1, c2, n1, n2, n3

MCClient == {c1, c2}
MCName == {n1, n2, n3}
\* Every failure the injector knows, and two of AWS.
MCFault ==
    [kind : {"injected"}, failure : DOMAIN FailureErrors]
    \cup [kind : {"client"}, aws : {"AccessDenied", "Unknown"}]

\* Clients are interchangeable and so are names.
Symmetric == Permutations(MCClient) \cup Permutations(MCName)

=============================================================================
