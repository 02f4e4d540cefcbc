----------------------------- MODULE MCApiServer -----------------------------
(* Constants for ApiServer.                                                 *)
EXTENDS ApiServer

CONSTANTS r1, r2, r3, p1

MCRequest == {r1, r2, r3}
MCProbe == {p1}
MCService == {"s3", "sqs"}
MCResource == {"sqs"}

=============================================================================
