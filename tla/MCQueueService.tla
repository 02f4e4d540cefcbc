--------------------------- MODULE MCQueueService ---------------------------
(* Constants for QueueService.                                              *)
EXTENDS QueueService

CONSTANTS c1, c2, q1, q2

MCClient == {c1, c2}
MCName == {q1, q2}
MCFault == {[kind |-> "injected", failure |-> "throttle"]}

=============================================================================
