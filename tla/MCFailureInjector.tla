------------------------- MODULE MCFailureInjector -------------------------
(* Constants for FailureInjector, and the symmetry of its threads.         *)
EXTENDS FailureInjector, TLC

CONSTANTS t1, t2

MCThread == {t1, t2}
\* The two threads are interchangeable.
ThreadSymmetry == Permutations(MCThread)

MCService == {"s3"}
MCOperation == {"CreateBucket", "ListBuckets"}

Ask(s, op, f, d, p) ==
    [service |-> s, operation |-> op, failure |-> f, delay_ms |-> d, probability |-> p]

\* A slow rule, a blanket failure, a failure that may miss and whose delay is
\* out of range, and a rule that is switched off by probability zero.
MCRequest ==
    { Ask("s3", "CreateBucket", "latency", 1, 4),
      Ask(WILDCARD, WILDCARD, "http_500", 0, 4),
      Ask("s3", WILDCARD, "timeout", 9, 2),
      Ask("s3", "CreateBucket", "throttle", 0, -1) }

============================================================================
