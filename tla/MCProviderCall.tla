--------------------------- MODULE MCProviderCall ---------------------------
(* Constants for ProviderCall.                                              *)
EXTENDS ProviderCall

CONSTANTS t1, t2

MCThread == {t1, t2}

MCService == {"s3"}
MCOperation == {"CreateBucket"}

Ask(f, d, p) ==
    [ service |-> "s3", operation |-> WILDCARD, failure |-> f,
      delay_ms |-> d, probability |-> p ]

\* A rule that only slows calls down, and a slow one that fails half of them.
MCRequest == {Ask("latency", 0, 2), Ask("throttle", 1, 1)}

\* A bucket that is not there, and a code the error table does not know.
MCBotoException ==
    { [kind |-> "client", aws |-> "NoSuchBucket"],
      [kind |-> "client", aws |-> "ExpiredToken"] }

=============================================================================
