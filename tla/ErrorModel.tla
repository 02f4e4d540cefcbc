----------------------------- MODULE ErrorModel -----------------------------
(***************************************************************************)
(* The two tables a failing provider call gets its error from: that of     *)
(* app/core/errors.py, what translate_boto_error makes of an exception out *)
(* of boto3, and that of app/core/failure_injection.py, what an injected   *)
(* failure raises in its place.  Messages and HTTP status numbers are left *)
(* out; the status follows from the code.                                  *)
(***************************************************************************)

ErrorCode ==
    { "RESOURCE_NOT_FOUND", "RESOURCE_ALREADY_EXISTS", "RESOURCE_CONFLICT",
      "ACCESS_DENIED", "VALIDATION_ERROR", "PROVIDER_UNAVAILABLE",
      "PROVIDER_ERROR", "THROTTLED", "INTERNAL_ERROR" }

\* What _call hands on: an AppError's code and whether a retry may help.
AppError == [code : ErrorCode, retryable : BOOLEAN]

\* _CLIENT_ERROR_MAP, one row per outcome: the botocore codes it is for.
ClientErrorMap ==
    { [ aws |-> {"BucketAlreadyExists", "BucketAlreadyOwnedByYou",
                 "QueueAlreadyExists", "ResourceInUseException"},
        code |-> "RESOURCE_ALREADY_EXISTS", retryable |-> FALSE ],
      [ aws |-> {"NoSuchBucket", "404", "NoSuchTagSet",
                 "AWS.SimpleQueueService.NonExistentQueue",
                 "ResourceNotFoundException"},
        code |-> "RESOURCE_NOT_FOUND", retryable |-> FALSE ],
      [ aws |-> {"BucketNotEmpty", "ConditionalCheckFailedException"},
        code |-> "RESOURCE_CONFLICT", retryable |-> FALSE ],
      [ aws |-> {"AWS.SimpleQueueService.QueueDeletedRecently"},
        code |-> "RESOURCE_CONFLICT", retryable |-> TRUE ],
      [ aws |-> {"AccessDenied", "InvalidAccessKeyId"},
        code |-> "ACCESS_DENIED", retryable |-> FALSE ],
      [ aws |-> {"InvalidBucketName", "ReceiptHandleIsInvalid",
                 "InvalidMessageContents", "ValidationException"},
        code |-> "VALIDATION_ERROR", retryable |-> FALSE ],
      [ aws |-> {"SlowDown", "Throttling", "TooManyRequests",
                 "ProvisionedThroughputExceededException",
                 "LimitExceededException"},
        code |-> "THROTTLED", retryable |-> TRUE ],
      [ aws |-> {"RequestTimeout", "ServiceUnavailable"},
        code |-> "PROVIDER_UNAVAILABLE", retryable |-> TRUE ],
      [ aws |-> {"InternalError"},
        code |-> "PROVIDER_ERROR", retryable |-> TRUE ] }

\* An exception out of fn(): a ClientError with its code, a connection error,
\* another BotoCoreError, or anything else.
IsBotoError(exc) == exc.kind \in {"client", "connection", "botocore"}

\* translate_boto_error, for the exceptions _call passes to it.
Translate(exc) ==
    IF exc.kind = "client" THEN
        IF \E row \in ClientErrorMap : exc.aws \in row.aws
        THEN LET row == CHOOSE r \in ClientErrorMap : exc.aws \in r.aws
             IN  [code |-> row.code, retryable |-> row.retryable]
        ELSE [code |-> "PROVIDER_ERROR", retryable |-> TRUE]
    ELSE IF exc.kind = "connection"
    THEN [code |-> "PROVIDER_UNAVAILABLE", retryable |-> TRUE]
    ELSE [code |-> "PROVIDER_ERROR", retryable |-> TRUE]

----------------------------------------------------------------------------

FailureType ==
    { "http_500", "http_403", "timeout", "latency", "throttle",
      "connection_failure" }

\* _FAILURE_ERRORS: latency delays a call and has no error.
FailureErrors ==
    [ http_500           |-> [code |-> "INTERNAL_ERROR",       retryable |-> FALSE],
      http_403           |-> [code |-> "ACCESS_DENIED",        retryable |-> FALSE],
      timeout            |-> [code |-> "PROVIDER_UNAVAILABLE", retryable |-> TRUE],
      throttle           |-> [code |-> "THROTTLED",            retryable |-> TRUE],
      connection_failure |-> [code |-> "PROVIDER_UNAVAILABLE", retryable |-> TRUE] ]

\* What _call raises for a failure, injected or out of boto3.
ErrorOf(exc) ==
    IF exc.kind = "injected" THEN FailureErrors[exc.failure] ELSE Translate(exc)

=============================================================================
