------------------------ MODULE MCOperationRecorder ------------------------
(* Constants for OperationRecorder.  A buffer of two and five records: each *)
(* record is evicted in some behaviour, before and after a clear().         *)
EXTENDS OperationRecorder

MCService == {"s3"}
MCOperation == {"CreateBucket", "ListBuckets"}
MCDetail == {"r1"}

============================================================================
