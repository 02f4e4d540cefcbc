--------------------------- MODULE MCBucketPaging ---------------------------
(* Constants for BucketPaging: five names, so that a walk takes up to five  *)
(* pages and changes fall before, inside and behind the current page.       *)
EXTENDS BucketPaging

MCName == 1 .. 5
MCPageSizes == {1, 2}

=============================================================================
