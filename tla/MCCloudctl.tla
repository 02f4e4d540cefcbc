----------------------------- MODULE MCCloudctl -----------------------------
(* Cloudctl with a bound for TLC.                                           *)
EXTENDS Cloudctl

=============================================================================
