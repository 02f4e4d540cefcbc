---------------------------- MODULE BucketPaging ----------------------------
(***************************************************************************)
(* S3Service.list_buckets: pages over a set of buckets that changes while  *)
(* a client walks through it.                                              *)
(*                                                                         *)
(* Every page request asks the provider for all buckets again, sorts them  *)
(* by name and cuts the page out by position; the cursor is the position   *)
(* where the next page starts (app/services/pagination.py).  Between two   *)
(* page requests anybody may create or delete buckets.  Names are numbers, *)
(* ordered as the strings are.                                             *)
(*                                                                         *)
(* `kept', `creates', `deletes' and `repeats' are history variables.       *)
(***************************************************************************)
EXTENDS Integers, FiniteSets

CONSTANTS
    Name,        \* bucket names, as numbers
    PageSizes,   \* page sizes a client may ask for
    MaxChanges   \* bound: creates, and deletes, during one listing

ASSUME NameAssumption == Name \subseteq Nat /\ IsFiniteSet(Name)

ASSUME PageAssumption == PageSizes \subseteq Nat \ {0}

ASSUME ChangesAssumption == MaxChanges \in Nat

VARIABLES
    buckets,   \* the buckets the provider holds
    status,    \* of the client's walk: "none", "listing" or "done"
    offset,    \* the position the client's cursor encodes
    seen,      \* the buckets the client was shown
    kept,      \* buckets there when the walk began and not deleted during it
    creates,   \* buckets created during the walk
    deletes,   \* buckets deleted during the walk
    repeats    \* times the client was shown a bucket again

walk == <<status, offset, seen, repeats>>
vars == <<buckets, walk, kept, creates, deletes>>

\* The position of a name among the sorted names of S.
Rank(x, S) == Cardinality({y \in S : y < x})

\* all_resources[offset : offset + page_size]
Page(size) ==
    {x \in buckets : offset <= Rank(x, buckets) /\ Rank(x, buckets) < offset + size}

Init ==
    /\ buckets \in SUBSET Name
    /\ status = "none"
    /\ offset = 0
    /\ seen = {}
    /\ kept = {}
    /\ creates = 0
    /\ deletes = 0
    /\ repeats = 0

----------------------------------------------------------------------------

\* The client's first request carries no cursor: it starts at the top.
BeginListing ==
    /\ status # "listing"
    /\ status' = "listing"
    /\ offset' = 0
    /\ seen' = {}
    /\ kept' = buckets
    /\ creates' = 0
    /\ deletes' = 0
    /\ repeats' = 0
    /\ UNCHANGED buckets

\* Mutant of NextPage: the next page starts one position too far.
NextPageSkipsOne(size) ==
    /\ status = "listing"
    /\ seen' = seen \cup Page(size)
    /\ repeats' = repeats + Cardinality(seen \cap Page(size))
    /\ offset' = offset + size + 1
    /\ status' = IF offset + size < Cardinality(buckets) THEN "listing" ELSE "done"
    /\ UNCHANGED <<buckets, kept, creates, deletes>>

\* Mutant of NextPage: the next page starts with the last bucket of this one.
NextPageOverlaps(size) ==
    /\ status = "listing"
    /\ seen' = seen \cup Page(size)
    /\ repeats' = repeats + Cardinality(seen \cap Page(size))
    /\ offset' = IF offset + size < Cardinality(buckets)
                 THEN offset + size - 1
                 ELSE offset + size
    /\ status' = IF offset + size < Cardinality(buckets) THEN "listing" ELSE "done"
    /\ UNCHANGED <<buckets, kept, creates, deletes>>

\* Mutant of NextPage: the cursor names the page just shown.
NextPageStays(size) ==
    /\ status = "listing"
    /\ seen' = seen \cup Page(size)
    /\ repeats' = repeats
    /\ status' = IF offset + size < Cardinality(buckets) THEN "listing" ELSE "done"
    /\ UNCHANGED <<buckets, offset, kept, creates, deletes>>

\* One page request.  There is a next cursor only if something lies beyond.
NextPage(size) ==
    /\ status = "listing"
    /\ seen' = seen \cup Page(size)
    /\ repeats' = repeats + Cardinality(seen \cap Page(size))
    /\ offset' = offset + size
    /\ status' = IF offset + size < Cardinality(buckets) THEN "listing" ELSE "done"
    /\ UNCHANGED <<buckets, kept, creates, deletes>>

CreateBucket(x) ==
    /\ x \notin buckets
    /\ buckets' = buckets \cup {x}
    /\ IF status = "listing"
       THEN creates < MaxChanges /\ creates' = creates + 1
       ELSE UNCHANGED creates
    /\ UNCHANGED <<walk, kept, deletes>>

DeleteBucket(x) ==
    /\ x \in buckets
    /\ buckets' = buckets \ {x}
    /\ IF status = "listing"
       THEN deletes < MaxChanges /\ deletes' = deletes + 1 /\ kept' = kept \ {x}
       ELSE UNCHANGED <<deletes, kept>>
    /\ UNCHANGED <<walk, creates>>

Next ==
    \/ BeginListing
    \/ \E size \in PageSizes : NextPage(size)
    \/ \E x \in Name : CreateBucket(x) \/ DeleteBucket(x)

Spec == Init /\ [][Next]_vars

\* A client that has begun to page goes on while there is a next cursor.
FairSpec == Spec /\ WF_vars(\E size \in PageSizes : NextPage(size))

----------------------------------------------------------------------------
(* Properties                                                              *)

\* Types.
TypeOK ==
    /\ buckets \subseteq Name
    /\ status \in {"none", "listing", "done"}
    /\ offset \in Nat
    /\ seen \subseteq Name
    /\ kept \subseteq Name
    /\ status = "listing" => kept \subseteq buckets
    /\ creates \in Nat
    /\ deletes \in Nat
    /\ repeats \in Nat

\* A position cursor may skip buckets, but no more than one for each bucket
\* deleted meanwhile: in a walk without deletes the client sees every bucket
\* that was there from beginning to end, whatever was created around it.
SkipsBoundedByDeletes ==
    status = "done" => Cardinality(kept \ seen) <= deletes

\* It may show a bucket twice, but no more than once for each bucket created
\* meanwhile: in a walk without creates nothing is repeated.
RepeatsBoundedByCreates == repeats <= creates

\* A walk comes to its last page, however the buckets change.
ListingEnds == status = "listing" ~> status = "done"

=============================================================================
