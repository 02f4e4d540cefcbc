---------------------------- MODULE BucketService ----------------------------
(***************************************************************************)
(* S3Service (app/services/s3_service.py), as its clients' requests meet   *)
(* each other.  Creating, deleting and listing are one provider call each; *)
(* get_bucket is three, the last of which may fail without harm: a bucket  *)
(* without tags has none to get.  BucketPaging models how a listing is cut *)
(* into pages.                                                             *)
(***************************************************************************)
EXTENDS ServiceRequests

VARIABLES
    tagged,     \* external: buckets that carry tags
    tags,       \* what a request found out: "none", "empty" or "some" tags
    swallowed   \* history variable: the error _get_bucket_tags dropped

vars == <<baseVars, tagged, tags, swallowed>>

ProviderOp ==
    { "CreateBucket", "DeleteBucket", "ListBuckets", "HeadBucket",
      "GetBucketLocation", "GetBucketTagging" }

FirstCall ==
    [ create |-> "CreateBucket", delete |-> "DeleteBucket", get |-> "HeadBucket" ]

Kind == DOMAIN FirstCall \cup {"list"}

BucketInit ==
    /\ Init
    /\ tagged \in SUBSET present
    /\ tags = [c \in Client |-> "none"]
    /\ swallowed = [c \in Client |-> "none"]

SameTags == UNCHANGED <<tagged, tags, swallowed>>

There(c) == About(c) \in present

Request(c) ==
    /\ \/ \E n \in Name : \E kind \in DOMAIN FirstCall : Ask(c, kind, n, FirstCall[kind])
       \/ Ask(c, "list", NoName, "ListBuckets")
    /\ tags' = [tags EXCEPT ![c] = "none"]
    /\ swallowed' = [swallowed EXCEPT ![c] = "none"]
    /\ UNCHANGED tagged

\* External: anybody may tag a bucket or remove its tags; the API does not.
ChangeTags(n) ==
    /\ n \in present
    /\ tagged' = IF n \in tagged THEN tagged \ {n} ELSE tagged \cup {n}
    /\ UNCHANGED <<baseVars, tags, swallowed>>

\* In us-east-1 creating one's own bucket again is no error.
CreateBucket(c) ==
    /\ pc[c] = "CreateBucket"
    /\ \/ There(c) /\ NoEffect /\ Finish(c, "RESOURCE_ALREADY_EXISTS")
       \/ There(c) /\ Effect(c, present) /\ UNCHANGED stages /\ Finish(c, "ok")
       \/ /\ ~There(c)
          /\ Effect(c, present \cup {About(c)}) /\ UNCHANGED stages
          /\ Finish(c, "ok") \/ Raise(c)
    /\ SameTags
    /\ SameListing

\* A bucket with objects in it cannot be deleted.
BucketGoes(c) ==
    /\ There(c)
    /\ \/ NoEffect /\ Finish(c, "RESOURCE_CONFLICT") /\ UNCHANGED tagged
       \/ /\ Effect(c, present \ {About(c)}) /\ UNCHANGED stages
          /\ Finish(c, "ok") \/ Raise(c)
          /\ tagged' = tagged \ {About(c)}
    /\ SameListing

\* Mutant of DeleteBucket: deleting what is not there counts as done.
DeleteBucketLenient(c) ==
    /\ pc[c] = "DeleteBucket"
    /\ \/ BucketGoes(c)
       \/ ~There(c) /\ NoEffect /\ Finish(c, "ok") /\ UNCHANGED tagged /\ SameListing
    /\ UNCHANGED <<tags, swallowed>>

DeleteBucket(c) ==
    /\ pc[c] = "DeleteBucket"
    /\ BucketGoes(c) \/ (Missed(c) /\ UNCHANGED tagged)
    /\ UNCHANGED <<tags, swallowed>>

ListBuckets(c) ==
    /\ pc[c] = "ListBuckets"
    /\ found' = [found EXCEPT ![c] = present]
    /\ Finish(c, "ok")
    /\ NoEffect
    /\ SameTags
    /\ UNCHANGED <<todo, more>>

AfterLook == [HeadBucket |-> "GetBucketLocation", GetBucketLocation |-> "GetBucketTagging"]

\* Mutant of Look: whatever goes wrong, the bucket is said not to exist.
LookBlamesName(c) ==
    /\ pc[c] \in DOMAIN AfterLook
    /\ \/ Found(c) /\ Proceed(c, AfterLook[pc[c]])
       \/ Finish(c, "RESOURCE_NOT_FOUND")
    /\ NoEffect
    /\ SameTags
    /\ SameListing

\* The two calls of get_bucket that must succeed.
Look(c) ==
    /\ pc[c] \in DOMAIN AfterLook
    /\ \/ Found(c) /\ Proceed(c, AfterLook[pc[c]]) /\ NoEffect /\ SameListing
       \/ Missed(c)
    /\ SameTags

\* What GetBucketTagging answers for a bucket it has no tags for.
NoTagsError(c) == IF There(c) THEN "NoSuchTagSet" ELSE "NoSuchBucket"

\* Mutant of MeansNoTags: a bucket whose tags cannot be had has none.
AnythingMeansNoTags(code) == TRUE

\* The errors _get_bucket_tags drops: `exc.code == RESOURCE_NOT_FOUND'.
MeansNoTags(code) == code = "RESOURCE_NOT_FOUND"

\* The except clause of _get_bucket_tags, for what _call raised.
TaggingFailed(c, exc, aws) ==
    LET code == ErrorOf(exc).code
    IN  \/ /\ MeansNoTags(code)
           /\ swallowed' = [swallowed EXCEPT ![c] = aws]
           /\ tags' = [tags EXCEPT ![c] = "empty"]
           /\ Conclude(c, "ok")
        \/ /\ ~MeansNoTags(code)
           /\ Conclude(c, code)
           /\ UNCHANGED <<tags, swallowed>>

\* The last call of get_bucket.  It ends in an error where there are no tags,
\* and like every call for no reason of the data.
GetBucketTagging(c) ==
    /\ pc[c] = "GetBucketTagging"
    /\ \/ /\ There(c) /\ About(c) \in tagged
          /\ tags' = [tags EXCEPT ![c] = "some"]
          /\ Finish(c, "ok")
          /\ UNCHANGED swallowed
       \/ /\ ~There(c) \/ About(c) \notin tagged
          /\ TaggingFailed(c, [kind |-> "client", aws |-> NoTagsError(c)], NoTagsError(c))
          /\ UNCHANGED fault
       \/ \E exc \in Fault : Meet(c, exc) /\ TaggingFailed(c, exc, "fault")
    /\ NoEffect
    /\ SameListing
    /\ UNCHANGED tagged

Step(c) ==
    \/ CreateBucket(c)
    \/ DeleteBucket(c)
    \/ ListBuckets(c)
    \/ Look(c)
    \/ GetBucketTagging(c)
    \/ CallFails(c) /\ SameTags

Next ==
    \/ \E c \in Client : Request(c) \/ Step(c)
    \/ \E n \in Name : ChangeTags(n)

Spec == BucketInit /\ [][Next]_vars

----------------------------------------------------------------------------
(* Properties: those of ServiceRequests, and                               *)

\* Types.
TypeOK ==
    /\ TypeOKFor(ProviderOp, Kind)
    /\ tagged \subseteq present
    /\ tags \in [Client -> {"none", "empty", "some"}]
    /\ swallowed \in [Client -> {"none", "NoSuchTagSet", "NoSuchBucket"}]

----------------------------------------------------------------------------
(* What the documentation says and the code does not do.                   *)

\* The comment in _get_bucket_tags: GetBucketTagging's NoSuchTagSet is
\* swallowed, "anything else [...] should still propagate".
OnlyNoSuchTagSetSwallowed ==
    \A c \in Client : swallowed[c] # "NoSuchBucket"

=============================================================================
