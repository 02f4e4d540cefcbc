------------------------------ MODULE ScanPaging ------------------------------
(***************************************************************************)
(* DynamoDbService.list_items: pages over a table that changes while a     *)
(* client walks through it.                                                *)
(*                                                                         *)
(* Unlike BucketPaging, the cursor is not a position but the key where the *)
(* last page ended (DynamoDB's LastEvaluatedKey), and a page is what Scan  *)
(* finds behind that key.  Keys are numbers, in the order Scan visits      *)
(* them, which is fixed for each key.  Scan is external: a page holds at   *)
(* most `size' items, possibly fewer, and may name a last key although     *)
(* nothing is left behind it.  It is eventually consistent, list_items     *)
(* asking for nothing better: an item put or deleted lately may be missing *)
(* from it or still be in it, page for page anew.                          *)
(*                                                                         *)
(* `kept' and `repeats' are history variables.                             *)
(***************************************************************************)
EXTENDS Integers, FiniteSets

CONSTANTS
    Key,       \* item keys, as numbers
    PageSizes  \* page sizes a client may ask for

ASSUME KeyAssumption == Key \subseteq Nat \ {0}

ASSUME PageAssumption == PageSizes \subseteq Nat \ {0}

NoKey == 0   \* no ExclusiveStartKey: the first page

VARIABLES
    items,    \* the keys of the items in the table
    lagging,  \* external: keys put or deleted so lately that Scan may not know
    status,   \* of the client's walk: "none", "listing" or "done"
    after,    \* the key the client's cursor encodes
    seen,     \* the keys of the items the client was shown
    kept,     \* items known when the walk began and not deleted during it
    repeats   \* times the client was shown an item again

walk == <<status, after, seen, repeats>>
vars == <<items, lagging, walk, kept>>

Init ==
    /\ items \in SUBSET Key
    /\ lagging = {}
    /\ status = "none"
    /\ after = NoKey
    /\ seen = {}
    /\ kept = {}
    /\ repeats = 0

----------------------------------------------------------------------------

BeginListing ==
    /\ status # "listing"
    /\ status' = "listing"
    /\ after' = NoKey
    /\ seen' = {}
    /\ kept' = items \ lagging
    /\ repeats' = 0
    /\ UNCHANGED <<items, lagging>>

\* What Scan may take for the table.
View == {view \in SUBSET (items \cup lagging) : items \ lagging \subseteq view}

\* What it finds behind ExclusiveStartKey, and its part up to a key.
Rest(view) == {x \in view : x > after}

UpTo(view, last) == {x \in Rest(view) : x <= last}

\* Mutant of NextPage: the cursor is dropped, every page is the first.
NextPageNoCursor(size, view) ==
    /\ status = "listing"
    /\ \/ \E last \in Rest(view) :
             /\ Cardinality(UpTo(view, last)) <= size
             /\ seen' = seen \cup UpTo(view, last)
             /\ after' = NoKey
             /\ status' \in IF UpTo(view, last) = Rest(view) THEN {"listing", "done"} ELSE {"listing"}
       \/ Rest(view) = {} /\ status' = "done" /\ UNCHANGED <<seen, after>>
    /\ UNCHANGED <<items, lagging, kept, repeats>>

\* Mutant of NextPage: a short page is taken for the last one.
NextPageStopsShort(size, view) ==
    /\ status = "listing"
    /\ \/ \E last \in Rest(view) :
             /\ Cardinality(UpTo(view, last)) <= size
             /\ seen' = seen \cup UpTo(view, last)
             /\ repeats' = repeats + Cardinality(seen \cap UpTo(view, last))
             /\ after' = last
             /\ status' = IF Cardinality(UpTo(view, last)) < size THEN "done" ELSE "listing"
       \/ Rest(view) = {} /\ status' = "done" /\ UNCHANGED <<seen, repeats, after>>
    /\ UNCHANGED <<items, lagging, kept>>

\* Mutant of NextPage: the cursor starts the next page with the last key.
NextPageInclusive(size, view) ==
    /\ status = "listing"
    /\ \/ \E last \in Rest(view) :
             /\ Cardinality(UpTo(view, last)) <= size
             /\ seen' = seen \cup UpTo(view, last)
             /\ repeats' = repeats + Cardinality(seen \cap UpTo(view, last))
             /\ after' = last - 1
             /\ status' \in IF UpTo(view, last) = Rest(view) THEN {"listing", "done"} ELSE {"listing"}
       \/ Rest(view) = {} /\ status' = "done" /\ UNCHANGED <<seen, repeats, after>>
    /\ UNCHANGED <<items, lagging, kept>>

\* One page request.  The client is handed a next cursor if there is a last
\* evaluated key, and there is one whenever something is left behind it.
NextPage(size, view) ==
    /\ status = "listing"
    /\ \/ \E last \in Rest(view) :
             /\ Cardinality(UpTo(view, last)) <= size
             /\ seen' = seen \cup UpTo(view, last)
             /\ repeats' = repeats + Cardinality(seen \cap UpTo(view, last))
             /\ after' = last
             /\ status' \in IF UpTo(view, last) = Rest(view) THEN {"listing", "done"} ELSE {"listing"}
       \/ Rest(view) = {} /\ status' = "done" /\ UNCHANGED <<seen, repeats, after>>
    /\ UNCHANGED <<items, lagging, kept>>

\* PutItem; it replaces an item of the same key, so that Scan finds one of
\* the two.
PutItem(x) ==
    /\ items' = items \cup {x}
    /\ lagging' = lagging \cup ({x} \ items)
    /\ UNCHANGED <<walk, kept>>

\* DeleteItem; deleting what is not there is no error.
DeleteItem(x) ==
    /\ items' = items \ {x}
    /\ lagging' = lagging \cup ({x} \cap items)
    /\ kept' = kept \ {x}
    /\ UNCHANGED walk

\* External: the last write of x is everywhere Scan may read.
CatchUp(x) ==
    /\ lagging' = lagging \ {x}
    /\ UNCHANGED <<items, walk, kept>>

Next ==
    \/ BeginListing
    \/ \E size \in PageSizes, view \in View : NextPage(size, view)
    \/ \E x \in Key : PutItem(x) \/ DeleteItem(x) \/ CatchUp(x)

Spec == Init /\ [][Next]_vars

----------------------------------------------------------------------------
(* Properties                                                              *)

\* Types.
TypeOK ==
    /\ items \subseteq Key
    /\ lagging \subseteq Key
    /\ status \in {"none", "listing", "done"}
    /\ after \in Key \cup {NoKey}
    /\ seen \subseteq Key
    /\ kept \subseteq items \ lagging
    /\ repeats \in Nat

\* A key cursor misses nothing: a client that came to the last page was shown
\* every item that was there, and known to be, from beginning to end, whatever
\* was put and deleted around it, the item the cursor names included, and
\* although each page may be read from another state of the table.
NothingMissed == status = "done" => kept \subseteq seen

\* And it shows no item twice in a walk, not even one deleted and put again.
NothingRepeated == repeats = 0

=============================================================================
