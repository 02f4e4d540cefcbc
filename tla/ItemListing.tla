----------------------------- MODULE ItemListing -----------------------------
(***************************************************************************)
(* put_item, delete_item and list_items of DynamoDbService with the values *)
(* of the items: the walk of ScanPaging, whose pages are converted to      *)
(* plain JSON before they are answered, number by number (ItemNumbers).    *)
(*                                                                         *)
(* An item stands for its one number.  The exceptions of the conversions   *)
(* are no TypeErrors (decimal.Rounded, decimal.Overflow on the way in,     *)
(* decimal.InvalidOperation on the way out): they become plain 500s.       *)
(***************************************************************************)
EXTENDS ScanPaging, ItemNumbers

CONSTANTS
    NaN,      \* a JSON number that is none: NaN or an infinity
    NoNumber, \* where there is no item
    LagLimit  \* bound: older versions of items that Scan may find at a time

ASSUME NoNumberAssumption == NaN \notin Number /\ NoNumber \notin Number

VARIABLES
    number,   \* the number of the item of each key
    older,    \* external: what Scan may find of it instead
    shown,    \* keys and values of the page just answered
    answer    \* how the last request was answered, or failed with a plain 500

itemVars == <<vars, number, older, shown, answer>>

ItemInit ==
    /\ Init
    /\ number \in [Key -> Number \cup {NoNumber}]
    /\ \A x \in Key :
          IF x \in items THEN number[x] \in Number /\ FitsWire(number[x])
          ELSE number[x] = NoNumber
    /\ older = [x \in Key |-> {}]
    /\ shown = {}
    /\ answer = "none"

----------------------------------------------------------------------------

\* A write of x: what was there before may be found for a while.
Write(x, v) ==
    /\ number' = [number EXCEPT ![x] = v]
    /\ older' = [older EXCEPT ![x] = (@ \cup {number[x]}) \ {v}]
    /\ Cardinality(UNION {{x1} \X older'[x1] : x1 \in Key}) <= LagLimit

\* _to_attribute_value_map raised a TypeError, or another exception.
RejectItem(v) ==
    /\ \/ v = NaN /\ answer' = "VALIDATION_ERROR"
       \/ v \in Number /\ ~FitsWire(v) /\ answer' = "put_failed"
    /\ shown' = {}
    /\ UNCHANGED <<vars, number, older>>

Put(x, v) ==
    /\ v \in Number
    /\ FitsWire(v)
    /\ PutItem(x)
    /\ Write(x, v)
    /\ answer' = "ok"
    /\ shown' = {}

Delete(x) ==
    /\ DeleteItem(x)
    /\ Write(x, NoNumber)
    /\ answer' = "ok"
    /\ shown' = {}

Begin ==
    /\ BeginListing
    /\ answer' = "none"
    /\ shown' = {}
    /\ UNCHANGED <<number, older>>

\* External: the last write of x is everywhere.
Replicate(x) ==
    /\ older[x] # {}
    /\ CatchUp(x)
    /\ older' = [older EXCEPT ![x] = {}]
    /\ shown' = {}
    /\ UNCHANGED <<number, answer>>

\* What Scan may find of each key, and the keys it finds an item of.
Versions(x) == {number[x]} \cup older[x]

Scan ==
    {scan \in [Key -> UNION {Versions(x) : x \in Key}] :
       \A x \in Key : scan[x] \in Versions(x)}

Keys(scan) == {x \in Key : scan[x] # NoNumber}

\* list_items, every number of the page converted.
Page(size) ==
    /\ \E scan \in Scan :
          /\ NextPage(size, Keys(scan))
          /\ LET page == {x \in Rest(Keys(scan)) : x <= after'}
             IN /\ \A x \in page : HasRemainder(scan[x])
                /\ shown' = {<<x, FromDynamo(scan[x])>> : x \in page}
    /\ answer' = "listed"
    /\ UNCHANGED <<number, older>>

\* A page up to this key has a number that cannot be converted.
PageFails(size, last) ==
    \E scan \in Scan :
       /\ last \in Rest(Keys(scan))
       /\ Cardinality(UpTo(Keys(scan), last)) <= size
       /\ \E x \in UpTo(Keys(scan), last) : ~HasRemainder(scan[x])

\* Mutant of FailPage: the cursor moves on behind a page that was not shown.
FailPageMovesOn(size) ==
    /\ status = "listing"
    /\ \E last \in Key : PageFails(size, last) /\ after' = last
    /\ answer' = "list_failed"
    /\ shown' = {}
    /\ UNCHANGED <<items, lagging, status, seen, repeats, kept, number, older>>

\* list_items when one number cannot be converted: no page, no next cursor.
\* The client may ask again with the cursor it has.
FailPage(size) ==
    /\ status = "listing"
    /\ \E last \in Key : PageFails(size, last)
    /\ answer' = "list_failed"
    /\ shown' = {}
    /\ UNCHANGED <<vars, number, older>>

ItemNext ==
    \/ \E v \in Number \cup {NaN} : RejectItem(v)
    \/ \E x \in Key, v \in Number : Put(x, v)
    \/ \E x \in Key : Delete(x) \/ Replicate(x)
    \/ Begin
    \/ \E size \in PageSizes : Page(size) \/ FailPage(size)

ItemSpec == ItemInit /\ [][ItemNext]_itemVars

\* A client that has begun to page goes on while there is a next cursor.
FairItemSpec == ItemSpec /\ WF_itemVars(\E size \in PageSizes : Page(size))

----------------------------------------------------------------------------
(* Properties                                                              *)

\* What a page shows is what was put, number for number and at worst a little
\* late: the detour over Decimal neither rounds nor drops anything, or the page
\* is not answered.
ListedAsPut ==
    \A row \in shown : \E v \in Versions(row[1]) \cap Number : row[2] = Value(v)

\* Conversions and the pages they fail leave the walk as ScanPaging has it: a
\* page is answered whole or the client stays where it was, so that nothing
\* is skipped in silence.
WalkImplemented == Spec

\* A walk comes to its last page, if in the end Scan finds only numbers that
\* can be shown: neither puts nor deletes behind or ahead of the cursor keep it
\* from moving forward.
ListingEnds ==
    <>[](\A x \in Key : \A v \in Versions(x) \ {NoNumber} : HasRemainder(v))
       => (status = "listing" ~> status = "done")

----------------------------------------------------------------------------
(* What the documentation says and the code does not do.                   *)

\* tests/test_dynamodb_service.py, test_put_and_list_items_round_trips_plain_
\* json: what put_item accepted, list_items can show.
PutIsListable == answer # "list_failed"

=============================================================================
