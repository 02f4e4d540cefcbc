-------------------------- MODULE ItemListingProofs --------------------------
(***************************************************************************)
(* Proofs about ScanPaging, for any set of keys and any page sizes, and    *)
(* about ItemListing, which implements it: the theorems about a walk hold  *)
(* of the listing with its conversions.                                    *)
(*                                                                         *)
(* The key the cursor encodes cuts the keys in two: everything up to it    *)
(* that lasts has been shown, and nothing beyond it has.  Pages only ever  *)
(* add what lies beyond, and move the cut to the last key they added.      *)
(* What lasts is in every view of the table that a page may be read from,  *)
(* and ItemListing's pages, whose numbers may be older ones, are read from *)
(* such views (ScanIsView).                                                *)
(*                                                                         *)
(* That a number survives the way through Decimal is arithmetic with       *)
(* powers of ten, which are defined by recursion: what they satisfy is     *)
(* proved by induction, on sets of numbers, from the fact that < is well   *)
(* founded.                                                                *)
(***************************************************************************)
EXTENDS ItemListing, FiniteSetTheorems, WellFoundedInduction, TLAPS

\* Nothing beyond the cursor has been shown in this walk.
ShownBehind == status = "listing" => \A x \in seen : x <= after

\* Everything that lasts, up to the cursor, has been shown.
BehindShown == status = "listing" => \A x \in kept : x <= after => x \in seen

IInv == TypeOK /\ ShownBehind /\ BehindShown /\ NothingMissed /\ NothingRepeated

\* The first page starts before every key.
LEMMA InitIInv == Init => IInv
BY KeyAssumption
DEF Init, IInv, TypeOK, ShownBehind, BehindShown, NothingMissed, NothingRepeated, NoKey

\* A new walk starts with nothing shown and the cursor before every key.
LEMMA BeginKeepsIInv == IInv /\ BeginListing => IInv'
<1> SUFFICES ASSUME IInv, BeginListing
             PROVE  IInv'
  OBVIOUS
<1>1. \A x \in Key : ~(x <= NoKey)
  BY KeyAssumption DEF NoKey
<1> QED
  BY <1>1
  DEF IInv, TypeOK, BeginListing, ShownBehind, BehindShown, NothingMissed, NothingRepeated

\* A page up to `last' shows only what was not shown and leaves nothing that
\* lasts behind.
LEMMA PageUpTo ==
    ASSUME IInv, status = "listing", NEW view \in View, NEW last \in Rest(view)
    PROVE  /\ last \in Key
           /\ UpTo(view, last) \subseteq Key
           /\ seen \cap UpTo(view, last) = {}
           /\ \A x \in seen \cup UpTo(view, last) : x <= last
           /\ \A x \in kept : x <= last => x \in seen \cup UpTo(view, last)
           /\ UpTo(view, last) = Rest(view) => kept \subseteq seen \cup UpTo(view, last)
<1>1. /\ items \subseteq Key /\ lagging \subseteq Key
      /\ kept \subseteq items \ lagging /\ seen \subseteq Key
      /\ after \in Nat
      /\ \A x \in seen : x <= after
      /\ \A x \in kept : x <= after => x \in seen
  BY KeyAssumption DEF IInv, TypeOK, ShownBehind, BehindShown, NoKey
<1>2. view \subseteq Key /\ kept \subseteq view
  BY <1>1 DEF View
<1>3. /\ Key \subseteq Nat
      /\ last \in Key /\ last > after
      /\ UpTo(view, last) \subseteq Key
  BY <1>2, KeyAssumption DEF Rest, UpTo
<1>4. seen \cap UpTo(view, last) = {}
  <2> SUFFICES ASSUME NEW x \in seen, x \in UpTo(view, last)
               PROVE  FALSE
    OBVIOUS
  <2> QED
    BY <1>1, <1>3 DEF UpTo, Rest
<1>5. \A x \in seen \cup UpTo(view, last) : x <= last
  <2> SUFFICES ASSUME NEW x \in seen
               PROVE  x <= last
    BY DEF UpTo
  <2>1. x \in Nat /\ last \in Nat /\ x <= after
    BY <1>1, <1>3
  <2> QED
    BY <1>1, <1>3, <2>1
<1>6. ASSUME NEW x \in kept
      PROVE  /\ x \in Nat
             /\ x <= after => x \in seen
             /\ x > after => x \in Rest(view)
             /\ x <= after \/ x > after
  BY <1>1, <1>2, <1>3 DEF Rest
<1>7. \A x \in kept : x <= last => x \in seen \cup UpTo(view, last)
  BY <1>6 DEF UpTo
<1>8. UpTo(view, last) = Rest(view) => kept \subseteq seen \cup UpTo(view, last)
  BY <1>6
<1> QED
  BY <1>3, <1>4, <1>5, <1>7, <1>8

\* One page request keeps the cut where it belongs.
LEMMA NextPageKeepsIInv ==
    ASSUME IInv, NEW size \in PageSizes, NEW view \in View, NextPage(size, view)
    PROVE  IInv'
<1>1. status = "listing" /\ items' = items /\ lagging' = lagging /\ kept' = kept
  BY DEF NextPage
<1>2. ASSUME NEW last \in Rest(view),
             seen' = seen \cup UpTo(view, last),
             repeats' = repeats + Cardinality(seen \cap UpTo(view, last)),
             after' = last,
             status' \in IF UpTo(view, last) = Rest(view)
                         THEN {"listing", "done"} ELSE {"listing"}
      PROVE  IInv'
  <2>1. repeats' = 0
    <3>1. Cardinality(seen \cap UpTo(view, last)) = 0
      BY <1>1, PageUpTo, FS_EmptySet
    <3> QED
      BY <1>2, <3>1 DEF IInv, NothingRepeated
  <2>2. TypeOK'
    BY <1>1, <1>2, <2>1, PageUpTo DEF IInv, TypeOK
  <2>3. ShownBehind' /\ BehindShown'
    BY <1>1, <1>2, PageUpTo DEF ShownBehind, BehindShown
  <2>4. NothingMissed'
    BY <1>1, <1>2, PageUpTo DEF NothingMissed
  <2> QED
    BY <2>1, <2>2, <2>3, <2>4 DEF IInv, NothingRepeated
<1>3. ASSUME Rest(view) = {}, status' = "done", UNCHANGED <<seen, repeats, after>>
      PROVE  IInv'
  <2>1. kept \subseteq seen
    <3> SUFFICES ASSUME NEW x \in kept
                 PROVE  x \in seen
      OBVIOUS
    <3>1. x \in view /\ x \in Nat /\ after \in Nat /\ (x <= after => x \in seen)
      BY <1>1, KeyAssumption DEF IInv, TypeOK, BehindShown, NoKey, View
    <3> QED
      BY <1>3, <3>1 DEF Rest
  <2> QED
    BY <1>1, <1>3, <2>1
    DEF IInv, TypeOK, ShownBehind, BehindShown, NothingMissed, NothingRepeated
<1> QED
  BY <1>2, <1>3 DEF NextPage

\* Nor do puts and deletes disturb it: a new item does not last, a deleted one
\* no longer counts.
LEMMA ItemsKeepIInv ==
    ASSUME IInv, NEW x \in Key, PutItem(x) \/ DeleteItem(x) \/ CatchUp(x)
    PROVE  IInv'
BY DEF IInv, TypeOK, ShownBehind, BehindShown, NothingMissed, NothingRepeated,
       PutItem, DeleteItem, CatchUp, walk

\* The inductive invariant holds in every state.
THEOREM Invariance == Spec => []IInv
<1>1. IInv /\ [Next]_vars => IInv'
  <2> SUFFICES ASSUME IInv, [Next]_vars
               PROVE  IInv'
    OBVIOUS
  <2>1. CASE BeginListing
    BY <2>1, BeginKeepsIInv
  <2>2. CASE \E size \in PageSizes, view \in View : NextPage(size, view)
    BY <2>2, NextPageKeepsIInv
  <2>3. CASE \E x \in Key : PutItem(x) \/ DeleteItem(x) \/ CatchUp(x)
    BY <2>3, ItemsKeepIInv
  <2>4. CASE UNCHANGED vars
    BY <2>4
    DEF IInv, TypeOK, ShownBehind, BehindShown, NothingMissed, NothingRepeated, vars, walk
  <2> QED
    BY <2>1, <2>2, <2>3, <2>4 DEF Next
<1> QED
  BY <1>1, InitIInv, PTL DEF Spec

\* TypeOK holds in every state, whatever the keys and the page sizes.
THEOREM TypeCorrect == Spec => []TypeOK
<1>1. IInv => TypeOK
  BY DEF IInv
<1> QED
  BY <1>1, Invariance, PTL

\* list_items misses no lasting item: NothingMissed, for every table.
THEOREM ScanMissesNothing == Spec => []NothingMissed
<1>1. IInv => NothingMissed
  BY DEF IInv
<1> QED
  BY <1>1, Invariance, PTL

\* list_items repeats no item within a walk: NothingRepeated, for every table.
THEOREM ScanRepeatsNothing == Spec => []NothingRepeated
<1>1. IInv => NothingRepeated
  BY DEF IInv
<1> QED
  BY <1>1, Invariance, PTL

----------------------------------------------------------------------------

\* The numbers go with the items, and an older version that differs from the
\* item in being there at all is only that of a lagging key.
Versioned ==
    /\ items \subseteq Key
    /\ number \in [Key -> Number \cup {NoNumber}]
    /\ older \in [Key -> SUBSET (Number \cup {NoNumber})]
    /\ \A x \in Key :
          /\ x \in items <=> number[x] # NoNumber
          /\ x \in items \ lagging => NoNumber \notin older[x]
          /\ x \notin items \cup lagging => older[x] \subseteq {NoNumber}

\* A write keeps it.
LEMMA WriteVersioned ==
    ASSUME Versioned, NEW x \in Key, NEW v \in Number \cup {NoNumber}, Write(x, v),
           IF v = NoNumber THEN DeleteItem(x) ELSE PutItem(x)
    PROVE  Versioned'
<1>1. /\ number' \in [Key -> Number \cup {NoNumber}]
      /\ older' \in [Key -> SUBSET (Number \cup {NoNumber})]
      /\ number'[x] = v /\ older'[x] = (older[x] \cup {number[x]}) \ {v}
      /\ \A y \in Key \ {x} : number'[y] = number[y] /\ older'[y] = older[y]
  BY DEF Versioned, Write
<1>2. /\ items' \subseteq Key
      /\ x \in items' <=> v # NoNumber
      /\ \A y \in Key \ {x} : y \in items' <=> y \in items
      /\ \A y \in Key \ {x} : y \in lagging' <=> y \in lagging
      /\ x \in lagging' <=> x \in lagging \/ (x \in items <=> v = NoNumber)
  BY DEF Versioned, DeleteItem, PutItem
<1> QED
  BY <1>1, <1>2 DEF Versioned

LEMMA VersionedInvariant == ItemSpec => []Versioned
<1>1. ItemInit => Versioned
  BY NoNumberAssumption DEF ItemInit, Init, Versioned
<1>2. Versioned /\ [ItemNext]_itemVars => Versioned'
  <2> SUFFICES ASSUME Versioned, [ItemNext]_itemVars
               PROVE  Versioned'
    OBVIOUS
  <2>1. CASE UNCHANGED <<items, lagging, number, older>>
    BY <2>1 DEF Versioned
  <2>2. ASSUME NEW x \in Key, NEW v \in Number, Put(x, v)
        PROVE  Versioned'
    BY <2>2, WriteVersioned, NoNumberAssumption DEF Put
  <2>3. ASSUME NEW x \in Key, Delete(x)
        PROVE  Versioned'
    BY <2>3, WriteVersioned DEF Delete
  <2>4. ASSUME NEW x \in Key, Replicate(x)
        PROVE  Versioned'
    BY <2>4 DEF Versioned, Replicate, CatchUp
  <2>5. CASE \/ \E v \in Number \cup {NaN} : RejectItem(v)
             \/ Begin
             \/ \E size \in PageSizes : Page(size) \/ FailPage(size)
             \/ UNCHANGED itemVars
    BY <2>1, <2>5
    DEF RejectItem, Begin, BeginListing, Page, NextPage, FailPage, itemVars, vars
  <2> QED
    BY <2>2, <2>3, <2>4, <2>5 DEF ItemNext
<1> QED
  BY <1>1, <1>2, PTL DEF ItemSpec

\* What Scan finds is a view of the table.
LEMMA ScanIsView ==
    ASSUME Versioned, NEW scan \in Scan
    PROVE  Keys(scan) \in View
<1>1. \A x \in Key : scan[x] = number[x] \/ scan[x] \in older[x]
  BY DEF Scan, Versions
<1>2. Keys(scan) \subseteq items \cup lagging
  BY <1>1 DEF Keys, Versioned
<1>3. items \ lagging \subseteq Keys(scan)
  BY <1>1 DEF Keys, Versioned
<1> QED
  BY <1>2, <1>3 DEF View

\* A step of ItemListing is a step of the walk or leaves it alone.
LEMMA StepImplemented == Versioned /\ [ItemNext]_itemVars => [Next]_vars
<1>. SUFFICES ASSUME Versioned, ItemNext PROVE [Next]_vars
  BY DEF itemVars
<1>1. CASE \E v \in Number \cup {NaN} : RejectItem(v)
  BY <1>1 DEF RejectItem
<1>2. CASE \E x \in Key, v \in Number : Put(x, v)
  BY <1>2 DEF Put, Next
<1>3. CASE \E x \in Key : Delete(x) \/ Replicate(x)
  BY <1>3 DEF Delete, Replicate, Next
<1>4. CASE Begin
  BY <1>4 DEF Begin, Next
<1>5. ASSUME NEW size \in PageSizes, Page(size)
      PROVE  Next
  <2>1. PICK scan \in Scan : NextPage(size, Keys(scan))
    BY <1>5 DEF Page
  <2> QED
    BY <2>1, ScanIsView DEF Next
<1>6. CASE \E size \in PageSizes : FailPage(size)
  BY <1>6 DEF FailPage
<1>. QED
  BY <1>1, <1>2, <1>3, <1>4, <1>5, <1>6 DEF ItemNext

\* Conversions and the pages they fail leave the walk as ScanPaging has it.
THEOREM WalkRefined == ItemSpec => WalkImplemented
<1>1. ItemInit => Init
  BY DEF ItemInit
<1>. QED
  BY <1>1, VersionedInvariant, StepImplemented, PTL DEF ItemSpec, WalkImplemented, Spec

\* A listing that came to its last page showed every item that was there from
\* beginning to end, conversions and failed pages included.
THEOREM ListingMissesNothing == ItemSpec => []NothingMissed
  BY WalkRefined, ScanMissesNothing, PTL DEF WalkImplemented

\* Nor did it show an item twice: a page that failed is asked for again with
\* the same cursor, and was not shown before.
THEOREM ListingRepeatsNothing == ItemSpec => []NothingRepeated
  BY WalkRefined, ScanRepeatsNothing, PTL DEF WalkImplemented

----------------------------------------------------------------------------
(* Induction.                                                              *)

\* A set of numbers that holds 0 and, with each number, the next one holds
\* them all: otherwise there would be a least number outside it.
LEMMA SetInduction ==
    ASSUME NEW S, S \subseteq Nat, 0 \in S, \A n \in S : n + 1 \in S
    PROVE  S = Nat
<1> SUFFICES ASSUME Nat \ S # {}
             PROVE  FALSE
  OBVIOUS
<1> DEFINE Less == OpToRel(<, Nat)
<1>1. PICK x \in Nat \ S : \A y \in Nat \ S : <<y, x>> \notin Less
  <2> HIDE DEF Less
  <2> QED
    BY NatLessThanWellFounded, WFMin DEF Less
<1>2. \A y \in Nat \ S : ~(y < x)
  <2> TAKE y \in Nat \ S
  <2>1. <<y, x>> \notin Less
    BY <1>1
  <2> QED
    BY <2>1 DEF OpToRel
<1>3. x - 1 \in Nat /\ x - 1 < x
  OBVIOUS
<1>4. (x - 1) + 1 \in S
  BY <1>2, <1>3
<1> QED
  BY <1>4

\* Every finite set of whole numbers but the empty one has a least element.
LEMMA LeastElement ==
    ASSUME NEW T, T \subseteq Int, IsFiniteSet(T), T # {}
    PROVE  \E e \in T : \A x \in T : e <= x
<1> DEFINE Least(U) == U # {} => \E e \in U : \A x \in U : e <= x
           Small == {n \in Nat : \A U \in SUBSET Int :
                        IsFiniteSet(U) /\ Cardinality(U) = n => Least(U)}
<1>1. 0 \in Small
  BY FS_EmptySet
<1>2. ASSUME NEW n \in Small
      PROVE  n + 1 \in Small
  <2> SUFFICES ASSUME NEW U \in SUBSET Int, IsFiniteSet(U), Cardinality(U) = n + 1, U # {}
               PROVE  \E e \in U : \A x \in U : e <= x
    BY DEF Small
  <2>1. PICK u \in U : TRUE
    OBVIOUS
  <2> DEFINE V == U \ {u}
  <2>2. V \in SUBSET Int /\ IsFiniteSet(V) /\ Cardinality(V) = n
    <3>1. n \in Nat /\ (n + 1) - 1 = n
      OBVIOUS
    <3>2. IsFiniteSet(U \ {u}) /\ Cardinality(U \ {u}) = Cardinality(U) - 1
      BY <2>1, FS_RemoveElement
    <3> QED
      BY <3>1, <3>2
  <2>3. CASE V = {}
    BY <2>3
  <2>4. CASE V # {}
    <3>1. PICK e \in V : \A x \in V : e <= x
      BY <2>2, <2>4
    <3>2. e \in Int /\ u \in Int /\ U = V \cup {u}
      OBVIOUS
    <3>3. CASE e <= u
      BY <3>1, <3>2, <3>3
    <3>4. CASE u <= e
      <4>1. ASSUME NEW x \in V
            PROVE  u <= x
        BY <3>1, <3>2, <3>4
      <4> QED
        BY <3>2, <4>1
    <3> QED
      BY <3>2, <3>3, <3>4
  <2> QED
    BY <2>3, <2>4
<1>3. Small = Nat
  <2> HIDE DEF Small
  <2>1. Small \subseteq Nat
    BY DEF Small
  <2> QED
    BY <1>1, <1>2, <2>1, SetInduction
<1>4. Cardinality(T) \in Nat
  BY FS_CardinalityType
<1> QED
  BY <1>3, <1>4

----------------------------------------------------------------------------
(* Powers of ten.                                                          *)

\* f is PowerOfTen as far as n.
PowersUpTo(f, n) == f[0] = 1 /\ \A k \in 1 .. n : f[k] = 10 * f[k - 1]

\* The recursion can be followed as far as one likes, ...
LEMMA PowersExist == \A n \in Nat : \E f \in [0 .. n -> Nat] : PowersUpTo(f, n)
<1> DEFINE S == {n \in Nat : \E f \in [0 .. n -> Nat] : PowersUpTo(f, n)}
<1>1. 0 \in S
  <2>1. /\ [k \in 0 .. 0 |-> 1] \in [0 .. 0 -> Nat]
        /\ PowersUpTo([k \in 0 .. 0 |-> 1], 0)
    BY DEF PowersUpTo
  <2> QED
    BY <2>1
<1>2. ASSUME NEW n \in S
      PROVE  n + 1 \in S
  <2>1. PICK f \in [0 .. n -> Nat] : PowersUpTo(f, n)
    OBVIOUS
  <2> DEFINE g == [k \in 0 .. n + 1 |-> IF k = n + 1 THEN 10 * f[n] ELSE f[k]]
  <2>2. g \in [0 .. n + 1 -> Nat]
    OBVIOUS
  <2>3. g[0] = 1
    BY <2>1 DEF PowersUpTo
  <2>4. ASSUME NEW k \in 1 .. n + 1
        PROVE  g[k] = 10 * g[k - 1]
    <3>1. CASE k = n + 1
      <4>1. g[k] = 10 * f[n]
        BY <3>1
      <4>2. k - 1 = n /\ n \in 0 .. n + 1 /\ n # n + 1
        BY <3>1
      <4>3. g[n] = f[n]
        BY <4>2
      <4> QED
        BY <4>1, <4>2, <4>3
    <3>2. CASE k # n + 1
      <4>1. k \in 1 .. n /\ k - 1 # n + 1 /\ k - 1 \in 0 .. n + 1 /\ k \in 0 .. n + 1
        BY <3>2
      <4>2. g[k] = f[k] /\ g[k - 1] = f[k - 1]
        BY <3>2, <4>1
      <4> QED
        BY <2>1, <4>1, <4>2 DEF PowersUpTo
    <3> QED
      BY <3>1, <3>2
  <2>5. PowersUpTo(g, n + 1)
    BY <2>3, <2>4 DEF PowersUpTo
  <2> HIDE DEF g
  <2> QED
    BY <2>2, <2>5
<1>3. S = Nat
  <2> HIDE DEF S
  <2>1. S \subseteq Nat
    BY DEF S
  <2> QED
    BY <1>1, <1>2, <2>1, SetInduction
<1> QED
  BY <1>3

\* ... and always in the same way, ...
LEMMA PowersAgree ==
    ASSUME NEW m \in Nat, NEW f \in [0 .. m -> Nat], PowersUpTo(f, m),
           NEW n \in Nat, NEW g \in [0 .. n -> Nat], PowersUpTo(g, n),
           NEW j \in Nat, j <= m, j <= n
    PROVE  f[j] = g[j]
<1> DEFINE S == {k \in Nat : k <= m /\ k <= n => f[k] = g[k]}
<1>1. 0 \in S
  BY DEF PowersUpTo
<1>2. ASSUME NEW k \in S
      PROVE  k + 1 \in S
  <2> SUFFICES ASSUME k + 1 <= m, k + 1 <= n
               PROVE  f[k + 1] = g[k + 1]
    OBVIOUS
  <2>1. k + 1 \in 1 .. m /\ k + 1 \in 1 .. n /\ f[k] = g[k] /\ (k + 1) - 1 = k
    OBVIOUS
  <2> QED
    BY <2>1 DEF PowersUpTo
<1>3. S = Nat
  <2> HIDE DEF S
  <2>1. S \subseteq Nat
    BY DEF S
  <2> QED
    BY <1>1, <1>2, <2>1, SetInduction
<1>4. j \in S
  BY <1>3
<1> QED
  BY <1>4

\* ... so that there is a function PowerOfTen that its definition describes.
LEMMA PowerOfTenDefined ==
    PowerOfTen = [n \in Nat |-> IF n = 0 THEN 1 ELSE 10 * PowerOfTen[n - 1]]
<1> DEFINE F(n) == CHOOSE f \in [0 .. n -> Nat] : PowersUpTo(f, n)
           h == [n \in Nat |-> F(n)[n]]
<1>1. \A n \in Nat : F(n) \in [0 .. n -> Nat] /\ PowersUpTo(F(n), n)
  BY PowersExist
<1>2. \A n \in Nat : h[n] = F(n)[n]
  OBVIOUS
<1>3. ASSUME NEW n \in Nat
      PROVE  h[n] = IF n = 0 THEN 1 ELSE 10 * h[n - 1]
  <2> HIDE DEF F, h
  <2>1. CASE n = 0
    BY <1>1, <1>2, <2>1 DEF PowersUpTo
  <2>2. CASE n # 0
    <3>1. n - 1 \in Nat /\ n - 1 <= n /\ n \in 1 .. n
      BY <2>2
    <3>2. F(n)[n - 1] = F(n - 1)[n - 1]
      <4>1. /\ F(n) \in [0 .. n -> Nat] /\ PowersUpTo(F(n), n)
            /\ F(n - 1) \in [0 .. n - 1 -> Nat] /\ PowersUpTo(F(n - 1), n - 1)
        BY <1>1, <3>1
      <4> QED
        BY <3>1, <4>1, PowersAgree
    <3>3. F(n)[n] = 10 * F(n)[n - 1]
      BY <1>1, <3>1 DEF PowersUpTo
    <3> QED
      BY <1>2, <2>2, <3>1, <3>2, <3>3
  <2> QED
    BY <2>1, <2>2
<1>4. h = [n \in Nat |-> h[n]]
  OBVIOUS
<1>5. h = [n \in Nat |-> IF n = 0 THEN 1 ELSE 10 * h[n - 1]]
  <2> HIDE DEF h
  <2> QED
    BY <1>3, <1>4
<1> HIDE DEF h
<1> QED
  BY <1>5 DEF PowerOfTen

\* The first power of ten, and each from the one before.
LEMMA PowerOfTenStep ==
    /\ PowerOfTen[0] = 1
    /\ \A n \in Nat : PowerOfTen[n + 1] = 10 * PowerOfTen[n]
<1>1. \A n \in Nat : PowerOfTen[n] = IF n = 0 THEN 1 ELSE 10 * PowerOfTen[n - 1]
  BY PowerOfTenDefined
<1>2. ASSUME NEW n \in Nat
      PROVE  PowerOfTen[n + 1] = 10 * PowerOfTen[n]
  <2>1. n + 1 \in Nat /\ n + 1 # 0 /\ (n + 1) - 1 = n
    OBVIOUS
  <2> QED
    BY <1>1, <2>1
<1> QED
  BY <1>1, <1>2

\* Powers of ten are positive.
LEMMA PowerOfTenPositive == \A n \in Nat : PowerOfTen[n] \in Nat \ {0}
<1> DEFINE S == {n \in Nat : PowerOfTen[n] \in Nat \ {0}}
<1>1. 0 \in S /\ \A n \in S : n + 1 \in S
  BY PowerOfTenStep
<1>2. S = Nat
  <2> HIDE DEF S
  <2>1. S \subseteq Nat
    BY DEF S
  <2> QED
    BY <1>1, <2>1, SetInduction
<1> QED
  BY <1>2

\* The exponents of a product add up.
LEMMA PowerOfTenSum ==
    ASSUME NEW m \in Nat, NEW n \in Nat
    PROVE  PowerOfTen[m + n] = PowerOfTen[m] * PowerOfTen[n]
<1> DEFINE S == {k \in Nat : PowerOfTen[k + n] = PowerOfTen[k] * PowerOfTen[n]}
<1>1. 0 \in S
  BY PowerOfTenStep, PowerOfTenPositive
<1>2. ASSUME NEW k \in S
      PROVE  k + 1 \in S
  <2>1. (k + 1) + n = (k + n) + 1 /\ k + n \in Nat
    OBVIOUS
  <2>2. PowerOfTen[(k + 1) + n] = 10 * (PowerOfTen[k] * PowerOfTen[n])
    BY <2>1, PowerOfTenStep
  <2>3. PowerOfTen[k + 1] = 10 * PowerOfTen[k]
    BY PowerOfTenStep
  <2>4. ASSUME NEW a \in Nat, NEW b \in Nat
        PROVE  10 * (a * b) = (10 * a) * b
    OBVIOUS
  <2>5. PowerOfTen[k] \in Nat /\ PowerOfTen[n] \in Nat
    BY PowerOfTenPositive
  <2> QED
    BY <2>2, <2>3, <2>4, <2>5
<1>3. S = Nat
  <2> HIDE DEF S
  <2>1. S \subseteq Nat
    BY DEF S
  <2> QED
    BY <1>1, <1>2, <2>1, SetInduction
<1> QED
  BY <1>3

----------------------------------------------------------------------------
(* Numbers.                                                                *)

\* There is a smallest power of ten in use.
LEMMA SmallestIsSmallest ==
    /\ Smallest \in Int /\ Smallest <= 0
    /\ \A x \in Number : Smallest <= x.exp
<1> DEFINE E == {x.exp : x \in Number}
           T == E \cup {0}
<1>1. T \subseteq Int /\ IsFiniteSet(T) /\ T # {}
  <2> DEFINE f == [x \in Number |-> x.exp]
  <2>1. f \in Surjection(Number, E)
    BY DEF Surjection
  <2>2. IsFiniteSet(E)
    <3> HIDE DEF E, f
    <3> QED
      BY <2>1, NumberAssumption, FS_Surjection
  <2>3. IsFiniteSet(T)
    <3> HIDE DEF E
    <3> QED
      BY <2>2, FS_AddElement
  <2> QED
    BY <2>3, NumberAssumption
<1>2. PICK e \in T : \A x \in T : e <= x
  BY <1>1, LeastElement
<1>3. \E d \in T : d <= 0 /\ \A x \in Number : d <= x.exp
  BY <1>2
<1>4. Smallest \in T /\ Smallest <= 0 /\ \A x \in Number : Smallest <= x.exp
  BY <1>3 DEF Smallest
<1> QED
  BY <1>1, <1>4

\* A whole number is a multiple of one.
LEMMA WholeIsMultiple ==
    ASSUME NEW x \in Number, IsWhole(x)
    PROVE  One \in Nat \ {0} /\ \E k \in Nat : Value(x) = k * One
<1> DEFINE c == x.coef  e == x.exp  s == 0 - Smallest
<1>1. c \in Nat /\ e \in Int /\ s \in Nat /\ e + s \in Nat
  BY NumberAssumption, SmallestIsSmallest
<1>2. Value(x) = c * PowerOfTen[e + s] /\ One = PowerOfTen[s]
  <2>1. e - Smallest = e + s
    BY NumberAssumption, SmallestIsSmallest
  <2> QED
    BY <2>1 DEF Value, One
<1>3. One \in Nat \ {0}
  BY <1>1, <1>2, PowerOfTenPositive
<1>4. ASSUME NEW a \in Nat, NEW b \in Nat, NEW d \in Nat
      PROVE  a * (b * d) = (a * b) * d
  OBVIOUS
<1>5. CASE e >= 0
  <2>1. e \in Nat
    BY <1>1, <1>5
  <2>2. PowerOfTen[e + s] = PowerOfTen[e] * PowerOfTen[s] /\ PowerOfTen[e] \in Nat
    BY <1>1, <2>1, PowerOfTenSum, PowerOfTenPositive
  <2>3. Value(x) = (c * PowerOfTen[e]) * One
    BY <1>1, <1>2, <1>3, <1>4, <2>2
  <2>4. c * PowerOfTen[e] \in Nat
    BY <1>1, <2>2
  <2> QED
    BY <1>3, <2>3, <2>4
<1>6. CASE ~(e >= 0)
  <2>1. 0 - e \in Nat /\ c % PowerOfTen[0 - e] = 0
    BY <1>1, <1>6 DEF IsWhole
  <2> DEFINE p == PowerOfTen[0 - e]
  <2>2. p \in Nat \ {0}
    BY <2>1, PowerOfTenPositive
  <2>3. ASSUME NEW a \in Nat, NEW b \in Nat \ {0}, a % b = 0
        PROVE  a \div b \in Nat /\ a = (a \div b) * b
    BY <2>3
  <2>4. PICK k \in Nat : c = k * p
    BY <1>1, <2>1, <2>2, <2>3
  <2>5. PowerOfTen[s] = p * PowerOfTen[e + s]
    <3>1. (0 - e) + (e + s) = s
      BY <1>1
    <3> QED
      BY <1>1, <2>1, <3>1, PowerOfTenSum
  <2>6. PowerOfTen[e + s] \in Nat
    BY <1>1, PowerOfTenPositive
  <2>7. Value(x) = k * One
    BY <1>2, <1>4, <2>2, <2>4, <2>5, <2>6
  <2> QED
    BY <1>3, <2>7
<1> QED
  BY <1>5, <1>6

\* What comes out of the conversion is what went in.
LEMMA NumberSurvives ==
    ASSUME NEW x \in Number
    PROVE  FromDynamo(x) = Value(x)
<1>1. CASE IsWhole(x)
  <2>1. PICK k \in Nat : Value(x) = k * One /\ One \in Nat \ {0}
    BY <1>1, WholeIsMultiple
  <2>2. ASSUME NEW a \in Nat, NEW b \in Nat \ {0}
        PROVE  (a * b) \div b = a
    OBVIOUS
  <2>3. (k * One) \div One = k
    BY <2>1, <2>2
  <2> QED
    BY <1>1, <2>1, <2>3 DEF FromDynamo
<1>2. CASE ~IsWhole(x)
  BY <1>2 DEF FromDynamo
<1> QED
  BY <1>1, <1>2

----------------------------------------------------------------------------
(* The values of the items.                                                *)

\* list_items shows the numbers that put_item was given, the last ones or
\* those before them: ListedAsPut, for any numbers and any precision of the two
\* decimal contexts.
THEOREM ListingShowsWhatWasPut == ItemSpec => []ListedAsPut
<1>1. ItemInit => ListedAsPut
  BY DEF ItemInit, ListedAsPut
<1>2. Versioned /\ ListedAsPut /\ [ItemNext]_itemVars => ListedAsPut'
  <2> SUFFICES ASSUME Versioned, ListedAsPut, [ItemNext]_itemVars
               PROVE  ListedAsPut'
    OBVIOUS
  <2>1. CASE shown' = {}
    BY <2>1 DEF ListedAsPut
  <2>2. CASE UNCHANGED itemVars
    BY <2>2 DEF itemVars, vars, ListedAsPut, Versions
  <2>3. ASSUME NEW size \in PageSizes, Page(size)
        PROVE  ListedAsPut'
    <3>1. number' = number /\ older' = older
      BY <2>3 DEF Page
    <3>2. PICK scan \in Scan :
             shown' = {<<x, FromDynamo(scan[x])>> :
                          x \in {y \in Rest(Keys(scan)) : y <= after'}}
      BY <2>3 DEF Page
    <3>3. ASSUME NEW x \in Rest(Keys(scan))
          PROVE  /\ scan[x] \in Versions(x) \cap Number
                 /\ FromDynamo(scan[x]) = Value(scan[x])
      <4>1. x \in Key /\ scan[x] # NoNumber /\ scan[x] \in Versions(x)
        BY DEF Rest, Keys, Scan
      <4>2. scan[x] \in Number
        BY <4>1 DEF Versions, Versioned
      <4> QED
        BY <4>1, <4>2, NumberSurvives
    <3>4. ASSUME NEW row \in shown'
          PROVE  \E v \in Versions(row[1]) \cap Number : row[2] = Value(v)
      <4>1. PICK x \in Rest(Keys(scan)) : row = <<x, FromDynamo(scan[x])>>
        BY <3>2
      <4> QED
        BY <3>3, <4>1
    <3> QED
      BY <3>1, <3>4 DEF ListedAsPut, Versions
  <2> QED
    BY <2>1, <2>2, <2>3 DEF ItemNext, RejectItem, Put, Delete, Replicate, Begin, FailPage
<1> QED
  BY <1>1, <1>2, VersionedInvariant, PTL DEF ItemSpec

=============================================================================
