------------------------- MODULE BucketPagingProofs -------------------------
(***************************************************************************)
(* Proofs about BucketPaging, for any set of names, any page sizes and any *)
(* number of changes.                                                      *)
(*                                                                         *)
(* Both bounds rest on one fact about positions: creating or deleting one  *)
(* bucket moves every other bucket by at most one place, so at most one    *)
(* bucket crosses the position the cursor stands at.                       *)
(***************************************************************************)
EXTENDS BucketPaging, FiniteSetTheorems, TLAPS

\* Buckets the walk has gone past without showing them.
Missed == {x \in kept : Rank(x, buckets) < offset /\ x \notin seen}

\* Buckets the walk has shown and will come to again.
Ahead == {x \in buckets : x \in seen /\ Rank(x, buckets) >= offset}

MissedInv ==
    /\ status = "listing" => Cardinality(Missed) <= deletes
    /\ status = "done" => Cardinality(kept \ seen) <= deletes

AheadInv ==
    /\ status = "listing" => repeats + Cardinality(Ahead) <= creates
    /\ repeats <= creates

IInv == TypeOK /\ MissedInv /\ AheadInv

----------------------------------------------------------------------------
(* Positions.                                                              *)

\* Positions among a set of names are natural numbers.
LEMMA RankType ==
    ASSUME NEW S \in SUBSET Name, NEW x \in Nat
    PROVE  /\ IsFiniteSet(S)
           /\ Cardinality(S) \in Nat
           /\ IsFiniteSet({y \in S : y < x})
           /\ Rank(x, S) \in Nat
<1>1. IsFiniteSet(S)
  BY NameAssumption, FS_Subset
<1>2. IsFiniteSet({y \in S : y < x})
  BY <1>1, FS_Subset
<1> QED
  BY <1>1, <1>2, FS_CardinalityType DEF Rank

\* A smaller name has no larger position, and a smaller one if it is a member.
LEMMA RankMonotone ==
    ASSUME NEW S \in SUBSET Name, NEW x \in Nat, NEW z \in Nat, x < z
    PROVE  /\ Rank(x, S) <= Rank(z, S)
           /\ x \in S => Rank(x, S) < Rank(z, S)
<1> DEFINE Below(v) == {y \in S : y < v}
<1>1. /\ S \subseteq Nat
      /\ IsFiniteSet(Below(x)) /\ IsFiniteSet(Below(z))
      /\ Rank(x, S) = Cardinality(Below(x)) /\ Rank(z, S) = Cardinality(Below(z))
      /\ Rank(x, S) \in Nat /\ Rank(z, S) \in Nat
  BY RankType, NameAssumption DEF Rank
<1>2. Below(x) \in SUBSET Below(z)
  <2> SUFFICES ASSUME NEW y \in S, y < x
               PROVE  y < z
    OBVIOUS
  <2>1. y \in Nat
    BY <1>1
  <2> QED
    BY <2>1
<1>3. Rank(x, S) <= Rank(z, S)
  BY <1>1, <1>2, FS_Subset
<1>4. ASSUME x \in S
      PROVE  Rank(x, S) # Rank(z, S)
  <2>1. x \in Below(z) /\ x \notin Below(x)
    BY <1>4
  <2> QED
    BY <1>1, <1>2, <2>1, FS_Subset
<1> QED
  BY <1>1, <1>3, <1>4

\* Different members have different positions.
LEMMA RankInjective ==
    ASSUME NEW S \in SUBSET Name, NEW x \in S, NEW z \in S,
           Rank(x, S) = Rank(z, S)
    PROVE  x = z
<1>1. x \in Nat /\ z \in Nat /\ Rank(x, S) \in Nat /\ Rank(z, S) \in Nat
  BY NameAssumption, RankType
<1>2. ~(x < z) /\ ~(z < x)
  BY <1>1, RankMonotone
<1> QED
  BY <1>1, <1>2

\* A new member moves the larger names up by one place and no others.
LEMMA RankAdd ==
    ASSUME NEW S \in SUBSET Name, NEW y \in Name, y \notin S, NEW x \in Nat
    PROVE  Rank(x, S \cup {y}) = IF y < x THEN Rank(x, S) + 1 ELSE Rank(x, S)
<1> DEFINE Below(T) == {v \in T : v < x}
<1>1. IsFiniteSet(Below(S)) /\ y \notin Below(S)
  BY RankType
<1>2. CASE y < x
  <2>1. Below(S \cup {y}) = Below(S) \cup {y}
    BY <1>2
  <2> QED
    BY <1>1, <1>2, <2>1, FS_AddElement DEF Rank
<1>3. CASE ~(y < x)
  <2>1. Below(S \cup {y}) = Below(S)
    BY <1>3
  <2> QED
    BY <1>3, <2>1 DEF Rank
<1> QED
  BY <1>2, <1>3

\* A member's position is less than the number of members.
LEMMA RankBound ==
    ASSUME NEW S \in SUBSET Name, NEW x \in S
    PROVE  Rank(x, S) < Cardinality(S)
<1> DEFINE Below == {y \in S : y < x}
<1>1. /\ x \in Nat /\ IsFiniteSet(S) /\ Below \in SUBSET S
      /\ Cardinality(S) \in Nat /\ Rank(x, S) \in Nat
  BY NameAssumption, RankType
<1>2. x \notin Below
  BY <1>1
<1>3. Cardinality(Below) <= Cardinality(S) /\ Cardinality(Below) # Cardinality(S)
  BY <1>1, <1>2, FS_Subset
<1> QED
  BY <1>1, <1>3 DEF Rank

\* A finite set that gained at most one member has grown by at most one.
LEMMA OneMore ==
    ASSUME NEW A, NEW B, IsFiniteSet(A), IsFiniteSet(B),
           \A u, v \in B \ A : u = v
    PROVE  Cardinality(B) <= Cardinality(A) + 1
<1>0. Cardinality(A) \in Nat /\ Cardinality(B) \in Nat
  BY FS_CardinalityType
<1>1. CASE B \ A = {}
  <2>1. B \in SUBSET A
    BY <1>1
  <2>2. Cardinality(B) <= Cardinality(A)
    BY <2>1, FS_Subset
  <2> QED
    BY <1>0, <2>2
<1>2. CASE B \ A # {}
  <2>1. PICK u : u \in B \ A
    BY <1>2
  <2>2. B \in SUBSET (A \cup {u})
    BY <2>1
  <2>3. IsFiniteSet(A \cup {u}) /\ Cardinality(A \cup {u}) = Cardinality(A) + 1
    BY <2>1, FS_AddElement
  <2>4. Cardinality(B) <= Cardinality(A \cup {u})
    BY <2>2, <2>3, FS_Subset
  <2> QED
    BY <2>3, <2>4
<1> QED
  BY <1>1, <1>2

----------------------------------------------------------------------------
(* Types.                                                                  *)

\* The sets of buckets the invariants count are finite.
LEMMA Finite ==
    ASSUME TypeOK
    PROVE  /\ IsFiniteSet(Missed) /\ Cardinality(Missed) \in Nat
           /\ IsFiniteSet(Ahead) /\ Cardinality(Ahead) \in Nat
           /\ IsFiniteSet(kept \ seen) /\ Cardinality(kept \ seen) \in Nat
           /\ buckets \in SUBSET Name
<1>1. /\ Missed \in SUBSET Name /\ Ahead \in SUBSET Name
      /\ kept \ seen \in SUBSET Name
  BY DEF Missed, Ahead, TypeOK
<1>2. IsFiniteSet(Missed) /\ IsFiniteSet(Ahead) /\ IsFiniteSet(kept \ seen)
  BY <1>1, NameAssumption, FS_Subset
<1> QED
  BY <1>2, FS_CardinalityType DEF TypeOK

\* Every step keeps the types.
LEMMA NextTyped ==
    ASSUME TypeOK, [Next]_vars
    PROVE  TypeOK'
<1>1. CASE BeginListing
  BY <1>1 DEF BeginListing, TypeOK
<1>2. ASSUME NEW size \in PageSizes, NextPage(size)
      PROVE  TypeOK'
  <2>1. size \in Nat /\ Page(size) \subseteq Name
    BY PageAssumption DEF Page, TypeOK
  <2>2. IsFiniteSet(seen \cap Page(size))
    BY <2>1, NameAssumption, FS_Subset
  <2>3. Cardinality(seen \cap Page(size)) \in Nat
    BY <2>2, FS_CardinalityType
  <2> QED
    BY <1>2, <2>1, <2>3 DEF NextPage, TypeOK
<1>3. ASSUME NEW x \in Name, CreateBucket(x)
      PROVE  TypeOK'
  BY <1>3 DEF CreateBucket, walk, TypeOK
<1>4. ASSUME NEW x \in Name, DeleteBucket(x)
      PROVE  TypeOK'
  BY <1>4 DEF DeleteBucket, walk, TypeOK
<1>5. CASE UNCHANGED vars
  BY <1>5 DEF vars, walk, TypeOK
<1> QED
  BY <1>1, <1>2, <1>3, <1>4, <1>5 DEF Next

----------------------------------------------------------------------------
(* Skips.                                                                  *)

\* A page request passes nothing it does not show.
LEMMA NextPageMisses ==
    ASSUME TypeOK, MissedInv, NEW size \in PageSizes, NextPage(size)
    PROVE  MissedInv'
<1>0. /\ size \in Nat /\ offset \in Nat /\ status = "listing"
      /\ kept' = kept /\ buckets' = buckets /\ deletes' = deletes
      /\ offset' = offset + size /\ seen' = seen \cup Page(size)
      /\ kept \subseteq buckets /\ deletes \in Nat
      /\ status' = IF offset + size < Cardinality(buckets) THEN "listing" ELSE "done"
  BY PageAssumption DEF NextPage, TypeOK
<1>1. /\ \A x \in buckets : Rank(x, buckets) \in Nat
      /\ \A x \in buckets : Rank(x, buckets) < Cardinality(buckets)
      /\ Cardinality(buckets) \in Nat
  BY RankType, RankBound, NameAssumption DEF TypeOK
<1>2. \A x \in kept : Rank(x, buckets) < offset + size /\ x \notin seen' => x \in Missed
  BY <1>0, <1>1 DEF Page, Missed
<1>3. Missed' \in SUBSET Missed
  BY <1>0, <1>2 DEF Missed
<1>4. ASSUME status' = "done"
      PROVE  (kept \ seen)' \in SUBSET Missed
  <2>1. Cardinality(buckets) <= offset + size
    BY <1>0, <1>1, <1>4
  <2>2. \A x \in kept : Rank(x, buckets) < offset + size
    BY <1>0, <1>1, <2>1
  <2> QED
    BY <1>0, <1>2, <2>2
<1>5. Cardinality(Missed) <= deletes /\ IsFiniteSet(Missed) /\ Cardinality(Missed) \in Nat
  BY <1>0, Finite DEF MissedInv
<1>6. /\ IsFiniteSet(Missed') /\ IsFiniteSet((kept \ seen)')
  <2>1. (kept \ seen)' \in SUBSET Name
    BY <1>0 DEF TypeOK
  <2> QED
    BY <1>3, <1>5, <2>1, NameAssumption, FS_Subset
<1>7. /\ Cardinality(Missed') \in Nat /\ Cardinality((kept \ seen)') \in Nat
  BY <1>6, FS_CardinalityType
<1>8. Cardinality(Missed') <= Cardinality(Missed)
  BY <1>3, <1>5, FS_Subset
<1>9. status' = "done" => Cardinality((kept \ seen)') <= Cardinality(Missed)
  BY <1>4, <1>5, FS_Subset
<1> QED
  BY <1>0, <1>5, <1>7, <1>8, <1>9 DEF MissedInv

\* A created bucket only moves others away from the part already passed.
LEMMA CreateMisses ==
    ASSUME TypeOK, MissedInv, NEW y \in Name, CreateBucket(y)
    PROVE  MissedInv'
<1>0. /\ UNCHANGED <<status, offset, seen, kept, deletes>>
      /\ y \notin buckets /\ buckets' = buckets \cup {y}
  BY DEF CreateBucket, walk
<1>1. CASE status = "listing"
  <2>1. \A x \in kept : Rank(x, buckets) \in Nat /\ x \in Nat
    BY RankType, NameAssumption DEF TypeOK
  <2>2. \A x \in kept : Rank(x, buckets) <= Rank(x, buckets')
    BY <1>0, <2>1, RankAdd DEF TypeOK
  <2>3. \A x \in kept : Rank(x, buckets') \in Nat
    <3>1. buckets' \in SUBSET Name
      BY <1>0 DEF TypeOK
    <3> QED
      BY <2>1, <3>1, RankType
  <2>4. Missed' \in SUBSET Missed
    BY <1>0, <2>1, <2>2, <2>3 DEF Missed, TypeOK
  <2>5. IsFiniteSet(Missed) /\ Cardinality(Missed) \in Nat
    BY Finite
  <2>6. IsFiniteSet(Missed') /\ Cardinality(Missed') <= Cardinality(Missed)
    BY <2>4, <2>5, FS_Subset
  <2>7. Cardinality(Missed') \in Nat
    BY <2>6, FS_CardinalityType
  <2> QED
    BY <1>0, <1>1, <2>5, <2>6, <2>7 DEF MissedInv, TypeOK
<1>2. CASE status # "listing"
  BY <1>0, <1>2 DEF MissedInv
<1> QED
  BY <1>1, <1>2

\* A deleted bucket lets at most one other slip behind the cursor: the one
\* that stood exactly there.
LEMMA DeleteMisses ==
    ASSUME TypeOK, MissedInv, NEW y \in Name, DeleteBucket(y)
    PROVE  MissedInv'
<1>0. /\ UNCHANGED <<status, offset, seen>>
      /\ y \in buckets /\ buckets' = buckets \ {y}
  BY DEF DeleteBucket, walk
<1>1. CASE status = "listing"
  <2>0. kept' = kept \ {y} /\ deletes' = deletes + 1
    BY <1>1 DEF DeleteBucket
  <2>1. /\ \A x \in kept : Rank(x, buckets) \in Nat /\ x \in Nat
        /\ buckets' \in SUBSET Name
    BY <1>0, RankType, NameAssumption DEF TypeOK
  <2>2. \A x \in kept : Rank(x, buckets') \in Nat
    BY <2>1, RankType
  <2>3. buckets' \cup {y} = buckets /\ y \notin buckets'
    BY <1>0
  <2>4. \A x \in kept : Rank(x, buckets)
            = IF y < x THEN Rank(x, buckets') + 1 ELSE Rank(x, buckets')
    BY <2>1, <2>3, RankAdd
  <2>5. \A x \in Missed' \ Missed : x \in buckets /\ Rank(x, buckets) = offset
    BY <1>0, <1>1, <2>0, <2>1, <2>2, <2>4 DEF Missed, TypeOK
  <2>6. \A u, v \in Missed' \ Missed : u = v
    BY <2>5, RankInjective DEF TypeOK
  <2>7. IsFiniteSet(Missed) /\ Cardinality(Missed) \in Nat
    BY Finite
  <2>8. Missed' \in SUBSET Name
    BY <2>0 DEF Missed, TypeOK
  <2>9. IsFiniteSet(Missed')
    BY <2>8, NameAssumption, FS_Subset
  <2>10. Cardinality(Missed') \in Nat
    BY <2>9, FS_CardinalityType
  <2>11. Cardinality(Missed') <= Cardinality(Missed) + 1
    BY <2>6, <2>7, <2>9, OneMore
  <2> QED
    BY <1>0, <1>1, <2>0, <2>7, <2>10, <2>11 DEF MissedInv, TypeOK
<1>2. CASE status # "listing"
  BY <1>0, <1>2 DEF DeleteBucket, MissedInv
<1> QED
  BY <1>1, <1>2

----------------------------------------------------------------------------
(* Repeats.                                                                *)

\* What a page request shows again was ahead before and is behind after.
LEMMA NextPageRepeats ==
    ASSUME TypeOK, AheadInv, NEW size \in PageSizes, NextPage(size)
    PROVE  AheadInv'
<1> DEFINE again == seen \cap Page(size)
<1>0. /\ size \in Nat /\ offset \in Nat /\ status = "listing"
      /\ buckets' = buckets /\ creates' = creates
      /\ offset' = offset + size /\ seen' = seen \cup Page(size)
      /\ repeats' = repeats + Cardinality(again)
      /\ repeats \in Nat /\ creates \in Nat
  BY PageAssumption DEF NextPage, TypeOK
<1>1. \A x \in buckets : Rank(x, buckets) \in Nat
  BY RankType, NameAssumption DEF TypeOK
<1>2. again \in SUBSET Ahead
  BY <1>0, <1>1 DEF Page, Ahead
<1>3. Ahead' \in SUBSET (Ahead \ again)
  BY <1>0, <1>1 DEF Page, Ahead
<1>4. IsFiniteSet(Ahead) /\ Cardinality(Ahead) \in Nat
  BY Finite
<1>5. /\ IsFiniteSet(again) /\ Ahead \cap again = again
      /\ IsFiniteSet(Ahead \ again)
      /\ Cardinality(Ahead \ again) = Cardinality(Ahead) - Cardinality(again)
  <2>1. IsFiniteSet(again)
    BY <1>2, <1>4, FS_Subset
  <2>2. Ahead \cap again = again
    BY <1>2
  <2>3. /\ IsFiniteSet(Ahead \ again)
        /\ Cardinality(Ahead \ again) = Cardinality(Ahead) - Cardinality(Ahead \cap again)
    BY <1>4, FS_Difference
  <2> HIDE DEF again
  <2> QED
    BY <2>1, <2>2, <2>3
<1>6. IsFiniteSet(Ahead') /\ Cardinality(Ahead') <= Cardinality(Ahead \ again)
  BY <1>3, <1>5, FS_Subset
<1>7. Cardinality(Ahead') \in Nat /\ Cardinality(again) \in Nat
  BY <1>5, <1>6, FS_CardinalityType
<1>8. repeats + Cardinality(Ahead) <= creates
  BY <1>0 DEF AheadInv
<1> HIDE DEF again
<1>9. repeats' + Cardinality(Ahead') <= creates'
  BY <1>0, <1>4, <1>5, <1>6, <1>7, <1>8
<1> QED
  BY <1>0, <1>7, <1>9 DEF AheadInv

\* A created bucket puts at most one shown bucket ahead again: itself, or the
\* one just behind the cursor.
LEMMA CreateRepeats ==
    ASSUME TypeOK, AheadInv, NEW y \in Name, CreateBucket(y)
    PROVE  AheadInv'
<1>0. /\ UNCHANGED <<status, offset, seen, repeats>>
      /\ y \notin buckets /\ buckets' = buckets \cup {y}
      /\ buckets \in SUBSET Name /\ buckets' \in SUBSET Name
      /\ offset \in Nat /\ repeats \in Nat /\ creates \in Nat
  BY DEF CreateBucket, walk, TypeOK
<1>1. CASE status = "listing"
  <2>0. creates' = creates + 1
    BY <1>1 DEF CreateBucket
  <2>1. \A x \in buckets' : /\ x \in Nat
                            /\ Rank(x, buckets) \in Nat
                            /\ Rank(x, buckets') \in Nat
    BY <1>0, RankType, NameAssumption
  <2>2. \A x \in buckets' : Rank(x, buckets')
            = IF y < x THEN Rank(x, buckets) + 1 ELSE Rank(x, buckets)
    BY <1>0, <2>1, RankAdd
  <2>3. \A x \in Ahead' \ Ahead :
           \/ x = y /\ Rank(y, buckets) >= offset
           \/ x \in buckets /\ y < x /\ Rank(x, buckets) = offset - 1
    <3> TAKE x \in Ahead' \ Ahead
    <3>1. x \in buckets' /\ x \in seen /\ Rank(x, buckets') >= offset
      BY <1>0 DEF Ahead
    <3>2. y \in Nat
      BY NameAssumption
    <3>3. CASE x = y
      BY <2>2, <3>1, <3>2, <3>3
    <3>4. CASE x # y
      <4>1. x \in buckets /\ ~(Rank(x, buckets) >= offset)
        BY <1>0, <3>1, <3>4 DEF Ahead
      <4> QED
        <5>1. Rank(x, buckets) \in Nat /\ Rank(x, buckets) < offset
          BY <1>0, <2>1, <3>1, <4>1
        <5>2. y < x /\ Rank(x, buckets') = Rank(x, buckets) + 1
          BY <1>0, <2>2, <3>1, <5>1
        <5> QED
          BY <1>0, <3>1, <4>1, <5>1, <5>2
    <3> QED
      BY <3>3, <3>4
  <2>4. \A x \in buckets : y < x => Rank(y, buckets) <= Rank(x, buckets)
    BY <1>0, <2>1, RankMonotone
  <2>5. \A u, v \in Ahead' \ Ahead : u = v
    <3> TAKE u, v \in Ahead' \ Ahead
    <3>1. CASE u \in buckets /\ v \in buckets
      <4>1. Rank(u, buckets) = Rank(v, buckets)
        BY <1>0, <2>3, <3>1
      <4> QED
        BY <1>0, <3>1, <4>1, RankInjective
    <3>2. CASE u \notin buckets \/ v \notin buckets
      <4>1. ASSUME NEW p \in Ahead' \ Ahead, NEW q \in Ahead' \ Ahead,
                   p \notin buckets, q # p
            PROVE  FALSE
        <5>1. p = y /\ Rank(y, buckets) >= offset
          BY <2>3, <4>1
        <5>2. q \in buckets /\ y < q /\ Rank(q, buckets) = offset - 1
          BY <2>3, <4>1, <5>1
        <5>3. Rank(y, buckets) <= Rank(q, buckets)
          BY <2>4, <5>2
        <5>4. Rank(y, buckets) \in Nat /\ Rank(q, buckets) \in Nat
          BY <1>0, <2>1, <5>2
        <5> QED
          BY <1>0, <5>1, <5>2, <5>3, <5>4
      <4> QED
        BY <3>2, <4>1
    <3> QED
      BY <3>1, <3>2
  <2>6. IsFiniteSet(Ahead) /\ Cardinality(Ahead) \in Nat
    BY Finite
  <2>7. Ahead' \in SUBSET Name
    BY <1>0 DEF Ahead
  <2>8. IsFiniteSet(Ahead')
    BY <2>7, NameAssumption, FS_Subset
  <2>9. Cardinality(Ahead') \in Nat /\ Cardinality(Ahead') <= Cardinality(Ahead) + 1
    BY <2>5, <2>6, <2>8, OneMore, FS_CardinalityType
  <2>10. repeats + Cardinality(Ahead) <= creates /\ repeats <= creates
    BY <1>1 DEF AheadInv
  <2>11. repeats' + Cardinality(Ahead') <= creates'
    BY <1>0, <2>0, <2>6, <2>9, <2>10
  <2>12. repeats' <= creates'
    BY <1>0, <2>0, <2>10
  <2> QED
    BY <2>11, <2>12 DEF AheadInv
<1>2. CASE status # "listing"
  BY <1>0, <1>2 DEF CreateBucket, AheadInv
<1> QED
  BY <1>1, <1>2

\* A deleted bucket only moves others away from the part still to come.
LEMMA DeleteRepeats ==
    ASSUME TypeOK, AheadInv, NEW y \in Name, DeleteBucket(y)
    PROVE  AheadInv'
<1>0. /\ UNCHANGED <<status, offset, seen, repeats, creates>>
      /\ y \in buckets /\ buckets' = buckets \ {y}
      /\ buckets \in SUBSET Name /\ buckets' \in SUBSET Name
      /\ offset \in Nat /\ repeats \in Nat /\ creates \in Nat
  BY DEF DeleteBucket, walk, TypeOK
<1>1. \A x \in buckets : /\ x \in Nat
                         /\ Rank(x, buckets) \in Nat
                         /\ Rank(x, buckets') \in Nat
  BY <1>0, RankType, NameAssumption
<1>2. buckets' \cup {y} = buckets /\ y \notin buckets'
  BY <1>0
<1>3. \A x \in buckets : Rank(x, buckets)
          = IF y < x THEN Rank(x, buckets') + 1 ELSE Rank(x, buckets')
  BY <1>0, <1>1, <1>2, RankAdd
<1>4. Ahead' \in SUBSET Ahead
  BY <1>0, <1>1, <1>3 DEF Ahead
<1>5. IsFiniteSet(Ahead) /\ Cardinality(Ahead) \in Nat
  BY Finite
<1>6. IsFiniteSet(Ahead') /\ Cardinality(Ahead') <= Cardinality(Ahead)
  BY <1>4, <1>5, FS_Subset
<1>7. Cardinality(Ahead') \in Nat
  BY <1>6, FS_CardinalityType
<1> QED
  BY <1>0, <1>5, <1>6, <1>7 DEF AheadInv

----------------------------------------------------------------------------
(* The theorems.                                                           *)

\* A walk that has just begun has passed nothing and shown nothing.
LEMMA BeginInv ==
    ASSUME TypeOK, BeginListing
    PROVE  MissedInv' /\ AheadInv'
<1>1. /\ status' = "listing" /\ offset' = 0 /\ seen' = {} /\ repeats' = 0
      /\ creates' = 0 /\ deletes' = 0 /\ buckets' = buckets /\ kept' = buckets
  BY DEF BeginListing
<1>2. \A x \in buckets : Rank(x, buckets) \in Nat
  BY RankType, NameAssumption DEF TypeOK
<1>3. Missed' = {} /\ Ahead' = {}
  BY <1>1, <1>2 DEF Missed, Ahead
<1> QED
  BY <1>1, <1>3, FS_EmptySet DEF MissedInv, AheadInv

\* The inductive invariant of a walk.
THEOREM Invariance == Spec => []IInv
<1>1. Init => IInv
  BY DEF Init, IInv, TypeOK, MissedInv, AheadInv
<1>2. ASSUME IInv, [Next]_vars
      PROVE  IInv'
  <2>0. TypeOK /\ MissedInv /\ AheadInv /\ TypeOK'
    BY <1>2, NextTyped DEF IInv
  <2>1. CASE BeginListing
    BY <2>0, <2>1, BeginInv DEF IInv
  <2>2. ASSUME NEW size \in PageSizes, NextPage(size)
        PROVE  IInv'
    BY <2>0, <2>2, NextPageMisses, NextPageRepeats DEF IInv
  <2>3. ASSUME NEW x \in Name, CreateBucket(x)
        PROVE  IInv'
    BY <2>0, <2>3, CreateMisses, CreateRepeats DEF IInv
  <2>4. ASSUME NEW x \in Name, DeleteBucket(x)
        PROVE  IInv'
    BY <2>0, <2>4, DeleteMisses, DeleteRepeats DEF IInv
  <2>5. CASE UNCHANGED vars
    BY <2>0, <2>5 DEF vars, walk, IInv, MissedInv, AheadInv, Missed, Ahead
  <2> QED
    BY <1>2, <2>1, <2>2, <2>3, <2>4, <2>5 DEF Next
<1> QED
  BY <1>1, <1>2, PTL DEF Spec

\* A walk skips at most one bucket for each bucket deleted during it.
THEOREM SkipsBounded == Spec => []SkipsBoundedByDeletes
<1>1. IInv => SkipsBoundedByDeletes
  BY DEF IInv, MissedInv, SkipsBoundedByDeletes
<1> QED
  BY <1>1, Invariance, PTL

\* A walk repeats at most one bucket for each bucket created during it.
THEOREM RepeatsBounded == Spec => []RepeatsBoundedByCreates
<1>1. IInv => RepeatsBoundedByCreates
  BY DEF IInv, AheadInv, RepeatsBoundedByCreates
<1> QED
  BY <1>1, Invariance, PTL

=============================================================================
