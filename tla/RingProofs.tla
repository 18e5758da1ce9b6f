----------------------------- MODULE RingProofs -----------------------------
(***************************************************************************)
(* Proofs about Ring, for any set of nodes and any size of the key space.  *)
(* MapsAgree is inductive together with the types of the two maps.  What   *)
(* find_nodes_for_key finds is characterized by the least element of a set *)
(* of starts; where it finds three replicas, a join displaces one of them  *)
(* at most, and two quorums drawn from three replicas meet.                *)
(***************************************************************************)
EXTENDS Ring, FiniteSetTheorems, SequenceTheorems, WellFoundedInduction, TLAPS

MapTypes ==
  /\ Starts \subseteq Keys /\ Members \subseteq NodeIds
  /\ byRange \in [Starts -> NodeIds] /\ byId \in [Members -> Keys]

RingInv == MapTypes /\ MapsAgree

LEMMA AddNodeKeepsInv ==
  ASSUME RingInv, NEW n \in NodeIds, NEW start \in Keys, add_node(n, start)
  PROVE  RingInv'
<1>1. /\ n \notin Members /\ start \notin Starts
      /\ byRange' = [s \in Starts \cup {start} |-> IF s = start THEN n ELSE byRange[s]]
      /\ byId' = [m \in Members \cup {n} |-> IF m = n THEN start ELSE byId[m]]
  BY DEF add_node
<1>2. Starts' = Starts \cup {start} /\ Members' = Members \cup {n}
  BY <1>1 DEF Starts, Members
<1>3. \A s \in Starts : byRange[s] \in NodeIds
  BY DEF RingInv, MapTypes
<1>4. \A m \in Members : byId[m] \in Keys
  BY DEF RingInv, MapTypes
<1>5. byRange' \in [Starts' -> NodeIds]
  BY <1>1, <1>2, <1>3
<1>6. byId' \in [Members' -> Keys]
  BY <1>1, <1>2, <1>4
<1>7. MapTypes'
  BY <1>2, <1>5, <1>6 DEF RingInv, MapTypes
<1>8. /\ \A s \in Starts : byRange'[s] = byRange[s]
      /\ \A m \in Members : byId'[m] = byId[m]
      /\ byRange'[start] = n /\ byId'[n] = start
  BY <1>1
<1>9. MapsAgree'
  BY <1>1, <1>2, <1>8 DEF RingInv, MapsAgree
<1> QED
  BY <1>7, <1>9 DEF RingInv

LEMMA RingInvInductive == RingInv /\ [Next]_vars => RingInv'
<1> SUFFICES ASSUME RingInv, [Next]_vars PROVE RingInv'
  OBVIOUS
<1>1. ASSUME byRange' = byRange, byId' = byId PROVE RingInv'
  BY <1>1 DEF RingInv, MapTypes, MapsAgree, Starts, Members
<1>2. ASSUME NEW n \in NodeIds, NEW start \in Keys, add_node(n, start) PROVE RingInv'
  BY <1>2, AddNodeKeepsInv
<1>3. ASSUME NEW n \in NodeIds, set_failed(n) \/ Interpret(n) PROVE RingInv'
  BY <1>1, <1>3 DEF set_failed, Interpret
<1>4. ASSUME NEW key \in Asked, NEW p \in Shuffles, find_quorum_for_operation(key, p) PROVE RingInv'
  BY <1>1, <1>4 DEF find_quorum_for_operation
<1>5. CASE UNCHANGED vars
  BY <1>1, <1>5 DEF vars
<1> QED
  BY <1>2, <1>3, <1>4, <1>5 DEF Next

(***************************************************************************)
(* However nodes join and fail, _ring_by_range and _nodes_by_id stay       *)
(* inverse to each other: add_node changes both or, after a conflict,      *)
(* neither.                                                                *)
(***************************************************************************)
THEOREM MapsStayInverse == Spec => []MapsAgree
<1>1. Init => RingInv
  BY DEF Init, Empty, RingInv, MapTypes, MapsAgree, Starts, Members
<1>2. RingInv => MapsAgree
  BY DEF RingInv
<1> QED
  BY <1>1, <1>2, RingInvInductive, PTL DEF Spec
-----------------------------------------------------------------------------
(***************************************************************************)
(* Least and greatest elements of sets of ranges.                          *)
(***************************************************************************)
LEMMA MinimalElement ==
  ASSUME NEW N, NEW S, S \subseteq N, S # {}, NEW R, IsWellFoundedOn(R, N)
  PROVE  \E x \in S : \A y \in S : ~(<<y, x>> \in R)
BY WFMin

LEMMA LeastElement ==
  ASSUME NEW S, S \subseteq Nat, S # {}
  PROVE  \E x \in S : \A y \in S : x <= y
<1> DEFINE R == OpToRel(<, Nat)
<1>1. IsWellFoundedOn(R, Nat)
  BY Zenon, NatLessThanWellFounded
<1>2. \A x, y \in Nat : x < y => <<x, y>> \in R
  BY DEF OpToRel
<1> HIDE DEF R
<1>3. \E x \in S : \A y \in S : ~(<<y, x>> \in R)
  BY Zenon, <1>1, MinimalElement
<1> PICK x \in S : \A y \in S : ~(<<y, x>> \in R)
  BY Zenon, <1>3
<1>4. ASSUME NEW y \in S PROVE x <= y
  <2>1. x \in Nat /\ y \in Nat
    OBVIOUS
  <2>2. ~(y < x)
    BY <1>2, <1>3, <2>1, Zenon
  <2> QED
    BY <2>1, <2>2
<1> QED
  BY <1>4

LEMMA MinIsLeast ==
  ASSUME NEW S, S \subseteq Keys, S # {}
  PROVE  Min(S) \in S /\ \A y \in S : Min(S) <= y
<1>1. S \subseteq Nat
  BY RingAssumption DEF Keys
<1>2. \E x \in S : \A y \in S : x <= y
  BY Zenon, <1>1, LeastElement
<1> QED
  BY <1>2 DEF Min

LEMMA MaxIsGreatest ==
  ASSUME NEW S, S \subseteq Keys, S # {}
  PROVE  Max(S) \in S /\ \A y \in S : y <= Max(S)
<1> DEFINE Below == {KeySpace - 1 - s : s \in S}
<1>1. Below \subseteq Nat /\ Below # {}
  <2>1. \A s \in S : KeySpace - 1 - s \in Nat
    BY RingAssumption DEF Keys
  <2> QED
    BY <2>1
<1>2. PICK b \in Below : \A c \in Below : b <= c
  BY Zenon, <1>1, LeastElement
<1>3. PICK x \in S : b = KeySpace - 1 - x
  BY <1>2
<1>4. ASSUME NEW y \in S PROVE y <= x
  <2>1. b <= KeySpace - 1 - y
    BY <1>2
  <2> QED
    BY <1>3, <2>1, RingAssumption DEF Keys
<1>5. \E m \in S : \A y \in S : y <= m
  BY <1>4
<1> QED
  BY <1>5 DEF Max

(***************************************************************************)
(* What the three searches return, in terms of the order of the ranges.    *)
(***************************************************************************)
IsSecondary(starts, key, s) ==
  /\ s \in starts
  /\ \/ s > key /\ \A t \in starts : t > key => s <= t
     \/ \A t \in starts : t <= key /\ s <= t

IsPrimary(starts, s, p) ==
  /\ p \in starts
  /\ \/ p < s /\ \A t \in starts : t < s => t <= p
     \/ \A t \in starts : s <= t /\ t <= p

IsTertiary(starts, s, u) ==
  /\ u \in starts
  /\ \/ u > s /\ \A t \in starts : t > s => u <= t
     \/ \A t \in starts : t <= s /\ u <= t

LEMMA SecondaryFound ==
  ASSUME NEW starts, starts \subseteq Keys, starts # {}, NEW key \in Keys
  PROVE  IsSecondary(starts, key, find_secondary_node(starts, key))
<1> DEFINE above == {s \in starts : s > key}
<1>1. above \subseteq Keys
  OBVIOUS
<1>2. CASE above = {}
  <2>1. \A t \in starts : t <= key
    BY <1>2, RingAssumption DEF Keys
  <2>2. find_secondary_node(starts, key) = Min(starts)
    BY <1>2 DEF find_secondary_node, begin
  <2> QED
    BY <2>1, <2>2, MinIsLeast DEF IsSecondary
<1>3. CASE above # {}
  <2>1. find_secondary_node(starts, key) = Min(above)
    BY <1>3 DEF find_secondary_node
  <2>2. Min(above) \in above /\ \A y \in above : Min(above) <= y
    BY <1>1, <1>3, MinIsLeast
  <2> QED
    BY <2>1, <2>2 DEF IsSecondary
<1> QED
  BY <1>2, <1>3

LEMMA TertiaryFound ==
  ASSUME NEW starts, starts \subseteq Keys, starts # {}, NEW s \in starts
  PROVE  IsTertiary(starts, s, find_tertiary_node(starts, s))
<1>1. s \in Keys
  OBVIOUS
<1>2. find_tertiary_node(starts, s) = find_secondary_node(starts, s)
  BY DEF find_tertiary_node, find_secondary_node
<1>3. IsSecondary(starts, s, find_secondary_node(starts, s))
  BY <1>1, SecondaryFound
<1> QED
  BY <1>2, <1>3 DEF IsTertiary, IsSecondary

LEMMA PrimaryFound ==
  ASSUME NEW starts, starts \subseteq Keys, starts # {}, NEW s \in starts
  PROVE  IsPrimary(starts, s, find_primary_node(starts, s))
<1> DEFINE below == {t \in starts : t < s}
<1>1. CASE s = Min(starts)
  <2>1. find_primary_node(starts, s) = Max(starts)
    BY <1>1 DEF find_primary_node, begin
  <2> QED
    BY <1>1, <2>1, MinIsLeast, MaxIsGreatest DEF IsPrimary
<1>2. CASE s # Min(starts)
  <2>1. find_primary_node(starts, s) = Max(below)
    BY <1>2 DEF find_primary_node, begin
  <2>2. Min(starts) \in below
    <3> DEFINE m == Min(starts)
    <3>1. m \in starts /\ m <= s
      BY MinIsLeast
    <3> HIDE DEF m
    <3>2. m # s => m < s
      BY <3>1, RingAssumption DEF Keys
    <3> QED
      BY <1>2, <3>1, <3>2 DEF m
  <2>3. below \subseteq Keys /\ below # {}
    BY <2>2
  <2>4. Max(below) \in below /\ \A y \in below : y <= Max(below)
    BY <2>3, MaxIsGreatest
  <2> QED
    BY <2>1, <2>4 DEF IsPrimary
<1> QED
  BY <1>1, <1>2

LEMMA StartsFound ==
  ASSUME NEW starts, starts \subseteq Keys, starts # {}, NEW key \in Keys
  PROVE  LET at == find_starts_for_key(starts, key) IN
         /\ at = <<at[1], at[2], at[3]>>
         /\ at[1] \in starts /\ at[2] \in starts /\ at[3] \in starts
         /\ IsPrimary(starts, at[2], at[1])
         /\ IsSecondary(starts, key, at[2])
         /\ IsTertiary(starts, at[2], at[3])
<1> DEFINE s == find_secondary_node(starts, key)
<1>1. s \in starts /\ IsSecondary(starts, key, s)
  BY Zenon, SecondaryFound DEF IsSecondary
<1>2. IsPrimary(starts, s, find_primary_node(starts, s))
  BY <1>1, PrimaryFound
<1>3. IsTertiary(starts, s, find_tertiary_node(starts, s))
  BY <1>1, TertiaryFound
<1>4. find_primary_node(starts, s) \in starts /\ find_tertiary_node(starts, s) \in starts
  BY <1>2, <1>3 DEF IsPrimary, IsTertiary
<1> HIDE DEF s
<1>5. find_starts_for_key(starts, key) = <<find_primary_node(starts, s), s, find_tertiary_node(starts, s)>>
  BY DEF find_starts_for_key, s
<1> QED
  BY <1>1, <1>2, <1>3, <1>4, <1>5

(***************************************************************************)
(* Distances on the ring, without the modulus.                             *)
(***************************************************************************)
LEMMA DistanceIs ==
  ASSUME NEW from \in 0 .. KeySpace, NEW to \in Keys
  PROVE  Distance(from, to) = IF to >= from THEN to - from ELSE to - from + KeySpace
<1>1. ASSUME NEW x \in 0 .. KeySpace - 1 PROVE x % KeySpace = x
  BY RingAssumption
<1>2. ASSUME NEW x \in -KeySpace .. -1 PROVE x % KeySpace = x + KeySpace
  BY RingAssumption
<1>3. CASE to >= from
  <2>1. to - from \in 0 .. KeySpace - 1
    BY <1>3, RingAssumption DEF Keys
  <2> QED
    BY <1>1, <1>3, <2>1 DEF Distance
<1>4. CASE ~(to >= from)
  <2>1. to - from \in -KeySpace .. -1
    BY <1>4, RingAssumption DEF Keys
  <2> QED
    BY <1>2, <1>4, <2>1 DEF Distance
<1> QED
  BY <1>3, <1>4

LEMMA RingPlacement ==
  ASSUME NEW starts, starts \subseteq Keys, starts # {}, NEW key \in Keys,
         NEW p \in starts, NEW s \in starts, NEW u \in starts,
         IsPrimary(starts, s, p), IsSecondary(starts, key, s), IsTertiary(starts, s, u),
         NEW t \in starts
  PROVE  /\ Distance(p, key) <= Distance(t, key)
         /\ Distance(key + 1, s) <= Distance(key + 1, t)
         /\ Distance(s + 1, u) <= Distance(s + 1, t)
<1> USE RingAssumption DEF Keys
<1>1. /\ p \in 0 .. KeySpace /\ t \in 0 .. KeySpace
      /\ key + 1 \in 0 .. KeySpace /\ s + 1 \in 0 .. KeySpace
  OBVIOUS
<1>2. Distance(p, key) <= Distance(t, key)
  <2>1. /\ Distance(p, key) = IF key >= p THEN key - p ELSE key - p + KeySpace
        /\ Distance(t, key) = IF key >= t THEN key - t ELSE key - t + KeySpace
    BY <1>1, DistanceIs
  <2> QED
    BY <2>1 DEF IsPrimary, IsSecondary
<1>3. Distance(key + 1, s) <= Distance(key + 1, t)
  <2>1. /\ Distance(key + 1, s) = IF s >= key + 1 THEN s - (key + 1) ELSE s - (key + 1) + KeySpace
        /\ Distance(key + 1, t) = IF t >= key + 1 THEN t - (key + 1) ELSE t - (key + 1) + KeySpace
    BY <1>1, DistanceIs
  <2> QED
    BY <2>1 DEF IsSecondary
<1>4. Distance(s + 1, u) <= Distance(s + 1, t)
  <2>1. /\ Distance(s + 1, u) = IF u >= s + 1 THEN u - (s + 1) ELSE u - (s + 1) + KeySpace
        /\ Distance(s + 1, t) = IF t >= s + 1 THEN t - (s + 1) ELSE t - (s + 1) + KeySpace
    BY <1>1, DistanceIs
  <2> QED
    BY <2>1 DEF IsTertiary
<1> QED
  BY <1>2, <1>3, <1>4

(***************************************************************************)
(* find_nodes_for_key places every key by the order of the ring: the       *)
(* primary is the last node at or before the key, the secondary and the    *)
(* tertiary are the two nodes that follow, around the end of the key space *)
(* too, for any number of nodes and any size of the key space.             *)
(***************************************************************************)
THEOREM KeysArePlaced == Spec => []PlacementFollowsRing
<1>1. Init => RingInv
  BY DEF Init, Empty, RingInv, MapTypes, MapsAgree, Starts, Members
<1>2. RingInv => PlacementFollowsRing
  <2> SUFFICES ASSUME RingInv, NEW key \in Keys, Starts # {}
               PROVE  LET at == find_starts_for_key(Starts, key)
                          Nearest(s, after) ==
                            /\ s \in Starts
                            /\ \A t \in Starts : Distance(after + 1, s) <= Distance(after + 1, t)
                      IN  /\ at[1] \in Starts
                          /\ \A t \in Starts : Distance(at[1], key) <= Distance(t, key)
                          /\ Nearest(at[2], key)
                          /\ Nearest(at[3], at[2])
    BY DEF PlacementFollowsRing
  <2> DEFINE at == find_starts_for_key(Starts, key)
  <2>1. Starts \subseteq Keys
    BY DEF RingInv, MapTypes
  <2>2. /\ at[1] \in Starts /\ at[2] \in Starts /\ at[3] \in Starts
        /\ IsPrimary(Starts, at[2], at[1])
        /\ IsSecondary(Starts, key, at[2])
        /\ IsTertiary(Starts, at[2], at[3])
    BY <2>1, StartsFound
  <2> HIDE DEF at
  <2>3. ASSUME NEW t \in Starts
        PROVE  /\ Distance(at[1], key) <= Distance(t, key)
               /\ Distance(key + 1, at[2]) <= Distance(key + 1, t)
               /\ Distance(at[2] + 1, at[3]) <= Distance(at[2] + 1, t)
    BY <2>1, <2>2, RingPlacement
  <2> QED
    BY <2>2, <2>3 DEF at
<1> QED
  BY <1>1, <1>2, RingInvInductive, PTL DEF Spec
-----------------------------------------------------------------------------
(***************************************************************************)
(* Sets of three elements or more, and of two.                             *)
(***************************************************************************)
LEMMA ThreeElements ==
  ASSUME NEW S, IsFiniteSet(S), Cardinality(S) >= 3
  PROVE  \E a, b, c \in S : a # b /\ a # c /\ b # c
<1>1. ASSUME NEW T, IsFiniteSet(T), NEW n \in Nat, Cardinality(T) > n
      PROVE  \E x \in T : IsFiniteSet(T \ {x}) /\ Cardinality(T \ {x}) > n - 1
  <2>1. T # {}
    BY <1>1, FS_EmptySet
  <2>2. PICK x \in T : TRUE
    BY <2>1
  <2>3. IsFiniteSet(T \ {x}) /\ Cardinality(T \ {x}) = Cardinality(T) - 1
    BY <1>1, <2>2, FS_RemoveElement
  <2>4. Cardinality(T) \in Nat
    BY <1>1, FS_CardinalityType
  <2> QED
    BY <1>1, <2>2, <2>3, <2>4
<1>0. Cardinality(S) \in Nat
  BY FS_CardinalityType
<1>2. PICK a \in S : IsFiniteSet(S \ {a}) /\ Cardinality(S \ {a}) > 1
  BY <1>0, <1>1
<1>3. PICK b \in S \ {a} : IsFiniteSet((S \ {a}) \ {b}) /\ Cardinality((S \ {a}) \ {b}) > 0
  BY <1>1, <1>2
<1>4. PICK c \in (S \ {a}) \ {b} : TRUE
  BY <1>1, <1>3
<1> QED
  BY <1>2, <1>3, <1>4

LEMMA PairCardinality ==
  ASSUME NEW x, NEW y, x # y
  PROVE  IsFiniteSet({x, y}) /\ Cardinality({x, y}) = 2
<1>1. IsFiniteSet({x}) /\ Cardinality({x}) = 1
  BY FS_Singleton
<1>2. IsFiniteSet({x} \cup {y}) /\ Cardinality({x} \cup {y}) = 1 + 1
  BY <1>1, FS_AddElement
<1>3. {x} \cup {y} = {x, y}
  OBVIOUS
<1> QED
  BY <1>2, <1>3

LEMMA TripleCardinality ==
  ASSUME NEW x, NEW y, NEW z
  PROVE  IsFiniteSet({x, y, z}) /\ Cardinality({x, y, z}) <= 3
<1>1. IsFiniteSet({x}) /\ Cardinality({x}) = 1
  BY FS_Singleton
<1>2. IsFiniteSet({x} \cup {y}) /\ Cardinality({x} \cup {y}) \in {1, 2}
  BY <1>1, FS_AddElement
<1>3. /\ IsFiniteSet(({x} \cup {y}) \cup {z})
      /\ Cardinality(({x} \cup {y}) \cup {z}) \in {1, 2, 3}
  BY <1>2, FS_AddElement
<1>4. ({x} \cup {y}) \cup {z} = {x, y, z}
  OBVIOUS
<1> QED
  BY <1>3, <1>4

LEMMA TwoInCommon ==
  ASSUME NEW S, IsFiniteSet(S), NEW x \in S, NEW y \in S, x # y
  PROVE  Cardinality(S) >= 2
<1>1. {x, y} \in SUBSET S
  OBVIOUS
<1>2. Cardinality({x, y}) <= Cardinality(S)
  BY <1>1, FS_Subset
<1> QED
  BY Zenon, <1>2, PairCardinality

(***************************************************************************)
(* The three nodes of a key.                                               *)
(***************************************************************************)
LEMMA StartsDiffer ==
  ASSUME NEW starts, starts \subseteq Keys, IsFiniteSet(starts), Cardinality(starts) >= 3,
         NEW key \in Keys, NEW p \in starts, NEW s \in starts, NEW u \in starts,
         IsPrimary(starts, s, p), IsTertiary(starts, s, u)
  PROVE  p # s /\ p # u /\ s # u
<1>1. PICK a, b, c \in starts : a # b /\ a # c /\ b # c
  BY ThreeElements
<1> QED
  BY <1>1, RingAssumption DEF IsPrimary, IsTertiary, Keys

LEMMA StartsFinite ==
  ASSUME NEW starts, starts \subseteq Keys
  PROVE  IsFiniteSet(starts)
<1>1. IsFiniteSet(Keys)
  BY FS_Interval, RingAssumption DEF Keys
<1> QED
  BY <1>1, FS_Subset

LEMMA NodesOfKey ==
  ASSUME NEW ring, NEW key
  PROVE  LET at == find_starts_for_key(DOMAIN ring, key) IN
         /\ find_nodes_for_key(ring, key) = <<ring[at[1]], ring[at[2]], ring[at[3]]>>
         /\ Range(find_nodes_for_key(ring, key)) = {ring[at[1]], ring[at[2]], ring[at[3]]}
<1>1. ASSUME NEW x, NEW y, NEW z PROVE Range(<<x, y, z>>) = {x, y, z}
  BY DEF Range
<1> QED
  BY <1>1 DEF find_nodes_for_key

LEMMA ReplicasDiffer ==
  ASSUME RingInv, Cardinality(Starts) >= 3, NEW key \in Keys
  PROVE  \E a, b, c \in NodeIds :
           /\ find_nodes_for_key(byRange, key) = <<a, b, c>>
           /\ a # b /\ a # c /\ b # c
<1> DEFINE at == find_starts_for_key(Starts, key)
<1>1. /\ Starts \subseteq Keys /\ Starts = DOMAIN byRange
      /\ \A s \in Starts : byRange[s] \in NodeIds /\ byId[byRange[s]] = s
  BY DEF RingInv, MapTypes, MapsAgree, Starts
<1>2. IsFiniteSet(Starts)
  BY <1>1, StartsFinite
<1>3. Starts # {}
  BY <1>2, FS_EmptySet
<1>4. /\ at[1] \in Starts /\ at[2] \in Starts /\ at[3] \in Starts
      /\ IsPrimary(Starts, at[2], at[1]) /\ IsTertiary(Starts, at[2], at[3])
  BY <1>1, <1>3, StartsFound
<1>5. find_nodes_for_key(byRange, key) = <<byRange[at[1]], byRange[at[2]], byRange[at[3]]>>
  BY <1>1, NodesOfKey
<1> HIDE DEF at
<1>6. at[1] # at[2] /\ at[1] # at[3] /\ at[2] # at[3]
  BY <1>1, <1>2, <1>4, StartsDiffer
<1> QED
  BY <1>1, <1>4, <1>5, <1>6

(***************************************************************************)
(* The loop over the nodes that are up, and the removal of repeated ones.  *)
(***************************************************************************)
LEMMA UpNodesAre ==
  ASSUME NEW x, NEW y, NEW z
  PROVE  UpNodes(<<x, y, z>>) =
           IF is_alive(x)
           THEN IF is_alive(y) THEN IF is_alive(z) THEN <<x, y, z>> ELSE <<x, y>>
                ELSE IF is_alive(z) THEN <<x, z>> ELSE <<x>>
           ELSE IF is_alive(y) THEN IF is_alive(z) THEN <<y, z>> ELSE <<y>>
                ELSE IF is_alive(z) THEN <<z>> ELSE <<>>
<1>1. \A a : Append(<<>>, a) = <<a>>
  OBVIOUS
<1>2. ASSUME NEW a, NEW b PROVE Append(<<a>>, b) = <<a, b>>
  <2>1. <<a>> \in Seq({a, b}) /\ <<a, b>> \in Seq({a, b}) /\ Len(<<a>>) = 1
    OBVIOUS
  <2>2. /\ Append(<<a>>, b) \in Seq({a, b}) /\ Len(Append(<<a>>, b)) = 2
        /\ Append(<<a>>, b)[1] = a /\ Append(<<a>>, b)[2] = b
    BY <2>1, AppendProperties
  <2> DEFINE app == Append(<<a>>, b)
             two == <<a, b>>
  <2> HIDE DEF app
  <2>3. Len(app) = Len(two) /\ \A i \in 1 .. Len(app) : app[i] = two[i]
    BY <2>2 DEF app
  <2> HIDE DEF two
  <2>4. app = two
    BY Zenon, <2>1, <2>2, <2>3, SeqEqual DEF app, two
  <2> QED
    BY <2>4 DEF app, two
<1>3. Append(<<x, y>>, z) = <<x, y, z>>
  <2>1. <<x, y>> \in Seq({x, y, z}) /\ <<x, y, z>> \in Seq({x, y, z}) /\ Len(<<x, y>>) = 2
    OBVIOUS
  <2>2. /\ Append(<<x, y>>, z) \in Seq({x, y, z}) /\ Len(Append(<<x, y>>, z)) = 3
        /\ Append(<<x, y>>, z)[1] = x /\ Append(<<x, y>>, z)[2] = y /\ Append(<<x, y>>, z)[3] = z
    BY <2>1, AppendProperties
  <2> DEFINE app == Append(<<x, y>>, z)
             three == <<x, y, z>>
  <2> HIDE DEF app
  <2>3. Len(app) = Len(three) /\ \A i \in 1 .. Len(app) : app[i] = three[i]
    BY <2>2 DEF app
  <2> HIDE DEF three
  <2>4. app = three
    BY Zenon, <2>1, <2>2, <2>3, SeqEqual DEF app, three
  <2> QED
    BY <2>4 DEF app, three
<1>4. UpNodes(<<x, y, z>>) = AddIfAlive(AddIfAlive(AddIfAlive(<<>>, x), y), z)
  BY DEF UpNodes
<1> QED
  BY Zenon, <1>1, <1>2, <1>3, <1>4 DEF AddIfAlive

LEMMA QuorumOfThree ==
  ASSUME NEW x \in NodeIds, NEW y \in NodeIds, NEW z \in NodeIds, x # y, x # z, y # z,
         \/ is_alive(x) /\ is_alive(y)
         \/ is_alive(x) /\ is_alive(z)
         \/ is_alive(y) /\ is_alive(z)
  PROVE  LET q == Compress(OutNodes(<<x, y, z>>)) IN
         /\ q[1] # Null /\ q[2] # Null
         /\ \A i, j \in 1 .. 3 : i # j => q[i] # q[j]
         /\ Range(q) \ {Null} = {n \in {x, y, z} : is_alive(n)}
<1> DEFINE q == Compress(OutNodes(<<x, y, z>>))
<1>1. x # Null /\ y # Null /\ z # Null
  BY RingAssumption
<1>2. ASSUME NEW a, NEW b, NEW c PROVE Range(<<a, b, c>>) = {a, b, c}
  BY DEF Range
<1>3. ASSUME NEW a, NEW b, a # b, a # Null, b # Null
      PROVE  Compress(<<a, b, Null>>) = <<a, b, Null>>
  BY <1>3 DEF Compress
<1>4. ASSUME NEW a, NEW b, UpNodes(<<x, y, z>>) = <<a, b>>
      PROVE  OutNodes(<<x, y, z>>) = <<a, b, Null>>
  BY <1>4 DEF OutNodes
<1>5. CASE is_alive(x) /\ is_alive(y) /\ is_alive(z)
  <2>1. UpNodes(<<x, y, z>>) = <<x, y, z>>
    BY Zenon, <1>5, UpNodesAre
  <2>0. OutNodes(<<x, y, z>>) = <<x, y, z>>
    BY <2>1 DEF OutNodes
  <2>2. q = <<x, y, z>>
    BY <2>0 DEF Compress
  <2> QED
    BY <1>1, <1>2, <1>5, <2>2
<1>6. CASE is_alive(x) /\ is_alive(y) /\ ~is_alive(z)
  <2>1. q = <<x, y, Null>>
    BY Zenon, <1>1, <1>3, <1>4, <1>6, UpNodesAre
  <2> QED
    BY <1>1, <1>2, <1>6, <2>1
<1>7. CASE is_alive(x) /\ ~is_alive(y) /\ is_alive(z)
  <2>1. q = <<x, z, Null>>
    BY Zenon, <1>1, <1>3, <1>4, <1>7, UpNodesAre
  <2> QED
    BY <1>1, <1>2, <1>7, <2>1
<1>8. CASE ~is_alive(x) /\ is_alive(y) /\ is_alive(z)
  <2>1. q = <<y, z, Null>>
    BY Zenon, <1>1, <1>3, <1>4, <1>8, UpNodesAre
  <2> QED
    BY <1>1, <1>2, <1>8, <2>1
<1> QED
  BY <1>5, <1>6, <1>7, <1>8

(***************************************************************************)
(* In a ring of three nodes or more, whatever the shuffle does and         *)
(* whichever nodes are down, find_quorum_for_operation returns exactly the *)
(* replicas that are up, each once, and two of them in front.              *)
(***************************************************************************)
THEOREM QuorumsAreUsable == Spec => []QuorumIsUsable
<1>1. Init => RingInv
  BY DEF Init, Empty, RingInv, MapTypes, MapsAgree, Starts, Members
<1>2. RingInv => QuorumIsUsable
  <2> SUFFICES ASSUME RingInv, Cardinality(Starts) >= 3, NEW key \in Asked, ~Unavailable(key),
                      NEW p \in Shuffles
               PROVE  LET up == {n \in Range(find_nodes_for_key(byRange, key)) : is_alive(n)}
                          q == Quorum(key, p)
                      IN  /\ q[1] # Null /\ q[2] # Null
                          /\ \A i, j \in 1 .. 3 : i # j => q[i] # q[j]
                          /\ Range(q) \ {Null} = up
    BY DEF QuorumIsUsable
  <2>1. key \in Keys
    BY RingAssumption DEF Keys
  <2>2. PICK a, b, c \in NodeIds : /\ find_nodes_for_key(byRange, key) = <<a, b, c>>
                                   /\ a # b /\ a # c /\ b # c
    BY <2>1, ReplicasDiffer
  <2> DEFINE nodes == <<a, b, c>>
             x == nodes[p[1]]
             y == nodes[p[2]]
             z == nodes[p[3]]
  <2>3. /\ p[1] \in {1, 2, 3} /\ p[2] \in {1, 2, 3} /\ p[3] \in {1, 2, 3}
        /\ p[1] # p[2] /\ p[1] # p[3] /\ p[2] # p[3]
    BY DEF Shuffles
  <2>4. nodes[1] = a /\ nodes[2] = b /\ nodes[3] = c
    OBVIOUS
  <2>5. x \in NodeIds /\ y \in NodeIds /\ z \in NodeIds /\ x # y /\ x # z /\ y # z
    BY <2>2, <2>3, <2>4
  <2>6. {x, y, z} = {a, b, c}
    BY <2>3, <2>4
  <2>7. \/ is_alive(a) /\ is_alive(b)
        \/ is_alive(a) /\ is_alive(c)
        \/ is_alive(b) /\ is_alive(c)
    <3>1. ~(Len(UpNodes(nodes)) < 2)
      BY <2>2 DEF Unavailable
    <3>2. Len(<<>>) < 2 /\ \A n : Len(<<n>>) < 2
      OBVIOUS
    <3>3. UpNodes(nodes) # <<>> /\ \A n : UpNodes(nodes) # <<n>>
      BY <3>1, <3>2, Zenon
    <3> QED
      BY ZenonT(30), <3>3, UpNodesAre
  <2>8. \/ is_alive(x) /\ is_alive(y)
        \/ is_alive(x) /\ is_alive(z)
        \/ is_alive(y) /\ is_alive(z)
    BY <2>3, <2>4, <2>7
  <2>9. Quorum(key, p) = Compress(OutNodes(<<x, y, z>>))
    BY <2>2 DEF Quorum
  <2>10. Range(find_nodes_for_key(byRange, key)) = {a, b, c}
    BY <2>2 DEF Range
  <2> HIDE DEF x, y, z
  <2> QED
    BY <2>5, <2>6, <2>8, <2>9, <2>10, QuorumOfThree
<1> QED
  BY <1>1, <1>2, RingInvInductive, PTL DEF Spec
-----------------------------------------------------------------------------
LEMMA JoinKeepsTwoStarts ==
  ASSUME NEW starts, starts \subseteq Keys, IsFiniteSet(starts), Cardinality(starts) >= 3,
         NEW x \in Keys, x \notin starts, NEW key \in Keys,
         NEW p \in starts, NEW s \in starts, NEW u \in starts,
         IsPrimary(starts, s, p), IsSecondary(starts, key, s), IsTertiary(starts, s, u),
         NEW p2, NEW s2, NEW u2,
         IsPrimary(starts \cup {x}, s2, p2), IsSecondary(starts \cup {x}, key, s2),
         IsTertiary(starts \cup {x}, s2, u2)
  PROVE  \E v, w \in {p, s, u} : v # w /\ v \in {p2, s2, u2} /\ w \in {p2, s2, u2}
<1>1. p # s /\ p # u /\ s # u
  BY StartsDiffer
<1>2. /\ p2 \in starts \cup {x} /\ s2 \in starts \cup {x} /\ u2 \in starts \cup {x}
  BY DEF IsPrimary, IsSecondary, IsTertiary
<1>3. CASE s2 = x
  <2>1. p2 = p
    BY <1>1, <1>2, <1>3, RingAssumption DEF IsPrimary, IsSecondary, IsTertiary, Keys
  <2>2. u2 = s
    BY <1>1, <1>2, <1>3, RingAssumption DEF IsPrimary, IsSecondary, IsTertiary, Keys
  <2> QED
    BY <1>1, <2>1, <2>2
<1>4. CASE s2 # x
  <2>1. s2 = s
    BY <1>1, <1>2, <1>4, RingAssumption DEF IsSecondary, Keys
  <2>2. p2 = p \/ u2 = u
    BY <1>1, <1>2, <1>4, <2>1, RingAssumption DEF IsPrimary, IsTertiary, Keys
  <2> QED
    BY <1>1, <2>1, <2>2
<1> QED
  BY <1>3, <1>4

LEMMA JoinKeepsTwoNodes ==
  ASSUME RingInv, Cardinality(Starts) >= 3, NEW n \in NodeIds, NEW start \in Keys,
         add_node(n, start), NEW key \in Keys
  PROVE  Cardinality(Range(find_nodes_for_key(byRange, key))
                       \cap Range(find_nodes_for_key(byRange', key))) >= 2
<1> DEFINE at == find_starts_for_key(Starts, key)
           at2 == find_starts_for_key(Starts \cup {start}, key)
           old == Range(find_nodes_for_key(byRange, key))
           new == Range(find_nodes_for_key(byRange', key))
<1>1. /\ start \notin Starts
      /\ byRange' = [s \in Starts \cup {start} |-> IF s = start THEN n ELSE byRange[s]]
  BY DEF add_node
<1>2. /\ DOMAIN byRange = Starts /\ DOMAIN byRange' = Starts \cup {start}
      /\ \A s \in Starts : byRange'[s] = byRange[s]
  BY <1>1 DEF Starts
<1>3. /\ Starts \subseteq Keys
      /\ \A s \in Starts : byId[byRange[s]] = s
  BY DEF RingInv, MapTypes, MapsAgree
<1>4. IsFiniteSet(Starts)
  BY <1>3, StartsFinite
<1>5. Starts # {}
  BY <1>4, FS_EmptySet
<1>6. Starts \cup {start} \subseteq Keys /\ Starts \cup {start} # {}
  BY <1>3
<1>7. /\ at[1] \in Starts /\ at[2] \in Starts /\ at[3] \in Starts
      /\ IsPrimary(Starts, at[2], at[1])
      /\ IsSecondary(Starts, key, at[2])
      /\ IsTertiary(Starts, at[2], at[3])
  BY <1>3, <1>5, StartsFound
<1>8. /\ IsPrimary(Starts \cup {start}, at2[2], at2[1])
      /\ IsSecondary(Starts \cup {start}, key, at2[2])
      /\ IsTertiary(Starts \cup {start}, at2[2], at2[3])
  BY <1>6, StartsFound
<1>9. old = {byRange[at[1]], byRange[at[2]], byRange[at[3]]}
  BY <1>2, NodesOfKey
<1>10. new = {byRange'[at2[1]], byRange'[at2[2]], byRange'[at2[3]]}
  BY SMTT(30), <1>2, NodesOfKey
<1> HIDE DEF at, at2, old, new
<1>11. PICK v, w \in {at[1], at[2], at[3]} :
         v # w /\ v \in {at2[1], at2[2], at2[3]} /\ w \in {at2[1], at2[2], at2[3]}
  BY SMTT(30), <1>1, <1>3, <1>4, <1>7, <1>8, JoinKeepsTwoStarts
<1>12. v \in Starts /\ w \in Starts
  BY <1>7, <1>11
<1>13. byRange[v] # byRange[w]
  BY <1>3, <1>11, <1>12
<1>14. byRange[v] \in old \cap new /\ byRange[w] \in old \cap new
  BY Zenon, <1>2, <1>9, <1>10, <1>11, <1>12
<1>15. IsFiniteSet(old \cap new)
  BY Zenon, <1>9, TripleCardinality, FS_Intersection
<1> QED
  BY <1>13, <1>14, <1>15, TwoInCommon DEF old, new

(***************************************************************************)
(* A node that joins a ring of three or more replaces at most one of the   *)
(* three replicas of any key, wherever its range starts.                   *)
(***************************************************************************)
THEOREM JoinsMoveOneReplica == Spec => JoinMovesOneReplica
<1> DEFINE Moves == byRange' # byRange /\ Cardinality(Starts) >= 3 => \A key \in Keys :
                      Cardinality(Range(find_nodes_for_key(byRange, key))
                                    \cap Range(find_nodes_for_key(byRange', key))) >= 2
<1>1. Init => RingInv
  BY DEF Init, Empty, RingInv, MapTypes, MapsAgree, Starts, Members
<1>2. RingInv /\ [Next]_vars => [Moves]_vars
  <2> SUFFICES ASSUME RingInv, Next, byRange' # byRange, Cardinality(Starts) >= 3, NEW key \in Keys
               PROVE  Cardinality(Range(find_nodes_for_key(byRange, key))
                                    \cap Range(find_nodes_for_key(byRange', key))) >= 2
    OBVIOUS
  <2>1. PICK n \in NodeIds, start \in Keys : add_node(n, start)
    BY Zenon DEF Next, set_failed, Interpret, find_quorum_for_operation
  <2> QED
    BY <2>1, JoinKeepsTwoNodes
<1>3. [][Moves]_vars => JoinMovesOneReplica
  BY PTL DEF JoinMovesOneReplica
<1> QED
  BY <1>1, <1>2, <1>3, RingInvInductive, PTL DEF Spec
-----------------------------------------------------------------------------
(***************************************************************************)
(* What was returned for a key since the last join are replicas of the key.*)
(***************************************************************************)
Replicas(key) == IF Starts = {} THEN {} ELSE Range(find_nodes_for_key(byRange, key))

GrantedInv ==
  /\ DOMAIN granted = Asked
  /\ \A key \in Asked : granted[key] \subseteq Replicas(key)

LEMMA AtMostThreeReplicas ==
  ASSUME NEW key
  PROVE  IsFiniteSet(Replicas(key)) /\ Cardinality(Replicas(key)) <= 3
<1>1. CASE Starts = {}
  BY <1>1, FS_EmptySet DEF Replicas
<1>2. CASE Starts # {}
  <2> DEFINE at == find_starts_for_key(DOMAIN byRange, key)
  <2>1. Replicas(key) = {byRange[at[1]], byRange[at[2]], byRange[at[3]]}
    BY <1>2, NodesOfKey DEF Replicas
  <2> DEFINE b == byRange[at[1]]
             c == byRange[at[2]]
             d == byRange[at[3]]
  <2> HIDE DEF at, b, c, d
  <2>2. IsFiniteSet({b, c, d}) /\ Cardinality({b, c, d}) <= 3
    BY Zenon, TripleCardinality
  <2> QED
    BY <2>1, <2>2 DEF b, c, d
<1> QED
  BY <1>1, <1>2

LEMMA QuorumWithin ==
  ASSUME NEW x, NEW y, NEW z
  PROVE  Range(Compress(OutNodes(<<x, y, z>>))) \subseteq {x, y, z, Null}
<1> DEFINE up == UpNodes(<<x, y, z>>)
           out == OutNodes(<<x, y, z>>)
<1>1. Len(up) \in Nat /\ \A i \in 1 .. Len(up) : up[i] \in {x, y, z}
  <2>1. \/ up = <<x, y, z>>
        \/ up = <<x, y>> \/ up = <<x, z>> \/ up = <<y, z>>
        \/ up = <<x>> \/ up = <<y>> \/ up = <<z>> \/ up = <<>>
    BY Zenon, UpNodesAre
  <2> HIDE DEF up
  <2>2. ASSUME NEW a \in {x, y, z}, NEW b \in {x, y, z}, up = <<a, b>> \/ up = <<a>> \/ up = <<>>
        PROVE  Len(up) \in Nat /\ \A i \in 1 .. Len(up) : up[i] \in {x, y, z}
    BY <2>2
  <2>3. CASE up = <<x, y, z>>
    BY <2>3
  <2> QED
    BY <2>1, <2>2, <2>3
<1>2. out = [i \in 1 .. 3 |-> IF i <= Len(up) THEN up[i] ELSE Null]
  BY DEF OutNodes
<1> HIDE DEF up, out
<1>3. /\ out[1] \in {x, y, z, Null} /\ out[2] \in {x, y, z, Null} /\ out[3] \in {x, y, z, Null}
  BY SMTT(30), <1>1, <1>2
<1>4. \E a, b, c \in {x, y, z, Null} : Compress(out) = <<a, b, c>>
  BY <1>3 DEF Compress
<1>5. PICK a, b, c \in {x, y, z, Null} : Compress(out) = <<a, b, c>>
  BY <1>4
<1>6. Range(<<a, b, c>>) = {a, b, c}
  BY DEF Range
<1> QED
  BY <1>5, <1>6 DEF out

LEMMA QuorumsAreReplicas ==
  ASSUME NEW key \in Asked, NEW p \in Shuffles, Starts # {}
  PROVE  Range(Quorum(key, p)) \ {Null} \subseteq Replicas(key)
<1> DEFINE nodes == find_nodes_for_key(byRange, key)
<1>1. PICK a, b, c : nodes = <<a, b, c>>
  BY DEF find_nodes_for_key
<1>2. Replicas(key) = {a, b, c}
  BY <1>1 DEF Replicas, Range
<1>3. p[1] \in {1, 2, 3} /\ p[2] \in {1, 2, 3} /\ p[3] \in {1, 2, 3}
  BY DEF Shuffles
<1>4. nodes[p[1]] \in {a, b, c} /\ nodes[p[2]] \in {a, b, c} /\ nodes[p[3]] \in {a, b, c}
  BY <1>1, <1>3
<1>5. Quorum(key, p) = Compress(OutNodes(<<nodes[p[1]], nodes[p[2]], nodes[p[3]]>>))
  BY DEF Quorum
<1> HIDE DEF nodes
<1> QED
  BY <1>2, <1>4, <1>5, QuorumWithin

LEMMA GrantedInvInductive == GrantedInv /\ [Next]_vars => GrantedInv'
<1> SUFFICES ASSUME GrantedInv, [Next]_vars PROVE GrantedInv'
  OBVIOUS
<1>1. ASSUME byRange' = byRange, granted' = granted PROVE GrantedInv'
  BY <1>1 DEF GrantedInv, Replicas, Starts, find_nodes_for_key
<1>2. ASSUME NEW n \in NodeIds, NEW start \in Keys, add_node(n, start) PROVE GrantedInv'
  BY <1>2 DEF add_node, GrantedInv
<1>3. ASSUME NEW n \in NodeIds, set_failed(n) \/ Interpret(n) PROVE GrantedInv'
  BY <1>1, <1>3 DEF set_failed, Interpret
<1>4. ASSUME NEW key \in Asked, NEW p \in Shuffles, find_quorum_for_operation(key, p)
      PROVE  GrantedInv'
  <2>1. /\ Starts # {} /\ byRange' = byRange
        /\ granted' = [granted EXCEPT ![key] = Range(Quorum(key, p)) \ {Null}]
    BY <1>4 DEF find_quorum_for_operation, Unavailable
  <2>2. Range(Quorum(key, p)) \ {Null} \subseteq Replicas(key)
    BY <2>1, QuorumsAreReplicas
  <2>3. \A k \in Asked : Replicas(k)' = Replicas(k)
    BY <2>1 DEF Replicas, Starts, find_nodes_for_key
  <2>4. DOMAIN granted' = Asked
    BY <2>1 DEF GrantedInv
  <2>5. \A k \in Asked : granted'[k] \subseteq Replicas(k)
    BY <2>1, <2>2 DEF GrantedInv
  <2> QED
    BY <2>3, <2>4, <2>5 DEF GrantedInv
<1>5. CASE UNCHANGED vars
  BY <1>1, <1>5 DEF vars
<1> QED
  BY <1>2, <1>3, <1>4, <1>5 DEF Next

(***************************************************************************)
(* While no node joins, two nodes of one quorum and two of a later one for *)
(* the same key have a node in common, however nodes failed and came back  *)
(* in between: three replicas are chosen before any of them is left out.   *)
(***************************************************************************)
THEOREM QuorumsMeet == Spec => SuccessiveQuorumsMeet
<1> DEFINE Meet == granted' # granted => \A key \in Asked :
                     \A q \in Majorities(granted[key]), r \in Majorities(granted'[key]) :
                       q \cap r # {}
<1>1. Init => GrantedInv
  BY DEF Init, GrantedInv
<1>2. GrantedInv /\ [Next]_vars => [Meet]_vars
  <2> SUFFICES ASSUME GrantedInv, Next, granted' # granted, NEW key \in Asked,
                      NEW q \in Majorities(granted[key]), NEW r \in Majorities(granted'[key])
               PROVE  q \cap r # {}
    OBVIOUS
  <2>1. ASSUME NEW n \in NodeIds, NEW start \in Keys, add_node(n, start) PROVE FALSE
    <3>1. granted'[key] = {}
      BY <2>1 DEF add_node
    <3>2. r = {} /\ Cardinality(r) = 2
      BY <3>1 DEF Majorities
    <3> QED
      BY <3>2, FS_EmptySet
  <2>2. byRange' = byRange
    BY Zenon, <2>1 DEF Next, set_failed, Interpret, find_quorum_for_operation
  <2>3. GrantedInv'
    BY GrantedInvInductive
  <2>4. granted[key] \subseteq Replicas(key) /\ granted'[key] \subseteq Replicas(key)
    BY <2>2, <2>3 DEF GrantedInv, Replicas, Starts, find_nodes_for_key
  <2>5. IsFiniteSet(Replicas(key)) /\ Cardinality(Replicas(key)) <= 3
    BY AtMostThreeReplicas
  <2>6. Cardinality(Replicas(key)) \in Nat
    BY <2>5, FS_CardinalityType
  <2>7. /\ q \subseteq Replicas(key) /\ r \subseteq Replicas(key)
        /\ Cardinality(q) = 2 /\ Cardinality(r) = 2
    BY <2>4 DEF Majorities
  <2>8. Cardinality(q) + Cardinality(r) > Cardinality(Replicas(key))
    BY <2>5, <2>6, <2>7
  <2> QED
    BY <2>5, <2>7, <2>8, FS_MajoritiesIntersect
<1>3. [][Meet]_vars => SuccessiveQuorumsMeet
  BY PTL DEF SuccessiveQuorumsMeet
<1> QED
  BY <1>1, <1>2, <1>3, GrantedInvInductive, PTL DEF Spec
=============================================================================
