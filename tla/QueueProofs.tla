------------------------------ MODULE QueueProofs ------------------------------
(***************************************************************************)
(* What a mailbox holds when a message has been taken from it or put into   *)
(* it, and how many messages of a kind: lemmas that CardProofs, LobbyProofs  *)
(* and SessionProofs rest on.                                              *)
(***************************************************************************)
EXTENDS Integers, Sequences, FiniteSets, FiniteSetTheorems, TLAPS

LEMMA FirstTaken ==
  ASSUME NEW S, NEW q \in Seq(S), q # <<>>
  PROVE  /\ Head(q) = q[1] /\ Head(q) \in S /\ Len(q) \in Nat /\ 1 \in 1 .. Len(q)
         /\ Tail(q) \in Seq(S) /\ Len(Tail(q)) = Len(q) - 1
         /\ \A i \in 1 .. Len(Tail(q)) : i + 1 \in 1 .. Len(q) /\ Tail(q)[i] = q[i + 1]
         /\ \A i \in 1 .. Len(q) :
              i = 1 \/ (i - 1 \in 1 .. Len(Tail(q)) /\ Tail(q)[i - 1] = q[i])
  OBVIOUS

LEMMA LastSent ==
  ASSUME NEW S, NEW q \in Seq(S), NEW m \in S
  PROVE  /\ Append(q, m) \in Seq(S) /\ Len(Append(q, m)) = Len(q) + 1 /\ Len(q) \in Nat
         /\ Append(q, m)[Len(q) + 1] = m /\ Len(q) + 1 \in 1 .. Len(Append(q, m))
         /\ \A i \in 1 .. Len(q) :
              i \in 1 .. Len(Append(q, m)) /\ Append(q, m)[i] = q[i] /\ i # Len(q) + 1
         /\ \A i \in 1 .. Len(Append(q, m)) : i \in 1 .. Len(q) \/ i = Len(q) + 1
  OBVIOUS

-------------------------------------------------------------------------------
(* Counting in a mailbox: its places with a message of S.                    *)

PlacesOf(q, S) == {i \in DOMAIN q : q[i] \in S}

LEMMA PlacesFinite ==
  ASSUME NEW M, NEW q \in Seq(M), NEW S
  PROVE  /\ IsFiniteSet(PlacesOf(q, S)) /\ Cardinality(PlacesOf(q, S)) \in Nat
         /\ Cardinality(PlacesOf(q, S)) = 0 <=> \A i \in DOMAIN q : q[i] \notin S
<1>1. DOMAIN q = 1 .. Len(q) /\ Len(q) \in Nat
  OBVIOUS
<1>2. IsFiniteSet(1 .. Len(q))
  BY <1>1, FS_Interval
<1>3. PlacesOf(q, S) \in SUBSET (1 .. Len(q))
  BY <1>1 DEF PlacesOf
<1>4. IsFiniteSet(PlacesOf(q, S))
  BY <1>2, <1>3, FS_Subset
<1>5. Cardinality(PlacesOf(q, S)) = 0 <=> PlacesOf(q, S) = {}
  BY <1>4, FS_EmptySet
<1> QED  BY <1>4, <1>5, FS_CardinalityType DEF PlacesOf

LEMMA PlacesAppend ==
  ASSUME NEW M, NEW q \in Seq(M), NEW m \in M, NEW S
  PROVE  Cardinality(PlacesOf(Append(q, m), S)) =
           Cardinality(PlacesOf(q, S)) + (IF m \in S THEN 1 ELSE 0)
<1> DEFINE r == Append(q, m)
           n == Len(q) + 1
<1>1. /\ r \in Seq(M) /\ DOMAIN q = 1 .. Len(q) /\ DOMAIN r = 1 .. n
      /\ Len(q) \in Nat /\ r[n] = m /\ n \notin 1 .. Len(q)
      /\ \A i \in 1 .. Len(q) : i \in 1 .. n /\ r[i] = q[i]
      /\ \A i \in 1 .. n : i \in 1 .. Len(q) \/ i = n
      /\ n \in 1 .. n
  OBVIOUS
<1> HIDE DEF r, n
<1>2. PlacesOf(r, S) = PlacesOf(q, S) \cup (IF m \in S THEN {n} ELSE {})
  BY <1>1 DEF PlacesOf
<1>3. n \notin PlacesOf(q, S)
  BY <1>1 DEF PlacesOf
<1>4. IsFiniteSet(PlacesOf(q, S)) /\ Cardinality(PlacesOf(q, S)) \in Nat
  BY PlacesFinite
<1>5. CASE m \in S
  <2>1. PlacesOf(r, S) = PlacesOf(q, S) \cup {n}
    BY <1>2, <1>5
  <2> QED  BY <2>1, <1>3, <1>4, <1>5, FS_AddElement DEF r
<1>6. CASE m \notin S
  <2>1. PlacesOf(r, S) = PlacesOf(q, S)
    BY <1>2, <1>6
  <2> QED  BY <2>1, <1>4, <1>6 DEF r
<1> QED  BY <1>5, <1>6

LEMMA PlacesTail ==
  ASSUME NEW M, NEW q \in Seq(M), q # <<>>, NEW S
  PROVE  Cardinality(PlacesOf(q, S)) =
           Cardinality(PlacesOf(Tail(q), S)) + (IF Head(q) \in S THEN 1 ELSE 0)
<1> DEFINE r == Tail(q)
           later == PlacesOf(q, S) \ {1}
           back == [i \in PlacesOf(r, S) |-> i + 1]
<1>1. /\ r \in Seq(M) /\ Len(q) \in Nat /\ Len(r) = Len(q) - 1 /\ Len(r) \in Nat
      /\ DOMAIN q = 1 .. Len(q) /\ DOMAIN r = 1 .. Len(r)
      /\ Head(q) = q[1] /\ 1 \in 1 .. Len(q)
  OBVIOUS
<1>2. \A i \in 1 .. Len(r) : i + 1 \in 1 .. Len(q) /\ r[i] = q[i + 1]
  OBVIOUS
<1> HIDE DEF r
<1>3. back \in Bijection(PlacesOf(r, S), later)
  <2>1. \A i \in PlacesOf(r, S) : i \in Nat /\ i >= 1 /\ i + 1 \in later
    BY <1>1, <1>2 DEF PlacesOf
  <2>2. \A i, j \in PlacesOf(r, S) : i + 1 = j + 1 => i = j
    BY <2>1
  <2>3. \A j \in later : \E i \in PlacesOf(r, S) : i + 1 = j
    <3>1. SUFFICES ASSUME NEW j \in later PROVE j - 1 \in PlacesOf(r, S) /\ (j - 1) + 1 = j
      BY <3>1
    <3>2. j \in 1 .. Len(q) /\ j # 1 /\ q[j] \in S
      BY <1>1 DEF PlacesOf
    <3>3. j - 1 \in 1 .. Len(r) /\ (j - 1) + 1 = j
      BY <3>2, <1>1
    <3>4. r[j - 1] = q[j]
      BY <3>3, <1>2
    <3> QED  BY <3>2, <3>3, <3>4, <1>1 DEF PlacesOf
  <2>4. back \in Injection(PlacesOf(r, S), later)
    BY <2>1, <2>2 DEF Injection, IsInjective
  <2>5. back \in Surjection(PlacesOf(r, S), later)
    BY <2>1, <2>3 DEF Surjection
  <2> QED  BY <2>4, <2>5 DEF Bijection
<1>4. IsFiniteSet(PlacesOf(q, S)) /\ IsFiniteSet(PlacesOf(r, S))
  BY <1>1, PlacesFinite
<1>5. Cardinality(later) = Cardinality(PlacesOf(r, S))
  <2>1. ExistsBijection(PlacesOf(r, S), later)
    BY <1>3 DEF ExistsBijection
  <2> HIDE DEF later
  <2> QED  BY <1>4, <2>1, FS_Bijection
<1>6. Cardinality(later) = IF 1 \in PlacesOf(q, S) THEN Cardinality(PlacesOf(q, S)) - 1
                                               ELSE Cardinality(PlacesOf(q, S))
  BY <1>4, FS_RemoveElement
<1>7. 1 \in PlacesOf(q, S) <=> Head(q) \in S
  BY <1>1 DEF PlacesOf
<1>8. Cardinality(PlacesOf(q, S)) \in Nat /\ Cardinality(PlacesOf(r, S)) \in Nat
  BY <1>1, PlacesFinite
<1> HIDE DEF later
<1>9. Cardinality(PlacesOf(q, S)) =
        Cardinality(PlacesOf(r, S)) + (IF Head(q) \in S THEN 1 ELSE 0)
  BY <1>5, <1>6, <1>7, <1>8
<1> QED  BY <1>9 DEF r

Count(q, S) == Cardinality(PlacesOf(q, S))

(* A queue that has lost some of its messages of S and got none. *)
Fewer(r, q, S) ==
  /\ Count(r, S) <= Count(q, S) /\ Count(r, S) \in Nat /\ Count(q, S) \in Nat
  /\ \A i \in DOMAIN r : r[i] \in S => \E j \in DOMAIN q : q[j] = r[i]

LEMMA FewerFacts ==
  ASSUME NEW M, NEW q \in Seq(M), NEW S
  PROVE  /\ Fewer(q, q, S) /\ Fewer(<<>>, q, S)
         /\ q # <<>> => Fewer(Tail(q), q, S)
         /\ \A m \in M : m \notin S => Fewer(Append(q, m), q, S)
<1>1. \A r \in Seq(M) : Count(r, S) \in Nat
  BY PlacesFinite DEF Count
<1>2. <<>> \in Seq(M) /\ Count(<<>>, S) = 0
  <2>1. <<>> \in Seq(M) /\ DOMAIN <<>> = {}
    OBVIOUS
  <2>2. \A i \in DOMAIN <<>> : <<>>[i] \notin S
    BY <2>1
  <2>3. Cardinality(PlacesOf(<<>>, S)) = 0
    BY ONLY <2>1, <2>2, PlacesFinite
  <2> QED  BY <2>1, <2>3 DEF Count
<1>3. Fewer(q, q, S) /\ Fewer(<<>>, q, S)
  <2>1. DOMAIN <<>> = {}
    OBVIOUS
  <2> QED  BY <1>1, <1>2, <2>1 DEF Fewer
<1>4. ASSUME q # <<>>
      PROVE  Fewer(Tail(q), q, S)
  <2>1. Tail(q) \in Seq(M) /\ DOMAIN q = 1 .. Len(q) /\ DOMAIN Tail(q) = 1 .. Len(Tail(q))
        /\ \A i \in 1 .. Len(Tail(q)) : i + 1 \in 1 .. Len(q) /\ Tail(q)[i] = q[i + 1]
    BY <1>4, FirstTaken
  <2>2. Count(Tail(q), S) <= Count(q, S)
    <3>1. Count(q, S) = Count(Tail(q), S) + (IF Head(q) \in S THEN 1 ELSE 0)
      BY <1>4, PlacesTail DEF Count
    <3>2. Count(q, S) \in Nat /\ Count(Tail(q), S) \in Nat
      BY <1>1, <2>1
    <3> QED  BY <3>1, <3>2
  <2> QED  BY <1>1, <2>1, <2>2 DEF Fewer
<1>5. ASSUME NEW m \in M, m \notin S
      PROVE  Fewer(Append(q, m), q, S)
  <2>1. /\ Append(q, m) \in Seq(M) /\ DOMAIN q = 1 .. Len(q)
        /\ DOMAIN Append(q, m) = 1 .. Len(Append(q, m))
        /\ Append(q, m)[Len(q) + 1] = m
        /\ \A i \in 1 .. Len(q) : Append(q, m)[i] = q[i]
        /\ \A i \in 1 .. Len(Append(q, m)) : i \in 1 .. Len(q) \/ i = Len(q) + 1
    BY LastSent
  <2>2. Count(Append(q, m), S) = Count(q, S)
    <3>1. Count(Append(q, m), S) = Count(q, S) + (IF m \in S THEN 1 ELSE 0)
      BY PlacesAppend DEF Count
    <3> QED  BY <1>1, <1>5, <3>1
  <2> QED  BY <1>1, <1>5, <2>1, <2>2 DEF Fewer
<1> QED  BY <1>3, <1>4, <1>5
===============================================================================
