--------------------------- MODULE CorrelationProofs ---------------------------
(***************************************************************************)
(* Theorems about Correlation, for every inventory: any number of domains, *)
(* vendors, objects and agents, and whatever names and ids repeat.         *)
(***************************************************************************)
EXTENDS Correlation, FiniteSetTheorems, FunctionTheorems, NaturalsInduction, TLAPS

(***************************************************************************)
(* Finite sets.                                                            *)
(***************************************************************************)
LEMMA ImageFinite ==
  ASSUME NEW S, IsFiniteSet(S), NEW T, NEW f \in [S -> T], \A t \in T : \E x \in S : f[x] = t
  PROVE  IsFiniteSet(T)
<1>1. f \in Surjection(S, T)
  BY DEF Surjection
<1>2. QED
  BY <1>1, FS_Surjection

LEMMA TwoElements ==
  ASSUME NEW S, IsFiniteSet(S)
  PROVE  Cardinality(S) > 1 <=> \E x, y \in S : x # y
<1>1. Cardinality(S) \in Nat
  BY FS_CardinalityType
<1>2. ASSUME Cardinality(S) > 1
      PROVE  \E x, y \in S : x # y
  <2>1. S # {}
    BY <1>2, FS_EmptySet
  <2>2. PICK x \in S : TRUE
    BY <2>1
  <2>3. S # {x}
    BY <1>2, FS_Singleton
  <2> QED
    BY <2>2, <2>3
<1>3. ASSUME NEW x \in S, NEW y \in S, x # y
      PROVE  Cardinality(S) > 1
  <2>1. Cardinality(S) # 0
    BY <1>3, FS_EmptySet
  <2>2. Cardinality(S) # 1
    <3> SUFFICES ASSUME Cardinality(S) = 1
                 PROVE  FALSE
      OBVIOUS
    <3>1. PICK z : S = {z}
      BY FS_Singleton
    <3> QED
      BY <3>1, <1>3
  <2> QED
    BY <2>1, <2>2, <1>1
<1>4. QED
  BY <1>2, <1>3

\* A set of numbers has a least one, if it is finite.
LEMMA LeastOf ==
  ASSUME NEW S \in SUBSET Int, IsFiniteSet(S), S # {}
  PROVE  \E m \in S : \A k \in S : m =< k
<1> DEFINE Bottomless(T) == /\ T \in SUBSET Int /\ IsFiniteSet(T) /\ T # {}
                            /\ ~ \E m \in T : \A k \in T : m =< k
           sizes == {n \in Nat : \E T \in SUBSET Int : Bottomless(T) /\ Cardinality(T) = n}
<1>1. SUFFICES ASSUME Bottomless(S)
               PROVE  FALSE
  OBVIOUS
<1>2. sizes # {}
  <2>1. Cardinality(S) \in Nat
    BY FS_CardinalityType
  <2> QED
    BY <1>1, <2>1
<1>3. PICK n \in sizes : \A k \in sizes : ~ (<<k, n>> \in OpToRel(<, Nat))
  <2> HIDE DEF sizes
  <2>1. sizes \in SUBSET Nat
    BY DEF sizes
  <2> QED
    BY <1>2, <2>1, NatLessThanWellFounded, WFMin, Zenon
<1>4. PICK T \in SUBSET Int : Bottomless(T) /\ Cardinality(T) = n
  BY <1>3
<1>5. PICK x \in T : TRUE
  BY <1>4
<1>6. /\ IsFiniteSet(T \ {x}) /\ Cardinality(T \ {x}) = n - 1 /\ n \in Nat
      /\ n - 1 \in Nat
  <2>1. IsFiniteSet(T \ {x}) /\ Cardinality(T \ {x}) = n - 1 /\ n \in Nat
    BY <1>3, <1>4, <1>5, FS_RemoveElement
  <2>2. Cardinality(T \ {x}) \in Nat
    BY <2>1, FS_CardinalityType
  <2> QED
    BY <2>1, <2>2
<1>7. ~ Bottomless(T \ {x})
  <2> SUFFICES ASSUME Bottomless(T \ {x})
               PROVE  FALSE
    OBVIOUS
  <2>1. n - 1 \in sizes
    BY <1>6
  <2>2. <<n - 1, n>> \in OpToRel(<, Nat)
    BY <1>6 DEF OpToRel
  <2> QED
    BY <1>3, <2>1, <2>2
<1>8. CASE T \ {x} = {}
  <2>1. \A k \in T : k = x
    BY <1>8
  <2>2. \A k \in T : x =< k
    BY <1>5, <2>1
  <2> QED
    BY <1>4, <1>5, <2>2
<1>9. CASE T \ {x} # {}
  <2>1. PICK m \in T \ {x} : \A k \in T \ {x} : m =< k
    BY <1>6, <1>7, <1>9
  <2>2. x \in Int /\ m \in Int
    BY <1>5, <2>1
  <2>3. CASE m =< x
    <3>1. \A k \in T : m =< k
      BY <2>1, <2>3
    <3> QED
      BY <1>4, <2>1, <3>1
  <2>4. CASE x =< m
    <3>1. \A k \in T : k \in Int /\ x =< k
      BY <2>1, <2>2, <2>4
    <3> QED
      BY <1>4, <1>5, <3>1
  <2> QED
    BY <2>2, <2>3, <2>4
<1>10. QED
  BY <1>8, <1>9

\* The least of a field.
LEMMA LeastField ==
  ASSUME NEW S, IsFiniteSet(S), S # {}, NEW f \in [S -> Int]
  PROVE  \E r \in S : \A s \in S : f[r] =< f[s]
<1> DEFINE T == {f[x] : x \in S}
<1>1. IsFiniteSet(T)
  <2>1. f \in [S -> T] /\ \A t \in T : \E x \in S : f[x] = t
    OBVIOUS
  <2> HIDE DEF T
  <2> QED
    BY <2>1, ImageFinite
<1>2. PICK m \in T : \A k \in T : m =< k
  BY <1>1, LeastOf
<1>3. QED
  BY <1>2

(***************************************************************************)
(* Rows.                                                                   *)
(***************************************************************************)
\* The place of a row is in numbers.
Placed(r) == r.key \in Int /\ r.index[1] \in Int /\ r.index[2] \in Int

\* Of rows there is a first, and but one.
LEMMA FirstRow ==
  ASSUME NEW S, IsFiniteSet(S), S # {}, \A r \in S : Placed(r)
  PROVE  \E r \in S : \A s \in S : ~Before(s, r)
<1>1. PICK k \in S : \A s \in S : k.key =< s.key
  <2> DEFINE f == [r \in S |-> r.key]
  <2>1. f \in [S -> Int]
    BY DEF Placed
  <2>2. \E r \in S : \A s \in S : f[r] =< f[s]
    <3> HIDE DEF f
    <3> QED
      BY <2>1, LeastField
  <2> QED
    BY <2>2
<1> DEFINE K == {r \in S : r.key = k.key}
<1>2. IsFiniteSet(K) /\ K # {}
  BY FS_Subset
<1>3. PICK i \in K : \A s \in K : i.index[1] =< s.index[1]
  <2> DEFINE f == [r \in K |-> r.index[1]]
  <2>1. f \in [K -> Int]
    BY DEF Placed
  <2>2. \E r \in K : \A s \in K : f[r] =< f[s]
    <3> HIDE DEF f, K
    <3> QED
      BY <1>2, <2>1, LeastField
  <2> QED
    BY <2>2
<1> DEFINE I == {r \in K : r.index[1] = i.index[1]}
<1>4. IsFiniteSet(I) /\ I # {}
  <2> HIDE DEF K
  <2> QED
    BY <1>2, <1>3, FS_Subset
<1>5. PICK j \in I : \A s \in I : j.index[2] =< s.index[2]
  <2> DEFINE f == [r \in I |-> r.index[2]]
  <2>1. f \in [I -> Int]
    BY DEF Placed
  <2>2. \E r \in I : \A s \in I : f[r] =< f[s]
    <3> HIDE DEF f, I
    <3> QED
      BY <1>4, <2>1, LeastField
  <2> QED
    BY <2>2
<1>6. ASSUME NEW s \in S, Before(s, j)
      PROVE  FALSE
  <2>1. j \in S /\ Placed(s) /\ Placed(j) /\ j.key = k.key /\ j.index[1] = i.index[1]
    OBVIOUS
  <2>2. s.key = j.key
    BY <2>1, <1>1, <1>6 DEF Before, Placed
  <2>3. s.index[1] = j.index[1]
    BY <2>1, <2>2, <1>3, <1>6 DEF Before, Placed
  <2> QED
    BY <2>1, <2>2, <2>3, <1>5, <1>6 DEF Before, Placed
<1>7. QED
  BY <1>6

LEMMA SamePlace ==
  ASSUME NEW r, NEW s, Placed(r), Placed(s), ~Before(r, s), ~Before(s, r)
  PROVE  r.index[1] = s.index[1] /\ r.index[2] = s.index[2]
  BY DEF Before, Placed

(***************************************************************************)
(* The merge of the inventories ad and ag.                                 *)
(***************************************************************************)
\* A row of the merge stands for its sides.
MergedRow(ad, ag, r) ==
    /\ r = Row(r.ad, r.agent)
    /\ \/ /\ r.ad \in ad /\ r.agent \in ag /\ r.ad.key = r.agent.key
       \/ /\ r.ad \in ad /\ r.agent = NoAgent /\ \A a \in ag : a.key # r.ad.key
       \/ /\ r.ad = NoObject /\ r.agent \in ag /\ \A o \in ad : o.key # r.agent.key

LEMMA MergedRows ==
  ASSUME NEW ad \in SUBSET ADObjects, NEW ag \in SUBSET AgentRecords
  PROVE  \A r : r \in MergeWithAgents(ad, ag) <=> MergedRow(ad, ag, r)
<1>1. ASSUME NEW r \in MergeWithAgents(ad, ag)
      PROVE  MergedRow(ad, ag, r)
  <2>1. CASE \E p \in ad \X ag : p[1].key = p[2].key /\ r = Row(p[1], p[2])
    <3>1. PICK o \in ad, a \in ag : o.key = a.key /\ r = Row(o, a)
      BY <2>1
    <3>2. r.ad = o /\ r.agent = a
      BY <3>1 DEF Row
    <3> QED
      BY <3>1, <3>2 DEF MergedRow
  <2>2. CASE \E o \in ad : (\A a \in ag : a.key # o.key) /\ r = Row(o, NoAgent)
    <3>1. PICK o \in ad : (\A a \in ag : a.key # o.key) /\ r = Row(o, NoAgent)
      BY <2>2
    <3>2. r.ad = o /\ r.agent = NoAgent
      BY <3>1 DEF Row
    <3> QED
      BY <3>1, <3>2 DEF MergedRow
  <2>3. CASE \E a \in ag : (\A o \in ad : o.key # a.key) /\ r = Row(NoObject, a)
    <3>1. PICK a \in ag : (\A o \in ad : o.key # a.key) /\ r = Row(NoObject, a)
      BY <2>3
    <3>2. r.ad = NoObject /\ r.agent = a
      BY <3>1 DEF Row
    <3> QED
      BY <3>1, <3>2 DEF MergedRow
  <2> QED
    BY <2>1, <2>2, <2>3 DEF MergeWithAgents
<1>2. ASSUME NEW r, MergedRow(ad, ag, r)
      PROVE  r \in MergeWithAgents(ad, ag)
  <2>1. CASE r.ad \in ad /\ r.agent \in ag /\ r.ad.key = r.agent.key
    <3>1. <<r.ad, r.agent>> \in {q \in ad \X ag : q[1].key = q[2].key}
      BY <2>1
    <3>2. r = Row(<<r.ad, r.agent>>[1], <<r.ad, r.agent>>[2])
      BY <1>2 DEF MergedRow
    <3> QED
      BY <3>1, <3>2 DEF MergeWithAgents
  <2>2. CASE r.ad \in ad /\ r.agent = NoAgent /\ \A a \in ag : a.key # r.ad.key
    <3>1. r = Row(r.ad, NoAgent)
      BY <1>2, <2>2 DEF MergedRow
    <3> QED
      BY <2>2, <3>1 DEF MergeWithAgents
  <2>3. CASE r.ad = NoObject /\ r.agent \in ag /\ \A o \in ad : o.key # r.agent.key
    <3>1. r = Row(NoObject, r.agent)
      BY <1>2, <2>3 DEF MergedRow
    <3> QED
      BY <2>3, <3>1 DEF MergeWithAgents
  <2> QED
    BY <1>2, <2>1, <2>2, <2>3 DEF MergedRow
<1>3. QED
  BY <1>1, <1>2

\* Every object, and every agent, is in a row.
LEMMA MergeKeepsAll ==
  ASSUME NEW ad \in SUBSET ADObjects, NEW ag \in SUBSET AgentRecords
  PROVE  LET rows == MergeWithAgents(ad, ag)
         IN  /\ \A o \in ad, a \in ag : o.key = a.key => Row(o, a) \in rows
             /\ \A o \in ad : (\A a \in ag : a.key # o.key) => Row(o, NoAgent) \in rows
             /\ \A a \in ag : (\A o \in ad : o.key # a.key) => Row(NoObject, a) \in rows
<1>1. ASSUME NEW o, NEW a
      PROVE  Row(o, a).ad = o /\ Row(o, a).agent = a
  BY DEF Row
<1>2. QED
  BY <1>1, MergedRows DEF MergedRow

\* The sides of a merged row, and its place.
LEMMA MergedSides ==
  ASSUME NEW ad \in SUBSET ADObjects, NEW ag \in SUBSET AgentRecords,
         NEW r \in MergeWithAgents(ad, ag)
  PROVE  /\ r = Row(r.ad, r.agent) /\ Placed(r)
         /\ r.ad \in ad \cup {NoObject} /\ r.agent \in ag \cup {NoAgent}
         /\ r.ad # NoObject \/ r.agent # NoAgent
         /\ r.ad # NoObject => r.key = r.ad.key
         /\ r.agent # NoAgent => r.key = r.agent.key
         /\ Both(r) <=> r.ad \in ad /\ r.agent \in ag
         /\ r.ad # NoObject => r.index[1] = r.ad.pos
         /\ r.agent # NoAgent => r.index[2] = r.agent.pos
<1>1. MergedRow(ad, ag, r)
  BY MergedRows
<1>2. /\ r.key = (IF r.ad # NoObject THEN r.ad.key ELSE r.agent.key)
      /\ r.index = <<IF r.ad # NoObject THEN r.ad.pos ELSE 0,
                     IF r.agent # NoAgent THEN r.agent.pos ELSE 0>>
  <2> DEFINE o == r.ad
             a == r.agent
  <2>1. r = Row(o, a)
    BY <1>1 DEF MergedRow
  <2> HIDE DEF o, a
  <2>2. /\ r.key = (IF o # NoObject THEN o.key ELSE a.key)
        /\ r.index = <<IF o # NoObject THEN o.pos ELSE 0, IF a # NoAgent THEN a.pos ELSE 0>>
    BY <2>1 DEF Row
  <2> QED
    BY <2>2 DEF o, a
<1>3. NoObject \notin ad /\ NoAgent \notin ag
  BY SidesAssumption
<1>4. Placed(r)
  BY <1>1, <1>2, <1>3, SidesAssumption DEF MergedRow, Placed
<1>5. QED
  BY <1>1, <1>2, <1>3, <1>4 DEF MergedRow, Both

LEMMA MergeFinite ==
  ASSUME NEW ad \in SUBSET ADObjects, NEW ag \in SUBSET AgentRecords
  PROVE  IsFiniteSet(MergeWithAgents(ad, ag))
<1> DEFINE P == (ADObjects \cup {NoObject}) \X (AgentRecords \cup {NoAgent})
           f == [p \in P |-> Row(p[1], p[2])]
           T == {f[p] : p \in P}
<1>1. IsFiniteSet(P)
  BY SidesAssumption, FS_AddElement, FS_Product
<1>2. IsFiniteSet(T)
  <2>1. f \in [P -> T] /\ \A t \in T : \E x \in P : f[x] = t
    OBVIOUS
  <2> HIDE DEF f, P, T
  <2> QED
    BY <1>1, <2>1, ImageFinite
<1>3. MergeWithAgents(ad, ag) \in SUBSET T
  <2> SUFFICES ASSUME NEW r \in MergeWithAgents(ad, ag)
               PROVE  r \in T
    OBVIOUS
  <2>1. <<r.ad, r.agent>> \in P /\ r = Row(r.ad, r.agent)
    BY MergedSides
  <2>2. f[<<r.ad, r.agent>>] = r
    BY <2>1
  <2> QED
    BY <2>1, <2>2
<1>4. QED
  <2> HIDE DEF T
  <2> QED
    BY <1>2, <1>3, FS_Subset

(***************************************************************************)
(* The tiebreak.                                                           *)
(***************************************************************************)
Shared(ad, k) == \E o, p \in ad : /\ o.key = k /\ p.key = k /\ AdId(o) # AdId(p)
                                  /\ AdId(o) # Blank /\ AdId(p) # Blank
Told(ad, o, a) == Shared(ad, o.key) /\ a.fqdn # Blank

LEMMA AmbiguousIsShared ==
  ASSUME NEW ad \in SUBSET ADObjects, NEW ag \in SUBSET AgentRecords, NEW k
  PROVE  AmbiguousKey(MergeWithAgents(ad, ag), k) <=> Shared(ad, k)
<1> DEFINE rows == MergeWithAgents(ad, ag)
           ids == Identities(rows, k)
<1>1. \A x : x \in ids <=> x # Blank /\ \E o \in ad : o.key = k /\ x = AdId(o)
  <2>1. ASSUME NEW x \in ids
        PROVE  x # Blank /\ \E o \in ad : o.key = k /\ x = AdId(o)
    <3>1. PICK r \in rows : r.key = k /\ r.ad # NoObject /\ x = AdId(r.ad)
      BY DEF Identities
    <3> QED
      BY <3>1, MergedSides DEF Identities
  <2>2. ASSUME NEW o \in ad, o.key = k, AdId(o) # Blank
        PROVE  AdId(o) \in ids
    <3>1. \E r \in rows : r.ad = o
      <4>1. \E a : Row(o, a) \in rows
        BY MergeKeepsAll
      <4>2. \A a : Row(o, a).ad = o
        BY DEF Row
      <4> HIDE DEF rows
      <4> QED
        BY <4>1, <4>2
    <3>2. PICK r \in rows : r.ad = o
      BY <3>1
    <3>3. r.key = k /\ r.ad # NoObject
      BY <3>2, <2>2, MergedSides, SidesAssumption
    <3> QED
      BY <2>2, <3>2, <3>3 DEF Identities
  <2> QED
    BY <2>1, <2>2
<1>2. IsFiniteSet(ids)
  <2> DEFINE f == [o \in ADObjects |-> AdId(o)]
             T == {f[o] : o \in ADObjects}
  <2>1. IsFiniteSet(T)
    <3>1. f \in [ADObjects -> T] /\ \A t \in T : \E x \in ADObjects : f[x] = t
      OBVIOUS
    <3> HIDE DEF f, T
    <3> QED
      BY <3>1, ImageFinite, SidesAssumption
  <2>2. ids \in SUBSET T
    BY <1>1
  <2> HIDE DEF T, ids
  <2> QED
    BY <2>1, <2>2, FS_Subset
<1>3. AmbiguousKey(rows, k) <=> Cardinality(ids) > 1
  BY DEF AmbiguousKey
<1> HIDE DEF ids, rows
<1>4. AmbiguousKey(rows, k) <=> \E x, y \in ids : x # y
  BY <1>2, <1>3, TwoElements
<1>5. QED
  BY <1>1, <1>4 DEF Shared, rows

\* What the tiebreak does with a row.
LEMMA RowsTold ==
  ASSUME NEW ad \in SUBSET ADObjects, NEW ag \in SUBSET AgentRecords,
         NEW r \in MergeWithAgents(ad, ag)
  PROVE  LET rows == MergeWithAgents(ad, ag)
         IN  /\ Paired(rows, r) <=> Both(r) /\ Shared(ad, r.ad.key)
             /\ ByFqdn(rows, r) <=> Both(r) /\ Told(ad, r.ad, r.agent)
             /\ Keep(rows, r) <=> Both(r) /\ Told(ad, r.ad, r.agent) /\ r.agent.fqdn = r.ad.dns
             /\ Drop(rows, r) <=> Both(r) /\ Told(ad, r.ad, r.agent) /\ r.agent.fqdn # r.ad.dns
<1>1. AmbiguousKey(MergeWithAgents(ad, ag), r.key) <=> Shared(ad, r.key)
  BY AmbiguousIsShared
<1>2. Both(r) => r.key = r.ad.key
  BY MergedSides DEF Both
<1>3. QED
  BY <1>1, <1>2 DEF Paired, ByFqdn, Keep, Drop, Told

\* A row as every stage leaves it.
RowRecord(r) ==
    r \in [key : {r.key}, ad : {r.ad}, agent : {r.agent}, index : {r.index},
           ambiguous : {r.ambiguous}, method : {r.method}, status : {r.status},
           machineType : {r.machineType}, build : {r.build}, eol : {r.eol}]

\* A row that loses a side.
LEMMA HalvedRow ==
  ASSUME NEW r
  PROVE  /\ RowRecord(WithoutAgent(r)) /\ WithoutAgent(r).ad = r.ad
         /\ WithoutAgent(r).agent = NoAgent /\ WithoutAgent(r).ambiguous = FALSE
         /\ WithoutAgent(r).method = "none" /\ WithoutAgent(r).status = Blank
         /\ r.ad # NoObject => WithoutAgent(r).key = r.ad.key
         /\ RowRecord(WithoutAD(r)) /\ WithoutAD(r).ad = NoObject
         /\ WithoutAD(r).agent = r.agent /\ WithoutAD(r).ambiguous = FALSE
         /\ WithoutAD(r).method = "none" /\ WithoutAD(r).status = Blank
         /\ WithoutAD(r).key = r.agent.key
  BY DEF WithoutAgent, WithoutAD, Row, RowRecord

\* What a resolved row comes from.
Stays(rows, q, r) ==
    /\ r \in rows /\ ~Drop(rows, r) /\ q.ad = r.ad /\ q.agent = r.agent /\ q.key = r.key
    /\ q.ambiguous = (Paired(rows, r) /\ ~ByFqdn(rows, r))
Unpaired(rows, q, r) ==
    /\ r \in FirstPerObject(UnpairedAD(rows)) /\ q.ad = r.ad /\ q.agent = NoAgent
    /\ q.key = r.key /\ q.ambiguous = FALSE
Unmatched(rows, q, r) ==
    /\ r \in FirstPerAgent(UnmatchedAgents(rows)) /\ q.ad = NoObject /\ q.agent = r.agent
    /\ q.key = r.key /\ q.ambiguous = FALSE

LEMMA ResolvedRows ==
  ASSUME NEW ad \in SUBSET ADObjects, NEW ag \in SUBSET AgentRecords
  PROVE  LET rows == MergeWithAgents(ad, ag)
             resolved == ResolveAmbiguousJoinKeys(rows)
         IN  /\ \A q \in resolved : /\ RowRecord(q) /\ q.method \in {"none", "fqdn_exact"}
                                    /\ q.status = Blank /\ q.ambiguous \in BOOLEAN
                                    /\ \E r \in rows : \/ Stays(rows, q, r)
                                                       \/ Unpaired(rows, q, r)
                                                       \/ Unmatched(rows, q, r)
             /\ \A r \in rows : ~Drop(rows, r) => \E q \in resolved : Stays(rows, q, r)
             /\ \A r \in FirstPerObject(UnpairedAD(rows)) :
                   \E q \in resolved : Unpaired(rows, q, r)
             /\ \A r \in FirstPerAgent(UnmatchedAgents(rows)) :
                   \E q \in resolved : Unmatched(rows, q, r)
<1> DEFINE rows == MergeWithAgents(ad, ag)
           resolved == ResolveAmbiguousJoinKeys(rows)
           kept(r) == [r EXCEPT !.method = IF Keep(rows, r) THEN "fqdn_exact" ELSE @,
                                !.ambiguous = Paired(rows, r) /\ ~ByFqdn(rows, r)]
<1>1. ASSUME NEW r \in rows
      PROVE  r = Row(r.ad, r.agent) /\ (Drop(rows, r) => r.ad # NoObject /\ r.agent # NoAgent
                                                         /\ r.key = r.ad.key /\ r.key = r.agent.key)
  BY MergedSides DEF Drop, ByFqdn, Paired, Both
<1>2. FirstPerObject(UnpairedAD(rows)) \subseteq {r \in rows : Drop(rows, r)}
  BY DEF FirstPerObject, UnpairedAD
<1>3. FirstPerAgent(UnmatchedAgents(rows)) \subseteq {r \in rows : Drop(rows, r)}
  BY DEF FirstPerAgent, UnmatchedAgents
<1>4. resolved = {kept(r) : r \in {r \in rows : ~Drop(rows, r)}}
                    \cup {WithoutAgent(r) : r \in FirstPerObject(UnpairedAD(rows))}
                    \cup {WithoutAD(r) : r \in FirstPerAgent(UnmatchedAgents(rows))}
  BY DEF ResolveAmbiguousJoinKeys, Kept
<1>5. ASSUME NEW r \in rows, ~Drop(rows, r)
      PROVE  /\ kept(r) \in resolved /\ Stays(rows, kept(r), r) /\ RowRecord(kept(r))
             /\ kept(r).method \in {"none", "fqdn_exact"} /\ kept(r).status = Blank
             /\ kept(r).ambiguous \in BOOLEAN
  <2>1. kept(r) \in resolved
    BY <1>4, <1>5
  <2>2. /\ RowRecord(kept(r)) /\ kept(r).ad = r.ad /\ kept(r).agent = r.agent
        /\ kept(r).key = r.key /\ kept(r).ambiguous = (Paired(rows, r) /\ ~ByFqdn(rows, r))
        /\ kept(r).method \in {"none", "fqdn_exact"} /\ kept(r).status = Blank
    <3>1. RowRecord(r) /\ r.method = "none" /\ r.status = Blank
      <4> DEFINE o == r.ad
                 a == r.agent
      <4>1. r = Row(o, a)
        BY <1>1
      <4> HIDE DEF o, a
      <4> QED
        BY <4>1 DEF Row, RowRecord
    <3> HIDE DEF rows
    <3> QED
      BY <3>1 DEF RowRecord
  <2> HIDE DEF kept, rows, resolved
  <2> QED
    BY <2>1, <2>2, <1>5 DEF Stays
<1>6. ASSUME NEW r \in FirstPerObject(UnpairedAD(rows))
      PROVE  /\ WithoutAgent(r) \in resolved /\ Unpaired(rows, WithoutAgent(r), r)
             /\ RowRecord(WithoutAgent(r)) /\ WithoutAgent(r).method = "none"
             /\ WithoutAgent(r).status = Blank /\ r \in rows
             /\ WithoutAgent(r).ambiguous \in BOOLEAN
  <2>1. WithoutAgent(r) \in resolved
    BY <1>4
  <2>2. r \in rows /\ r.ad # NoObject /\ r.key = r.ad.key
    BY <1>1, <1>2
  <2> HIDE DEF rows, resolved
  <2> QED
    BY <2>1, <2>2, HalvedRow DEF Unpaired
<1>7. ASSUME NEW r \in FirstPerAgent(UnmatchedAgents(rows))
      PROVE  /\ WithoutAD(r) \in resolved /\ Unmatched(rows, WithoutAD(r), r)
             /\ RowRecord(WithoutAD(r)) /\ WithoutAD(r).method = "none"
             /\ WithoutAD(r).status = Blank /\ r \in rows
             /\ WithoutAD(r).ambiguous \in BOOLEAN
  <2>1. WithoutAD(r) \in resolved
    BY <1>4
  <2>2. r \in rows /\ r.key = r.agent.key
    BY <1>1, <1>3
  <2> HIDE DEF rows, resolved
  <2> QED
    BY <2>1, <2>2, HalvedRow DEF Unmatched
<1>8. ASSUME NEW q \in resolved
      PROVE  \/ \E r \in rows : ~Drop(rows, r) /\ q = kept(r)
             \/ \E r \in FirstPerObject(UnpairedAD(rows)) : q = WithoutAgent(r)
             \/ \E r \in FirstPerAgent(UnmatchedAgents(rows)) : q = WithoutAD(r)
  BY <1>4, Zenon
<1> HIDE DEF kept, rows, resolved
<1>9. ASSUME NEW q \in resolved
      PROVE  /\ RowRecord(q) /\ q.method \in {"none", "fqdn_exact"} /\ q.status = Blank
             /\ q.ambiguous \in BOOLEAN
             /\ \E r \in rows : \/ Stays(rows, q, r) \/ Unpaired(rows, q, r)
                                \/ Unmatched(rows, q, r)
  BY <1>5, <1>6, <1>7, <1>8
<1>10. QED
  BY <1>5, <1>6, <1>7, <1>9 DEF rows, resolved

\* Each identity among some of the rows has a first row.
LEMMA FirstOfIdentity ==
  ASSUME NEW ad \in SUBSET ADObjects, NEW ag \in SUBSET AgentRecords,
         NEW X \in SUBSET MergeWithAgents(ad, ag), NEW r \in X
  PROVE  /\ \E s \in FirstPerObject(X) : AdId(s.ad) = AdId(r.ad)
         /\ \E s \in FirstPerAgent(X) : AgentId(s.agent) = AgentId(r.agent)
<1>1. IsFiniteSet(X) /\ \A s \in X : Placed(s)
  BY MergeFinite, FS_Subset, MergedSides
<1>2. \E s \in FirstPerObject(X) : AdId(s.ad) = AdId(r.ad)
  <2> DEFINE S == {s \in X : AdId(s.ad) = AdId(r.ad)}
  <2>1. IsFiniteSet(S) /\ S # {} /\ \A s \in S : Placed(s)
    BY <1>1, FS_Subset
  <2>2. PICK s \in S : \A t \in S : ~Before(t, s)
    <3> HIDE DEF S
    <3> QED
      BY <2>1, FirstRow
  <2>3. s \in FirstPerObject(X)
    BY <2>2 DEF FirstPerObject
  <2> QED
    BY <2>2, <2>3
<1>3. \E s \in FirstPerAgent(X) : AgentId(s.agent) = AgentId(r.agent)
  <2> DEFINE S == {s \in X : AgentId(s.agent) = AgentId(r.agent)}
  <2>1. IsFiniteSet(S) /\ S # {} /\ \A s \in S : Placed(s)
    BY <1>1, FS_Subset
  <2>2. PICK s \in S : \A t \in S : ~Before(t, s)
    <3> HIDE DEF S
    <3> QED
      BY <2>1, FirstRow
  <2>3. s \in FirstPerAgent(X)
    BY <2>2 DEF FirstPerAgent
  <2> QED
    BY <2>2, <2>3
<1>4. QED
  BY <1>2, <1>3

(***************************************************************************)
(* What the resolved rows say.                                             *)
(***************************************************************************)
Resolved(ad, ag) == ResolveAmbiguousJoinKeys(MergeWithAgents(ad, ag))

LEMMA ResolvedSides ==
  ASSUME NEW ad \in SUBSET ADObjects, NEW ag \in SUBSET AgentRecords,
         NEW q \in Resolved(ad, ag)
  PROVE  /\ q.ad \in ad \cup {NoObject} /\ q.agent \in ag \cup {NoAgent}
         /\ q.ad # NoObject \/ q.agent # NoAgent
         /\ q.ad # NoObject => q.key = q.ad.key
         /\ q.agent # NoAgent => q.key = q.agent.key
         /\ Both(q) => \E r \in MergeWithAgents(ad, ag) : Stays(MergeWithAgents(ad, ag), q, r)
<1> DEFINE rows == MergeWithAgents(ad, ag)
<1>1. PICK r \in rows : Stays(rows, q, r) \/ Unpaired(rows, q, r) \/ Unmatched(rows, q, r)
  BY ResolvedRows DEF Resolved
<1>2. /\ r.ad \in ad \cup {NoObject} /\ r.agent \in ag \cup {NoAgent}
      /\ r.ad # NoObject \/ r.agent # NoAgent
      /\ r.ad # NoObject => r.key = r.ad.key
      /\ r.agent # NoAgent => r.key = r.agent.key
  BY MergedSides
<1>3. Unpaired(rows, q, r) \/ Unmatched(rows, q, r) => r.ad # NoObject /\ r.agent # NoAgent
  BY DEF Unpaired, Unmatched, FirstPerObject, FirstPerAgent, UnpairedAD, UnmatchedAgents,
         Drop, ByFqdn, Paired, Both
<1> HIDE DEF rows
<1>4. CASE Stays(rows, q, r)
  BY <1>2, <1>4 DEF Stays, rows
<1>5. CASE Unpaired(rows, q, r)
  BY <1>2, <1>3, <1>5 DEF Unpaired, Both
<1>6. CASE Unmatched(rows, q, r)
  BY <1>2, <1>3, <1>6 DEF Unmatched, Both
<1>7. QED
  BY <1>1, <1>4, <1>5, <1>6

\* No identity is lost.
LEMMA ResolvedKeepsAll ==
  ASSUME NEW ad \in SUBSET ADObjects, NEW ag \in SUBSET AgentRecords
  PROVE  /\ \A o \in ad : \E q \in Resolved(ad, ag) : q.ad # NoObject /\ AdId(q.ad) = AdId(o)
         /\ \A a \in ag : \E q \in Resolved(ad, ag) :
               q.agent # NoAgent /\ AgentId(q.agent) = AgentId(a)
<1> DEFINE rows == MergeWithAgents(ad, ag)
           resolved == Resolved(ad, ag)
<1>1. /\ \A r \in rows : ~Drop(rows, r) => \E q \in resolved : Stays(rows, q, r)
      /\ \A r \in FirstPerObject(UnpairedAD(rows)) : \E q \in resolved : Unpaired(rows, q, r)
      /\ \A r \in FirstPerAgent(UnmatchedAgents(rows)) : \E q \in resolved : Unmatched(rows, q, r)
  BY ResolvedRows DEF Resolved
<1>2. \A r \in rows : Drop(rows, r) => r.ad # NoObject /\ r.agent # NoAgent
  BY DEF Drop, ByFqdn, Paired, Both
<1>3. UnpairedAD(rows) \in SUBSET rows /\ UnmatchedAgents(rows) \in SUBSET rows
  BY DEF UnpairedAD, UnmatchedAgents
<1>4. /\ \A r \in UnpairedAD(rows) :
            \E s \in FirstPerObject(UnpairedAD(rows)) : AdId(s.ad) = AdId(r.ad)
      /\ \A r \in UnmatchedAgents(rows) :
            \E s \in FirstPerAgent(UnmatchedAgents(rows)) : AgentId(s.agent) = AgentId(r.agent)
  BY <1>3, FirstOfIdentity
<1>5. /\ \A s \in FirstPerObject(UnpairedAD(rows)) : s.ad # NoObject
      /\ \A s \in FirstPerAgent(UnmatchedAgents(rows)) : s.agent # NoAgent
  BY <1>2 DEF FirstPerObject, FirstPerAgent, UnpairedAD, UnmatchedAgents
<1>6. /\ \A o \in ad : \E r \in rows : r.ad = o
      /\ \A a \in ag : \E r \in rows : r.agent = a
  <2>1. \A o, a : Row(o, a).ad = o /\ Row(o, a).agent = a
    BY DEF Row
  <2>2. /\ \A o \in ad : \E a : Row(o, a) \in rows
        /\ \A a \in ag : \E o : Row(o, a) \in rows
    BY MergeKeepsAll
  <2> HIDE DEF rows
  <2> QED
    BY <2>1, <2>2
<1>7. NoObject \notin ad /\ NoAgent \notin ag
  BY SidesAssumption
<1> HIDE DEF rows, resolved
<1>8. ASSUME NEW o \in ad
      PROVE  \E q \in resolved : q.ad # NoObject /\ AdId(q.ad) = AdId(o)
  <2>1. PICK r \in rows : r.ad = o
    BY <1>6
  <2>2. CASE \E s \in rows : ~Drop(rows, s) /\ s.ad # NoObject /\ AdId(s.ad) = AdId(o)
    BY <2>2, <1>1 DEF Stays
  <2>3. CASE ~ \E s \in rows : ~Drop(rows, s) /\ s.ad # NoObject /\ AdId(s.ad) = AdId(o)
    <3>1. r \in UnpairedAD(rows)
      BY <2>1, <2>3, <1>7 DEF UnpairedAD
    <3> QED
      BY <3>1, <2>1, <1>1, <1>4, <1>5 DEF Unpaired
  <2> QED
    BY <2>2, <2>3
<1>9. ASSUME NEW a \in ag
      PROVE  \E q \in resolved : q.agent # NoAgent /\ AgentId(q.agent) = AgentId(a)
  <2>1. PICK r \in rows : r.agent = a
    BY <1>6
  <2>2. CASE \E s \in rows : ~Drop(rows, s) /\ s.agent # NoAgent /\ AgentId(s.agent) = AgentId(a)
    BY <2>2, <1>1 DEF Stays
  <2>3. CASE ~ \E s \in rows : ~Drop(rows, s) /\ s.agent # NoAgent /\ AgentId(s.agent) = AgentId(a)
    <3>1. Drop(rows, r)
      BY <2>1, <2>3, <1>7
    <3>2. \A s \in rows : Keep(rows, s) => ~Drop(rows, s) /\ s.agent # NoAgent
      BY DEF Keep, Drop, ByFqdn, Paired, Both
    <3>3. r \in UnmatchedAgents(rows)
      BY <3>1, <3>2, <2>1, <2>3 DEF UnmatchedAgents
    <3> QED
      BY <3>3, <2>1, <1>1, <1>4, <1>5 DEF Unmatched
  <2> QED
    BY <2>2, <2>3
<1>10. QED
  BY <1>8, <1>9 DEF resolved

\* No two rows have both sides in common.
Identified(rows) == \A q, r \in rows : q.ad = r.ad /\ q.agent = r.agent => q = r

LEMMA ResolvedIdentified ==
  ASSUME NEW ad \in SUBSET ADObjects, NEW ag \in SUBSET AgentRecords
  PROVE  Identified(Resolved(ad, ag))
<1> DEFINE rows == MergeWithAgents(ad, ag)
           kept(r) == [r EXCEPT !.method = IF Keep(rows, r) THEN "fqdn_exact" ELSE @,
                                !.ambiguous = Paired(rows, r) /\ ~ByFqdn(rows, r)]
           First == FirstPerObject(UnpairedAD(rows))
           Last == FirstPerAgent(UnmatchedAgents(rows))
           FromKept(q, r) == r \in rows /\ q = kept(r) /\ q.ad = r.ad /\ q.agent = r.agent
           FromAD(q, r) == r \in First /\ q = WithoutAgent(r) /\ q.ad = r.ad /\ q.agent = NoAgent
           FromAgent(q, r) == r \in Last /\ q = WithoutAD(r) /\ q.ad = NoObject /\ q.agent = r.agent
<1>1. \A r \in rows : MergedRow(ad, ag, r) /\ Placed(r)
  BY MergedRows, MergedSides
<1>2. NoObject \notin ad /\ NoAgent \notin ag
  BY SidesAssumption
<1>3. \A r \in First \cup Last : r \in rows /\ r.ad \in ad /\ r.agent \in ag
                                 /\ r.ad.key = r.agent.key
  <2>1. \A r \in First \cup Last : r \in rows /\ Both(r)
    BY DEF FirstPerObject, FirstPerAgent, UnpairedAD, UnmatchedAgents, Drop, ByFqdn, Paired
  <2> HIDE DEF First, Last, rows
  <2> QED
    BY <2>1, <1>1, <1>2 DEF MergedRow, Both
<1>4. ASSUME NEW q \in Resolved(ad, ag)
      PROVE  \E r \in rows : FromKept(q, r) \/ FromAD(q, r) \/ FromAgent(q, r)
  <2>1. \/ \E r \in rows : q = kept(r)
        \/ \E r \in First : q = WithoutAgent(r)
        \/ \E r \in Last : q = WithoutAD(r)
    BY Zenon DEF Resolved, ResolveAmbiguousJoinKeys, Kept
  <2>2. ASSUME NEW r \in rows
        PROVE  kept(r).ad = r.ad /\ kept(r).agent = r.agent
    <3>1. RowRecord(r)
      <4> DEFINE o == r.ad
                 a == r.agent
      <4>1. r = Row(o, a)
        BY <1>1 DEF MergedRow
      <4> HIDE DEF o, a
      <4> QED
        BY <4>1 DEF Row, RowRecord
    <3> HIDE DEF rows
    <3> QED
      BY <3>1 DEF RowRecord
  <2>3. \A r : /\ WithoutAgent(r).ad = r.ad /\ WithoutAgent(r).agent = NoAgent
              /\ WithoutAD(r).ad = NoObject /\ WithoutAD(r).agent = r.agent
    BY DEF WithoutAgent, WithoutAD, Row
  <2> HIDE DEF kept, rows, First, Last
  <2>4. CASE \E r \in rows : q = kept(r)
    BY <2>2, <2>4
  <2>5. CASE \E r \in First : q = WithoutAgent(r)
    BY <2>3, <2>5, <1>3
  <2>6. CASE \E r \in Last : q = WithoutAD(r)
    BY <2>3, <2>6, <1>3
  <2> QED
    BY <2>1, <2>4, <2>5, <2>6
<1>5. ASSUME NEW r \in rows, NEW s \in rows, r.ad = s.ad, r.agent = s.agent
      PROVE  r = s
  BY <1>1, <1>5 DEF MergedRow
<1>6. ASSUME NEW r \in First, NEW s \in First, r.ad = s.ad
      PROVE  r = s
  <2>1. ~Before(r, s) /\ ~Before(s, r)
    BY <1>6 DEF FirstPerObject
  <2>2. r.index[2] = r.agent.pos /\ s.index[2] = s.agent.pos
    BY <1>2, <1>3, MergedSides
  <2> HIDE DEF First, Last, rows
  <2>3. r.agent.pos = s.agent.pos
    BY <2>1, <2>2, <1>1, <1>3, SamePlace
  <2>4. r.agent = s.agent
    BY <2>3, <1>3, SidesAssumption
  <2> QED
    BY <2>4, <1>3, <1>5, <1>6
<1>7. ASSUME NEW r \in Last, NEW s \in Last, r.agent = s.agent
      PROVE  r = s
  <2>1. ~Before(r, s) /\ ~Before(s, r)
    BY <1>7 DEF FirstPerAgent
  <2>2. r.index[1] = r.ad.pos /\ s.index[1] = s.ad.pos
    BY <1>2, <1>3, MergedSides
  <2> HIDE DEF First, Last, rows
  <2>3. r.ad.pos = s.ad.pos
    BY <2>1, <2>2, <1>1, <1>3, SamePlace
  <2>4. r.ad = s.ad
    BY <2>3, <1>3, SidesAssumption
  <2> QED
    BY <2>4, <1>3, <1>5, <1>7
<1>8. ASSUME NEW r \in rows, NEW s \in First, r.ad = s.ad, r.agent = NoAgent
      PROVE  FALSE
  <2> HIDE DEF First, Last, rows
  <2> QED
    BY <1>1, <1>2, <1>3, <1>8 DEF MergedRow
<1>9. ASSUME NEW r \in rows, NEW s \in Last, r.agent = s.agent, r.ad = NoObject
      PROVE  FALSE
  <2> HIDE DEF First, Last, rows
  <2> QED
    BY <1>1, <1>2, <1>3, <1>9 DEF MergedRow
<1> HIDE DEF rows, First, Last, kept
<1>10. ASSUME NEW q \in Resolved(ad, ag), NEW p \in Resolved(ad, ag),
              q.ad = p.ad, q.agent = p.agent
       PROVE  q = p
  <2>1. PICK r \in rows : FromKept(q, r) \/ FromAD(q, r) \/ FromAgent(q, r)
    BY <1>4
  <2>2. PICK s \in rows : FromKept(p, s) \/ FromAD(p, s) \/ FromAgent(p, s)
    BY <1>4
  <2>3. CASE FromKept(q, r)
    BY <2>2, <2>3, <1>5, <1>8, <1>9, <1>10
  <2>4. CASE FromAD(q, r)
    BY <2>2, <2>4, <1>2, <1>3, <1>6, <1>8, <1>10
  <2>5. CASE FromAgent(q, r)
    BY <2>2, <2>5, <1>2, <1>3, <1>7, <1>9, <1>10
  <2> QED
    BY <2>1, <2>3, <2>4, <2>5
<1>11. QED
  BY <1>10 DEF Identified

\* An agent is an object's own, as far as its name tells.
Own(ad, a, o) == a.key = o.key /\ (Told(ad, o, a) => a.fqdn = o.dns)

LEMMA ResolvedPairs ==
  ASSUME NEW ad \in SUBSET ADObjects, NEW ag \in SUBSET AgentRecords,
         UniqueObjects(ad), UniqueAgents(ag)
  PROVE  LET resolved == Resolved(ad, ag)
         IN  /\ \A q \in resolved :
                   /\ Both(q) => Own(ad, q.agent, q.ad)
                   /\ q.agent = NoAgent => \A a \in ag : ~Own(ad, a, q.ad)
                   /\ q.ad = NoObject => \A o \in ad : ~Own(ad, q.agent, o)
             /\ \A o \in ad, a \in ag : Own(ad, a, o) =>
                   \E q \in resolved : q.ad = o /\ q.agent = a
             /\ \A o \in ad : (\A a \in ag : ~Own(ad, a, o)) =>
                   \E q \in resolved : q.ad = o /\ q.agent = NoAgent
             /\ \A a \in ag : (\A o \in ad : ~Own(ad, a, o)) =>
                   \E q \in resolved : q.ad = NoObject /\ q.agent = a
<1> DEFINE rows == MergeWithAgents(ad, ag)
           resolved == Resolved(ad, ag)
           First == FirstPerObject(UnpairedAD(rows))
           Last == FirstPerAgent(UnmatchedAgents(rows))
<1>1. /\ \A q \in resolved : \E r \in rows : \/ Stays(rows, q, r) \/ Unpaired(rows, q, r)
                                             \/ Unmatched(rows, q, r)
      /\ \A r \in rows : ~Drop(rows, r) => \E q \in resolved : Stays(rows, q, r)
      /\ \A r \in First : \E q \in resolved : Unpaired(rows, q, r)
      /\ \A r \in Last : \E q \in resolved : Unmatched(rows, q, r)
  BY ResolvedRows DEF Resolved
<1>2. \A r \in rows : MergedRow(ad, ag, r)
  BY MergedRows
<1>3. NoObject \notin ad /\ NoAgent \notin ag
  BY SidesAssumption
\* The rows of the merge, and which are dropped.
<1>4. ASSUME NEW r \in rows
      PROVE  /\ Drop(rows, r) <=> r.ad \in ad /\ r.agent \in ag /\ ~Own(ad, r.agent, r.ad)
             /\ Keep(rows, r) <=> /\ r.ad \in ad /\ r.agent \in ag /\ Own(ad, r.agent, r.ad)
                                  /\ Told(ad, r.ad, r.agent)
             /\ Drop(rows, r) => Told(ad, r.ad, r.agent)
  <2>1. /\ Drop(rows, r) <=> Both(r) /\ Told(ad, r.ad, r.agent) /\ r.agent.fqdn # r.ad.dns
        /\ Keep(rows, r) <=> Both(r) /\ Told(ad, r.ad, r.agent) /\ r.agent.fqdn = r.ad.dns
    BY RowsTold
  <2> HIDE DEF rows
  <2> QED
    BY <2>1, <1>2, <1>3 DEF MergedRow, Both, Own
<1>5. /\ \A o \in ad, a \in ag : o.key = a.key =>
            \E r \in rows : r.ad = o /\ r.agent = a
      /\ \A o \in ad : (\A a \in ag : a.key # o.key) => \E r \in rows : r.ad = o /\ r.agent = NoAgent
      /\ \A a \in ag : (\A o \in ad : o.key # a.key) => \E r \in rows : r.ad = NoObject /\ r.agent = a
  <2>1. \A o, a : Row(o, a).ad = o /\ Row(o, a).agent = a
    BY DEF Row
  <2>2. /\ \A o \in ad, a \in ag : o.key = a.key => Row(o, a) \in rows
        /\ \A o \in ad : (\A a \in ag : a.key # o.key) => Row(o, NoAgent) \in rows
        /\ \A a \in ag : (\A o \in ad : o.key # a.key) => Row(NoObject, a) \in rows
    BY MergeKeepsAll
  <2> HIDE DEF rows
  <2> QED
    BY <2>1, <2>2
<1>6. /\ \A r \in UnpairedAD(rows) : r \in rows /\ Drop(rows, r)
      /\ \A r \in UnmatchedAgents(rows) : r \in rows /\ Drop(rows, r)
      /\ First \subseteq UnpairedAD(rows) /\ Last \subseteq UnmatchedAgents(rows)
  BY DEF UnpairedAD, UnmatchedAgents, FirstPerObject, FirstPerAgent
<1>7. /\ \A r \in UnpairedAD(rows) : \E s \in First : AdId(s.ad) = AdId(r.ad)
      /\ \A r \in UnmatchedAgents(rows) : \E s \in Last : AgentId(s.agent) = AgentId(r.agent)
  <2>1. UnpairedAD(rows) \in SUBSET rows /\ UnmatchedAgents(rows) \in SUBSET rows
    BY <1>6
  <2> QED
    BY <2>1, FirstOfIdentity
\* An object stays unpaired when it has no agent, an agent when it has no object.
<1>8. ASSUME NEW r \in rows, Drop(rows, r)
      PROVE  /\ r \in UnpairedAD(rows) <=> \A a \in ag : ~Own(ad, a, r.ad)
             /\ r \in UnmatchedAgents(rows) <=> \A o \in ad : ~Own(ad, r.agent, o)
  <2> HIDE DEF rows
  <2>1. r.ad \in ad /\ r.agent \in ag /\ r.ad.key = r.agent.key /\ Told(ad, r.ad, r.agent)
    BY <1>2, <1>3, <1>4, <1>8 DEF MergedRow
  <2>2. r \in UnpairedAD(rows) <=>
           \A s \in rows : ~Drop(rows, s) /\ s.ad # NoObject => AdId(s.ad) # AdId(r.ad)
    BY <1>8 DEF UnpairedAD
  <2>3. r \in UnmatchedAgents(rows) <=>
           \A s \in rows : Keep(rows, s) => AgentId(s.agent) # AgentId(r.agent)
    BY <1>8 DEF UnmatchedAgents
  <2>4. ASSUME NEW a \in ag, Own(ad, a, r.ad)
        PROVE  r \notin UnpairedAD(rows)
    <3>1. PICK s \in rows : s.ad = r.ad /\ s.agent = a
      BY <2>1, <2>4, <1>5 DEF Own
    <3>2. ~Drop(rows, s) /\ s.ad # NoObject
      BY <3>1, <2>1, <2>4, <1>3, <1>4
    <3> QED
      BY <3>1, <3>2, <2>2
  <2>5. ASSUME NEW s \in rows, ~Drop(rows, s), s.ad # NoObject, AdId(s.ad) = AdId(r.ad)
        PROVE  \E a \in ag : Own(ad, a, r.ad)
    <3>1. s.ad \in ad
      BY <2>5, <1>2 DEF MergedRow
    <3>2. s.ad = r.ad
      BY <3>1, <2>1, <2>5 DEF UniqueObjects
    <3>3. s.agent \in ag
      BY <3>1, <3>2, <2>1, <2>5, <1>2 DEF MergedRow
    <3> QED
      BY <3>1, <3>2, <3>3, <2>5, <1>4
  <2>6. ASSUME NEW o \in ad, Own(ad, r.agent, o)
        PROVE  r \notin UnmatchedAgents(rows)
    <3>1. PICK s \in rows : s.ad = o /\ s.agent = r.agent
      BY <2>1, <2>6, <1>5 DEF Own
    <3>2. Told(ad, o, r.agent)
      BY <2>1, <2>6 DEF Told, Own
    <3>3. Keep(rows, s)
      BY <3>1, <3>2, <2>1, <2>6, <1>4
    <3> QED
      BY <3>1, <3>3, <2>3
  <2>7. ASSUME NEW s \in rows, Keep(rows, s), AgentId(s.agent) = AgentId(r.agent)
        PROVE  \E o \in ad : Own(ad, r.agent, o)
    <3>1. s.ad \in ad /\ s.agent \in ag /\ Own(ad, s.agent, s.ad)
      BY <2>7, <1>4
    <3>2. s.agent = r.agent
      BY <3>1, <2>1, <2>7 DEF UniqueAgents
    <3> QED
      BY <3>1, <3>2
  <2> QED
    BY <2>2, <2>3, <2>4, <2>5, <2>6, <2>7
<1> HIDE DEF rows, resolved, First, Last
<1>9. ASSUME NEW q \in resolved
      PROVE  /\ Both(q) => Own(ad, q.agent, q.ad)
             /\ q.agent = NoAgent => \A a \in ag : ~Own(ad, a, q.ad)
             /\ q.ad = NoObject => \A o \in ad : ~Own(ad, q.agent, o)
  <2>1. PICK r \in rows : \/ Stays(rows, q, r) \/ Unpaired(rows, q, r) \/ Unmatched(rows, q, r)
    BY <1>1
  <2>2. CASE Stays(rows, q, r)
    <3>1. /\ q.ad = r.ad /\ q.agent = r.agent /\ ~Drop(rows, r)
      BY <2>2 DEF Stays
    <3> QED
      BY <3>1, <1>2, <1>3, <1>4 DEF MergedRow, Both, Own
  <2>3. CASE Unpaired(rows, q, r)
    <3>1. r \in UnpairedAD(rows) /\ Drop(rows, r) /\ q.ad = r.ad /\ q.agent = NoAgent
      BY <2>3, <1>6 DEF Unpaired, First, rows
    <3>2. q.ad \in ad
      BY <3>1, <1>4
    <3> QED
      BY <3>1, <3>2, <1>3, <1>8 DEF Both
  <2>4. CASE Unmatched(rows, q, r)
    <3>1. r \in UnmatchedAgents(rows) /\ Drop(rows, r) /\ q.agent = r.agent /\ q.ad = NoObject
      BY <2>4, <1>6 DEF Unmatched, Last, rows
    <3>2. q.agent \in ag
      BY <3>1, <1>4
    <3> QED
      BY <3>1, <3>2, <1>3, <1>8 DEF Both
  <2> QED
    BY <2>1, <2>2, <2>3, <2>4
<1>10. ASSUME NEW o \in ad, NEW a \in ag, Own(ad, a, o)
       PROVE  \E q \in resolved : q.ad = o /\ q.agent = a
  <2>1. PICK r \in rows : r.ad = o /\ r.agent = a
    BY <1>5, <1>10 DEF Own
  <2> QED
    BY <2>1, <1>1, <1>4, <1>10 DEF Stays
<1>11. ASSUME NEW o \in ad, \A a \in ag : ~Own(ad, a, o)
       PROVE  \E q \in resolved : q.ad = o /\ q.agent = NoAgent
  <2>1. CASE \A a \in ag : a.key # o.key
    <3>1. PICK r \in rows : r.ad = o /\ r.agent = NoAgent
      BY <2>1, <1>5
    <3> QED
      BY <3>1, <1>1, <1>3, <1>4 DEF Stays
  <2>2. CASE \E a \in ag : a.key = o.key
    <3>1. PICK r \in rows : r.ad = o /\ r.agent \in ag
      BY <2>2, <1>5
    <3>2. r \in UnpairedAD(rows)
      BY <3>1, <1>4, <1>8, <1>11
    <3>3. PICK s \in First : AdId(s.ad) = AdId(o)
      BY <3>1, <3>2, <1>7
    <3>4. s.ad = o
      BY <3>3, <1>4, <1>6 DEF UniqueObjects
    <3> QED
      BY <3>3, <3>4, <1>1 DEF Unpaired
  <2> QED
    BY <2>1, <2>2
<1>12. ASSUME NEW a \in ag, \A o \in ad : ~Own(ad, a, o)
       PROVE  \E q \in resolved : q.ad = NoObject /\ q.agent = a
  <2>1. CASE \A o \in ad : o.key # a.key
    <3>1. PICK r \in rows : r.ad = NoObject /\ r.agent = a
      BY <2>1, <1>5
    <3> QED
      BY <3>1, <1>1, <1>3, <1>4 DEF Stays
  <2>2. CASE \E o \in ad : o.key = a.key
    <3>1. PICK r \in rows : r.ad \in ad /\ r.agent = a
      BY <2>2, <1>5
    <3>2. r \in UnmatchedAgents(rows)
      BY <3>1, <1>4, <1>8, <1>12
    <3>3. PICK s \in Last : AgentId(s.agent) = AgentId(a)
      BY <3>1, <3>2, <1>7
    <3>4. s.agent = a
      BY <3>3, <1>4, <1>6 DEF UniqueAgents
    <3> QED
      BY <3>3, <3>4, <1>1 DEF Unmatched
  <2> QED
    BY <2>1, <2>2
<1>13. QED
  BY <1>9, <1>10, <1>11, <1>12 DEF resolved

\* With fewer agents: what is paired is paired with all of them, and an object
\* that has no agent among all has none among fewer.
LEMMA FewerAgents ==
  ASSUME NEW ad \in SUBSET ADObjects, NEW all \in SUBSET AgentRecords, NEW ag \in SUBSET all
  PROVE  /\ \A q \in Resolved(ad, ag) : Both(q) =>
               \E p \in Resolved(ad, all) : p.ad = q.ad /\ p.agent = q.agent
         /\ \A p \in Resolved(ad, all) : p.agent = NoAgent =>
               \E q \in Resolved(ad, ag) : /\ q.agent = NoAgent /\ q.ad # NoObject
                                           /\ AdId(q.ad) = AdId(p.ad)
<1> DEFINE rows == MergeWithAgents(ad, ag)
           full == MergeWithAgents(ad, all)
           few == Resolved(ad, ag)
           many == Resolved(ad, all)
<1>1. /\ \A r \in rows : ~Drop(rows, r) => \E q \in few : Stays(rows, q, r)
      /\ \A r \in FirstPerObject(UnpairedAD(rows)) : \E q \in few : Unpaired(rows, q, r)
      /\ \A r \in full : ~Drop(full, r) => \E q \in many : Stays(full, q, r)
      /\ \A q \in many : \E r \in full : \/ Stays(full, q, r) \/ Unpaired(full, q, r)
                                         \/ Unmatched(full, q, r)
  <2>1. ag \in SUBSET AgentRecords
    OBVIOUS
  <2> QED
    BY <2>1, ResolvedRows DEF Resolved
<1>2. (\A r \in rows : MergedRow(ad, ag, r)) /\ (\A r \in full : MergedRow(ad, all, r))
  <2>1. ag \in SUBSET AgentRecords
    OBVIOUS
  <2> QED
    BY <2>1, MergedRows
<1>3. NoObject \notin ad /\ NoAgent \notin all /\ NoAgent \notin ag
  BY SidesAssumption
<1> DEFINE Lost(o, a) == Told(ad, o, a) /\ a.fqdn # o.dns
<1>4. /\ \A r \in rows : Drop(rows, r) <=> r.ad \in ad /\ r.agent \in ag /\ Lost(r.ad, r.agent)
      /\ \A r \in full : Drop(full, r) <=> r.ad \in ad /\ r.agent \in all /\ Lost(r.ad, r.agent)
  <2>1. ag \in SUBSET AgentRecords
    OBVIOUS
  <2>2. /\ \A r \in rows : Drop(rows, r) <=> Both(r) /\ Lost(r.ad, r.agent)
        /\ \A r \in full : Drop(full, r) <=> Both(r) /\ Lost(r.ad, r.agent)
    BY <2>1, RowsTold
  <2> HIDE DEF rows, full, Lost
  <2> QED
    BY <2>2, <1>2, <1>3 DEF MergedRow, Both
<1>5. /\ \A o \in ad, a \in ag : o.key = a.key => \E r \in rows : r.ad = o /\ r.agent = a
      /\ \A o \in ad : (\A a \in ag : a.key # o.key) => \E r \in rows : r.ad = o /\ r.agent = NoAgent
      /\ \A o \in ad, a \in all : o.key = a.key => \E r \in full : r.ad = o /\ r.agent = a
  <2>1. \A o, a : Row(o, a).ad = o /\ Row(o, a).agent = a
    BY DEF Row
  <2>2. ag \in SUBSET AgentRecords
    OBVIOUS
  <2>3. /\ \A o \in ad, a \in ag : o.key = a.key => Row(o, a) \in rows
        /\ \A o \in ad : (\A a \in ag : a.key # o.key) => Row(o, NoAgent) \in rows
        /\ \A o \in ad, a \in all : o.key = a.key => Row(o, a) \in full
    BY <2>2, MergeKeepsAll
  <2> HIDE DEF rows, full
  <2> QED
    BY <2>1, <2>3
<1>6. \A r \in UnpairedAD(rows) :
         \E s \in FirstPerObject(UnpairedAD(rows)) : AdId(s.ad) = AdId(r.ad)
  <2>1. UnpairedAD(rows) \in SUBSET rows /\ ag \in SUBSET AgentRecords
    BY DEF UnpairedAD
  <2> QED
    BY <2>1, FirstOfIdentity
<1>7. /\ \A r \in FirstPerObject(UnpairedAD(rows)) : r \in rows /\ Drop(rows, r)
      /\ \A r \in FirstPerObject(UnpairedAD(full)) :
            r \in full /\ Drop(full, r)
            /\ \A s \in full : ~Drop(full, s) /\ s.ad # NoObject => AdId(s.ad) # AdId(r.ad)
      /\ \A r \in FirstPerAgent(UnmatchedAgents(full)) : r \in full /\ Drop(full, r)
  BY DEF FirstPerObject, FirstPerAgent, UnpairedAD, UnmatchedAgents
<1>8. \A r \in rows :
         Drop(rows, r) /\ (\A s \in rows : ~Drop(rows, s) /\ s.ad # NoObject => AdId(s.ad) # AdId(r.ad))
             => r \in UnpairedAD(rows)
  BY DEF UnpairedAD
<1>9. \A q \in few : Both(q) => \E r \in rows : Stays(rows, q, r)
  <2>1. ag \in SUBSET AgentRecords
    OBVIOUS
  <2> QED
    BY <2>1, ResolvedSides
<1> HIDE DEF rows, full, few, many, Lost
<1>10. ASSUME NEW q \in few, Both(q)
       PROVE  \E p \in many : p.ad = q.ad /\ p.agent = q.agent
  <2>1. PICK r \in rows : ~Drop(rows, r) /\ q.ad = r.ad /\ q.agent = r.agent
    BY <1>9, <1>10 DEF Stays
  <2>2. r.ad \in ad /\ r.agent \in ag /\ r.ad.key = r.agent.key
    BY <2>1, <1>2, <1>3, <1>10 DEF MergedRow, Both
  <2>3. ~Lost(r.ad, r.agent)
    BY <2>1, <2>2, <1>4
  <2>4. PICK s \in full : s.ad = r.ad /\ s.agent = r.agent
    BY <2>2, <1>5
  <2>5. ~Drop(full, s)
    BY <2>3, <2>4, <1>4
  <2> QED
    BY <2>1, <2>4, <2>5, <1>1 DEF Stays
<1>11. ASSUME NEW p \in many, p.agent = NoAgent
       PROVE  \E q \in few : q.agent = NoAgent /\ q.ad # NoObject /\ AdId(q.ad) = AdId(p.ad)
  <2>1. PICK r \in full : Stays(full, p, r) \/ Unpaired(full, p, r) \/ Unmatched(full, p, r)
    BY <1>1
  <2>2. ASSUME NEW o \in ad, \A a \in ag : a.key # o.key, AdId(o) = AdId(p.ad)
        PROVE  \E q \in few : q.agent = NoAgent /\ q.ad # NoObject /\ AdId(q.ad) = AdId(p.ad)
    <3>1. PICK s \in rows : s.ad = o /\ s.agent = NoAgent
      BY <2>2, <1>5
    <3>2. ~Drop(rows, s)
      BY <3>1, <1>3, <1>4
    <3> QED
      BY <3>1, <3>2, <2>2, <1>1, <1>3 DEF Stays
  <2>3. CASE Stays(full, p, r)
    <3>1. r.ad \in ad /\ r.ad = p.ad /\ \A a \in all : a.key # r.ad.key
      BY <2>3, <1>2, <1>3, <1>11 DEF Stays, MergedRow
    <3> QED
      BY <3>1, <2>2
  <2>4. CASE Unpaired(full, p, r)
    <3>1. /\ p.ad = r.ad /\ r.ad \in ad
          /\ \A s \in full : ~Drop(full, s) /\ s.ad # NoObject => AdId(s.ad) # AdId(r.ad)
      BY <2>4, <1>4, <1>7 DEF Unpaired
    <3>2. CASE \A a \in ag : a.key # r.ad.key
      BY <3>1, <3>2, <2>2
    <3>3. CASE \E o \in ad : AdId(o) = AdId(p.ad) /\ \A a \in ag : a.key # o.key
      BY <3>3, <2>2
    <3>4. CASE (\E a \in ag : a.key = r.ad.key)
               /\ ~ \E o \in ad : AdId(o) = AdId(p.ad) /\ \A a \in ag : a.key # o.key
      <4>1. PICK s \in rows : s.ad = r.ad /\ s.agent \in ag
        BY <3>1, <3>4, <1>5
      <4>2. ASSUME NEW t \in rows, t.ad # NoObject, AdId(t.ad) = AdId(r.ad)
            PROVE  Drop(rows, t)
        <5>1. t.ad \in ad /\ t.agent \in ag /\ t.ad.key = t.agent.key
          BY <4>2, <3>1, <3>4, <1>2 DEF MergedRow
        <5>2. PICK u \in full : u.ad = t.ad /\ u.agent = t.agent
          BY <5>1, <1>5
        <5>3. Drop(full, u)
          BY <5>2, <4>2, <3>1
        <5> QED
          BY <5>1, <5>2, <5>3, <1>4
      <4>3. s \in UnpairedAD(rows)
        BY <4>1, <4>2, <3>1, <1>3, <1>8
      <4>4. PICK f \in FirstPerObject(UnpairedAD(rows)) : AdId(f.ad) = AdId(s.ad)
        BY <4>3, <1>6
      <4>5. f.ad \in ad
        BY <1>4, <1>7
      <4> QED
        BY <4>1, <4>4, <4>5, <3>1, <1>1, <1>3 DEF Unpaired
    <3> QED
      BY <3>2, <3>3, <3>4
  <2>5. CASE Unmatched(full, p, r)
    BY <2>5, <1>3, <1>4, <1>7, <1>11 DEF Unmatched
  <2> QED
    BY <2>1, <2>3, <2>4, <2>5
<1>12. QED
  BY <1>10, <1>11 DEF few, many

(***************************************************************************)
(* The stages.                                                             *)
(***************************************************************************)
Same(q, r) ==
    q.ad = r.ad /\ q.agent = r.agent /\ q.key = r.key /\ q.ambiguous = r.ambiguous
Says(rows, F) ==
    /\ \A q \in rows : \E r \in F : Same(q, r)
    /\ \A r \in F : \E q \in rows : Same(q, r)
    /\ Identified(rows)

Methods == {"none", "hostname_exact", "fqdn_exact"}
Statuses == {Blank, "covered", "missing_agent", "orphaned_agent", "stale_coverage"}

\* A stage that only fills in the rows.
LEMMA FilledIn ==
  ASSUME NEW rows, NEW F, Says(rows, F), NEW g, DOMAIN g = rows, \A r \in rows : Same(g[r], r)
  PROVE  Says({g[r] : r \in rows}, F)
<1>1. ASSUME NEW q \in rows, NEW r \in rows, g[q].ad = g[r].ad, g[q].agent = g[r].agent
      PROVE  g[q] = g[r]
  <2>1. q = r
    BY <1>1 DEF Says, Identified, Same
  <2> QED
    BY <2>1
<1>2. QED
  BY <1>1 DEF Says, Identified, Same

LEMMA Classifying ==
  ASSUME NEW rows, \A r \in rows : RowRecord(r) /\ r.method \in Methods
  PROVE  \E g : /\ DOMAIN g = rows /\ ClassifyCoverage(rows) = {g[r] : r \in rows}
                /\ \A r \in rows : /\ Same(g[r], r) /\ RowRecord(g[r]) /\ g[r].method \in Methods
                                   /\ g[r].status = StatusOf(r)
<1> DEFINE g == [r \in rows |->
                   [r EXCEPT !.status = StatusOf(r),
                             !.method = IF ~Both(r) THEN "none"
                                        ELSE IF @ = "none" THEN "hostname_exact" ELSE @]]
<1>1. ClassifyCoverage(rows) = {g[r] : r \in rows}
  BY DEF ClassifyCoverage
<1>2. ASSUME NEW r \in rows
      PROVE  /\ Same(g[r], r) /\ RowRecord(g[r]) /\ g[r].method \in Methods
             /\ g[r].status = StatusOf(r)
  <2> DEFINE st == StatusOf(r)
             md == IF ~Both(r) THEN "none"
                   ELSE IF r.method = "none" THEN "hostname_exact" ELSE r.method
  <2>1. RowRecord(r) /\ md \in Methods
    BY DEF Methods
  <2>2. g[r] = [r EXCEPT !.status = st, !.method = md]
    OBVIOUS
  <2> HIDE DEF g, st, md
  <2>3. /\ Same(g[r], r) /\ RowRecord(g[r]) /\ g[r].method = md /\ g[r].status = st
    BY <2>1, <2>2 DEF Same, RowRecord
  <2> QED
    BY <2>1, <2>3 DEF st
<1>3. DOMAIN g = rows
  OBVIOUS
<1> HIDE DEF g
<1>4. QED
  BY <1>1, <1>2, <1>3

LEMMA Backfilling ==
  ASSUME NEW rows, \A r \in rows : RowRecord(r)
  PROVE  \E g : /\ DOMAIN g = rows /\ BackfillMachineType(rows) = {g[r] : r \in rows}
                /\ \A r \in rows : /\ Same(g[r], r) /\ RowRecord(g[r]) /\ g[r].method = r.method
                                   /\ g[r].status = r.status
<1> DEFINE g == [r \in rows |->
                   [r EXCEPT !.machineType = IF @ # Blank \/ r.ad = NoObject THEN @
                                             ELSE InferMachineType(r.ad.text)]]
<1>1. BackfillMachineType(rows) = {g[r] : r \in rows}
  BY DEF BackfillMachineType
<1>2. \A r \in rows : /\ Same(g[r], r) /\ RowRecord(g[r]) /\ g[r].method = r.method
                      /\ g[r].status = r.status
  BY DEF Same, RowRecord
<1>3. DOMAIN g = rows
  OBVIOUS
<1> HIDE DEF g
<1>4. QED
  BY <1>1, <1>2, <1>3

LEMMA EolClassifying ==
  ASSUME NEW rows, \A r \in rows : RowRecord(r), NEW blankIsGap
  PROVE  \E g : /\ DOMAIN g = rows
                /\ ClassifyEolStatus(rows, blankIsGap) = {g[r] : r \in rows}
                /\ \A r \in rows : /\ Same(g[r], r) /\ RowRecord(g[r]) /\ g[r].method = r.method
                                   /\ g[r].status = r.status /\ g[r].eol \in LifecycleStatus
<1> DEFINE Eol(r) == EolStatusForDevice(Tables, CoalesceText(r, blankIsGap),
                                        CoalesceBuild(r), Today, WarningDays)
           g == [r \in rows |-> [r EXCEPT !.build = CoalesceBuild(r), !.eol = Eol(r)]]
<1>1. ClassifyEolStatus(rows, blankIsGap) = {g[r] : r \in rows}
  BY DEF ClassifyEolStatus
<1>2. \A r : Eol(r) \in LifecycleStatus
  BY DEF EolStatusForDevice, Classify, LifecycleStatus
<1> HIDE DEF Eol
<1>3. \A r \in rows : /\ Same(g[r], r) /\ RowRecord(g[r]) /\ g[r].method = r.method
                      /\ g[r].status = r.status /\ g[r].eol \in LifecycleStatus
  BY <1>2 DEF Same, RowRecord
<1>4. DOMAIN g = rows
  OBVIOUS
<1> HIDE DEF g
<1>5. QED
  BY <1>1, <1>3, <1>4

(***************************************************************************)
(* The invariant.                                                          *)
(***************************************************************************)
TypeInv ==
    /\ objects \in SUBSET ADObjects /\ agents \in SUBSET AgentRecords
    /\ down \subseteq Domains \cup Vendors
    /\ stage \in {"collect", "merged", "resolved", "classified", "backfilled", "done"}
FrameInv ==
    /\ stage = "collect" => frame = {}
    /\ stage = "merged" => frame = MergeWithAgents(CollectedAD, CollectedAgents)
    /\ stage \in {"resolved", "classified", "backfilled", "done"} =>
          /\ Says(frame, Resolved(CollectedAD, CollectedAgents))
          /\ \A r \in frame : RowRecord(r) /\ r.method \in Methods /\ r.status \in Statuses
    /\ Classified => \A r \in frame : r.status = StatusOf(r)
    /\ stage = "done" => \A r \in frame : r.eol \in LifecycleStatus
Inv == TypeInv /\ FrameInv

LEMMA CollectedTyped ==
  ASSUME TypeInv
  PROVE  /\ CollectedAD \in SUBSET ADObjects /\ CollectedAgents \in SUBSET AgentRecords
         /\ \A o \in CollectedAD : o.key # NoKey /\ o \in objects
         /\ \A a \in CollectedAgents : a.key # NoKey /\ a \in agents
  BY DEF TypeInv, CollectedAD, CollectedAgents, AddJoinKey, ADFrame, AgentsFrame

LEMMA StatusSame ==
  ASSUME NEW q, NEW r, Same(q, r)
  PROVE  StatusOf(q) = StatusOf(r) /\ StatusOf(q) \in Statuses
  BY DEF Same, StatusOf, Statuses

LEMMA CollectedKept ==
  ASSUME UNCHANGED <<objects, agents, down>>
  PROVE  CollectedAD' = CollectedAD /\ CollectedAgents' = CollectedAgents
  BY DEF CollectedAD, CollectedAgents, ADFrame, AgentsFrame, AddJoinKey

LEMMA NextInv ==
  ASSUME Inv, [Next]_vars
  PROVE  Inv'
<1> DEFINE F == Resolved(CollectedAD, CollectedAgents)
<1>1. ASSUME NEW s \in Domains \cup Vendors, SourceDown(s)
      PROVE  Inv'
  BY <1>1 DEF SourceDown, Inv, TypeInv, FrameInv, Classified
<1>2. CASE Merge
  <2>1. /\ stage' = "merged" /\ UNCHANGED <<objects, agents, down>>
        /\ frame' = MergeWithAgents(CollectedAD, CollectedAgents)
    BY <1>2 DEF Merge, CollectedAD, CollectedAgents
  <2> QED
    BY <2>1, CollectedKept DEF Inv, TypeInv, FrameInv, Classified
<1>3. CASE Resolve
  <2>1. /\ stage = "merged" /\ stage' = "resolved" /\ UNCHANGED <<objects, agents, down>>
        /\ frame' = ResolveAmbiguousJoinKeys(frame)
    BY <1>3 DEF Resolve, Stage
  <2>2. frame' = F
    BY <2>1 DEF Inv, FrameInv, Resolved
  <2>3. CollectedAD \in SUBSET ADObjects /\ CollectedAgents \in SUBSET AgentRecords
    BY CollectedTyped DEF Inv
  <2>4. Identified(F)
    BY <2>3, ResolvedIdentified
  <2>5. \A r \in F : RowRecord(r) /\ r.method \in Methods /\ r.status \in Statuses
    <3>1. \A r \in F : RowRecord(r) /\ r.method \in {"none", "fqdn_exact"} /\ r.status = Blank
      BY <2>3, ResolvedRows DEF Resolved
    <3> QED
      BY <3>1 DEF Methods, Statuses
  <2> HIDE DEF F
  <2>6. Says(frame', F)
    BY <2>2, <2>4 DEF Says, Same
  <2>7. F' = F
    BY <2>1, CollectedKept DEF F
  <2>8. FrameInv'
    BY <2>1, <2>2, <2>5, <2>6, <2>7 DEF FrameInv, Classified, F
  <2> QED
    BY <2>1, <2>8 DEF Inv, TypeInv
<1>4. CASE ClassifyRows
  <2>1. /\ stage = "resolved" /\ stage' = "classified" /\ UNCHANGED <<objects, agents, down>>
        /\ frame' = ClassifyCoverage(frame)
    BY <1>4 DEF ClassifyRows, Stage
  <2>2. Says(frame, F) /\ \A r \in frame : RowRecord(r) /\ r.method \in Methods
    BY <2>1 DEF Inv, FrameInv
  <2>3. PICK g : /\ DOMAIN g = frame /\ frame' = {g[r] : r \in frame}
                 /\ \A r \in frame : /\ Same(g[r], r) /\ RowRecord(g[r]) /\ g[r].method \in Methods
                                     /\ g[r].status = StatusOf(r)
    BY <2>1, <2>2, Classifying
  <2> HIDE DEF F
  <2>4. Says(frame', F)
    BY <2>2, <2>3, FilledIn
  <2>5. F' = F
    BY <2>1, CollectedKept DEF F
  <2>6. \A r \in frame' : /\ RowRecord(r) /\ r.method \in Methods /\ r.status \in Statuses
                          /\ r.status = StatusOf(r)
    BY <2>3, StatusSame
  <2>7. FrameInv'
    BY <2>1, <2>4, <2>5, <2>6 DEF FrameInv, Classified, F, StatusOf
  <2> QED
    BY <2>1, <2>7 DEF Inv, TypeInv
<1>5. CASE Backfill
  <2>1. /\ stage = "classified" /\ stage' = "backfilled" /\ UNCHANGED <<objects, agents, down>>
        /\ frame' = BackfillMachineType(frame)
    BY <1>5 DEF Backfill, Stage
  <2>2. /\ Says(frame, F)
        /\ \A r \in frame : /\ RowRecord(r) /\ r.method \in Methods /\ r.status \in Statuses
                            /\ r.status = StatusOf(r)
    BY <2>1 DEF Inv, FrameInv, Classified
  <2>3. PICK g : /\ DOMAIN g = frame /\ frame' = {g[r] : r \in frame}
                 /\ \A r \in frame : /\ Same(g[r], r) /\ RowRecord(g[r]) /\ g[r].method = r.method
                                     /\ g[r].status = r.status
    BY <2>1, <2>2, Backfilling
  <2> HIDE DEF F
  <2>4. Says(frame', F)
    BY <2>2, <2>3, FilledIn
  <2>5. F' = F
    BY <2>1, CollectedKept DEF F
  <2>6. \A r \in frame' : /\ RowRecord(r) /\ r.method \in Methods /\ r.status \in Statuses
                          /\ r.status = StatusOf(r)
    BY <2>2, <2>3, StatusSame
  <2>7. FrameInv'
    BY <2>1, <2>4, <2>5, <2>6 DEF FrameInv, Classified, F, StatusOf
  <2> QED
    BY <2>1, <2>7 DEF Inv, TypeInv
<1>6. CASE ClassifyEol
  <2>1. PICK blankIsGap \in BOOLEAN :
            /\ stage = "backfilled" /\ stage' = "done" /\ UNCHANGED <<objects, agents, down>>
            /\ frame' = ClassifyEolStatus(frame, blankIsGap)
    BY <1>6 DEF ClassifyEol, Stage
  <2>2. /\ Says(frame, F)
        /\ \A r \in frame : /\ RowRecord(r) /\ r.method \in Methods /\ r.status \in Statuses
                            /\ r.status = StatusOf(r)
    BY <2>1 DEF Inv, FrameInv, Classified
  <2>3. PICK g : /\ DOMAIN g = frame /\ frame' = {g[r] : r \in frame}
                 /\ \A r \in frame : /\ Same(g[r], r) /\ RowRecord(g[r]) /\ g[r].method = r.method
                                     /\ g[r].status = r.status /\ g[r].eol \in LifecycleStatus
    BY <2>1, <2>2, EolClassifying
  <2> HIDE DEF F
  <2>4. Says(frame', F)
    BY <2>2, <2>3, FilledIn
  <2>5. F' = F
    BY <2>1, CollectedKept DEF F
  <2>6. \A r \in frame' : /\ RowRecord(r) /\ r.method \in Methods /\ r.status \in Statuses
                          /\ r.status = StatusOf(r) /\ r.eol \in LifecycleStatus
    BY <2>2, <2>3, StatusSame
  <2>7. FrameInv'
    BY <2>1, <2>4, <2>5, <2>6 DEF FrameInv, Classified, F, StatusOf
  <2> QED
    BY <2>1, <2>7 DEF Inv, TypeInv
<1>7. CASE UNCHANGED vars
  <2>1. UNCHANGED <<objects, agents, down, stage, frame>>
    BY <1>7 DEF vars
  <2> QED
    BY <2>1, CollectedKept DEF Inv, TypeInv, FrameInv, Classified, StatusOf
<1>8. QED
  BY <1>1, <1>2, <1>3, <1>4, <1>5, <1>6, <1>7 DEF Next

LEMMA Invariance == Spec => []Inv
<1>1. Init => Inv
  BY DEF Init, Inv, TypeInv, FrameInv, Classified
<1>2. Inv /\ [Next]_vars => Inv'
  BY NextInv
<1>3. QED
  BY <1>1, <1>2, PTL DEF Spec
(***************************************************************************)
(* The theorems.                                                           *)
(***************************************************************************)
\* The sides of the rows of a frame that says what F says.
LEMMA FrameSides ==
  ASSUME Inv, stage # "collect", NEW r \in frame
  PROVE  /\ r.ad \in CollectedAD \cup {NoObject} /\ r.agent \in CollectedAgents \cup {NoAgent}
         /\ r.ad # NoObject \/ r.agent # NoAgent
         /\ r.ad # NoObject => r.key = r.ad.key
         /\ r.agent # NoAgent => r.key = r.agent.key
         /\ r.key # NoKey
<1>1. /\ CollectedAD \in SUBSET ADObjects /\ CollectedAgents \in SUBSET AgentRecords
      /\ \A o \in CollectedAD : o.key # NoKey
      /\ \A a \in CollectedAgents : a.key # NoKey
  BY CollectedTyped DEF Inv
<1>2. /\ r.ad \in CollectedAD \cup {NoObject} /\ r.agent \in CollectedAgents \cup {NoAgent}
      /\ r.ad # NoObject \/ r.agent # NoAgent
      /\ r.ad # NoObject => r.key = r.ad.key
      /\ r.agent # NoAgent => r.key = r.agent.key
  <2>1. CASE stage = "merged"
    <3>1. r \in MergeWithAgents(CollectedAD, CollectedAgents)
      BY <2>1 DEF Inv, FrameInv
    <3> QED
      BY <3>1, <1>1, MergedSides
  <2>2. CASE stage # "merged"
    <3>1. Says(frame, Resolved(CollectedAD, CollectedAgents))
      BY <2>2 DEF Inv, TypeInv, FrameInv
    <3>2. PICK q \in Resolved(CollectedAD, CollectedAgents) : Same(r, q)
      BY <3>1 DEF Says
    <3>3. /\ q.ad \in CollectedAD \cup {NoObject} /\ q.agent \in CollectedAgents \cup {NoAgent}
          /\ q.ad # NoObject \/ q.agent # NoAgent
          /\ q.ad # NoObject => q.key = q.ad.key
          /\ q.agent # NoAgent => q.key = q.agent.key
      BY <3>2, <1>1, ResolvedSides
    <3> QED
      BY <3>2, <3>3 DEF Same
  <2> QED
    BY <2>1, <2>2
<1>3. QED
  BY <1>1, <1>2

\* The values of the rows of the merge.
LEMMA RowValues ==
  ASSUME NEW o, NEW a
  PROVE  Row(o, a).status = Blank /\ Row(o, a).method = "none"
  BY DEF Row

LEMMA TypeInvariant == Inv => TypeOK
<1> SUFFICES ASSUME Inv
             PROVE  TypeOK
  OBVIOUS
<1>1. ASSUME NEW r \in frame
      PROVE  /\ r.ad \in ADObjects \cup {NoObject} /\ r.agent \in AgentRecords \cup {NoAgent}
             /\ r.ad # NoObject \/ r.agent # NoAgent
             /\ r.key # NoKey
             /\ r.status \in Statuses /\ r.method \in Methods
             /\ stage = "done" => r.eol \in LifecycleStatus
  <2>1. stage # "collect"
    BY DEF Inv, FrameInv
  <2>2. CollectedAD \in SUBSET ADObjects /\ CollectedAgents \in SUBSET AgentRecords
    BY CollectedTyped DEF Inv
  <2>3. r.status \in Statuses /\ r.method \in Methods
    <3>1. CASE stage = "merged"
      <4>1. r = Row(r.ad, r.agent)
        BY <3>1, <2>2, MergedSides DEF Inv, FrameInv
      <4> QED
        BY <4>1, RowValues DEF Statuses, Methods
    <3>2. CASE stage # "merged"
      BY <2>1, <3>2 DEF Inv, TypeInv, FrameInv
    <3> QED
      BY <3>1, <3>2
  <2>4. stage = "done" => r.eol \in LifecycleStatus
    BY DEF Inv, FrameInv
  <2> QED
    BY <2>1, <2>2, <2>3, <2>4, FrameSides
<1>2. QED
  BY <1>1 DEF TypeOK, Inv, TypeInv, Statuses, Methods

\* The frame is one of rows with a side at least, of a key, of known statuses.
\* A row with neither an object nor an agent would be a device out of nowhere.
THEOREM TypeCorrect == Spec => []TypeOK
  BY Invariance, TypeInvariant, PTL
\* Every identity that was collected has a row.
LEMMA FrameKeepsAll ==
  ASSUME Inv, stage # "collect"
  PROVE  /\ \A o \in CollectedAD : \E r \in frame : r.ad # NoObject /\ AdId(r.ad) = AdId(o)
         /\ \A a \in CollectedAgents :
               \E r \in frame : r.agent # NoAgent /\ AgentId(r.agent) = AgentId(a)
<1>1. CollectedAD \in SUBSET ADObjects /\ CollectedAgents \in SUBSET AgentRecords
  BY CollectedTyped DEF Inv
<1>2. NoObject \notin CollectedAD /\ NoAgent \notin CollectedAgents
  BY <1>1, SidesAssumption
<1>3. CASE stage = "merged"
  <2>1. frame = MergeWithAgents(CollectedAD, CollectedAgents)
    BY <1>3 DEF Inv, FrameInv
  <2>2. /\ \A o \in CollectedAD : \E a : Row(o, a) \in frame
        /\ \A a \in CollectedAgents : \E o : Row(o, a) \in frame
    BY <1>1, <2>1, MergeKeepsAll
  <2>3. \A o, a : Row(o, a).ad = o /\ Row(o, a).agent = a
    BY DEF Row
  <2> QED
    BY <2>2, <2>3, <1>2
<1>4. CASE stage # "merged"
  <2>1. Says(frame, Resolved(CollectedAD, CollectedAgents))
    BY <1>4 DEF Inv, TypeInv, FrameInv
  <2> QED
    BY <2>1, <1>1, ResolvedKeepsAll DEF Says, Same
<1>5. QED
  BY <1>3, <1>4

\* No object's and no agent's identity is lost by the merge, the tiebreak's
\* drops or its deduplications, and none is made up, however identities repeat
\* or are blank.
THEOREM NothingIsLost == Spec => []NothingVanishes
<1>1. Inv => NothingVanishes
  <2> SUFFICES ASSUME Inv, stage # "collect"
               PROVE  /\ {AdId(r.ad) : r \in {r \in frame : r.ad # NoObject}}
                            = {AdId(o) : o \in CollectedAD}
                      /\ {AgentId(r.agent) : r \in {r \in frame : r.agent # NoAgent}}
                            = {AgentId(a) : a \in CollectedAgents}
    BY DEF NothingVanishes
  <2>1. \A r \in frame : /\ r.ad \in CollectedAD \cup {NoObject}
                         /\ r.agent \in CollectedAgents \cup {NoAgent}
    BY FrameSides
  <2>2. {AdId(r.ad) : r \in {r \in frame : r.ad # NoObject}} = {AdId(o) : o \in CollectedAD}
    BY <2>1, FrameKeepsAll, ZenonT(60)
  <2>3. {AgentId(r.agent) : r \in {r \in frame : r.agent # NoAgent}}
            = {AgentId(a) : a \in CollectedAgents}
    BY <2>1, FrameKeepsAll, ZenonT(60)
  <2> QED
    BY <2>2, <2>3, Zenon
<1>2. QED
  BY <1>1, Invariance, PTL

\* Where identities are unique, sharing a hostname is being ambiguous.
LEMMA BelongsIsOwn ==
  ASSUME UniqueObjects(CollectedAD), NEW a, NEW o
  PROVE  Belongs(a, o) <=> Own(CollectedAD, a, o)
  BY DEF Belongs, Own, Told, SharedKey, Shared, UniqueObjects

\* The pairs of a classified frame, where identities are unique.
LEMMA FramePairs ==
  ASSUME Inv, Classified, UniqueObjects(CollectedAD), UniqueAgents(CollectedAgents)
  PROVE  {<<r.ad, r.agent>> : r \in frame} = Reference
<1> DEFINE F == Resolved(CollectedAD, CollectedAgents)
<1>1. CollectedAD \in SUBSET ADObjects /\ CollectedAgents \in SUBSET AgentRecords
  BY CollectedTyped DEF Inv
<1>2. NoObject \notin CollectedAD /\ NoAgent \notin CollectedAgents
  BY <1>1, SidesAssumption
<1>3. Says(frame, F)
  BY DEF Inv, FrameInv, Classified
<1>4. /\ \A q \in F :
            /\ Both(q) => Belongs(q.agent, q.ad)
            /\ q.agent = NoAgent => \A a \in CollectedAgents : ~Belongs(a, q.ad)
            /\ q.ad = NoObject => \A o \in CollectedAD : ~Belongs(q.agent, o)
      /\ \A o \in CollectedAD, a \in CollectedAgents : Belongs(a, o) =>
            \E q \in F : q.ad = o /\ q.agent = a
      /\ \A o \in CollectedAD : (\A a \in CollectedAgents : ~Belongs(a, o)) =>
            \E q \in F : q.ad = o /\ q.agent = NoAgent
      /\ \A a \in CollectedAgents : (\A o \in CollectedAD : ~Belongs(a, o)) =>
            \E q \in F : q.ad = NoObject /\ q.agent = a
  BY <1>1, ResolvedPairs, BelongsIsOwn
<1>5. \A p : p \in Reference <=>
         \/ \E o \in CollectedAD, a \in CollectedAgents : Belongs(a, o) /\ p = <<o, a>>
         \/ \E o \in CollectedAD : (\A a \in CollectedAgents : ~Belongs(a, o)) /\ p = <<o, NoAgent>>
         \/ \E a \in CollectedAgents : (\A o \in CollectedAD : ~Belongs(a, o)) /\ p = <<NoObject, a>>
  BY DEF Reference
<1>6. \A r \in frame : /\ r.ad \in CollectedAD \cup {NoObject}
                       /\ r.agent \in CollectedAgents \cup {NoAgent}
                       /\ r.ad # NoObject \/ r.agent # NoAgent
  BY FrameSides DEF Classified
<1> HIDE DEF F
<1>7. ASSUME NEW r \in frame
      PROVE  <<r.ad, r.agent>> \in Reference
  <2>1. PICK q \in F : q.ad = r.ad /\ q.agent = r.agent
    BY <1>3 DEF Says, Same
  <2>2. CASE r.ad # NoObject /\ r.agent # NoAgent
    BY <2>1, <2>2, <1>4, <1>5, <1>6 DEF Both
  <2>3. CASE r.agent = NoAgent
    BY <2>1, <2>3, <1>4, <1>5, <1>6
  <2>4. CASE r.ad = NoObject
    BY <2>1, <2>4, <1>4, <1>5, <1>6
  <2> QED
    BY <2>2, <2>3, <2>4
<1>8. ASSUME NEW p \in Reference
      PROVE  \E r \in frame : p = <<r.ad, r.agent>>
  <2>1. PICK q \in F : p = <<q.ad, q.agent>>
    BY <1>4, <1>5
  <2> QED
    BY <2>1, <1>3 DEF Says, Same
<1>9. QED
  BY <1>7, <1>8

LEMMA ReferenceFinite ==
  ASSUME Inv
  PROVE  IsFiniteSet(Reference)
<1> DEFINE P == (ADObjects \cup {NoObject}) \X (AgentRecords \cup {NoAgent})
<1>1. IsFiniteSet(P)
  BY SidesAssumption, FS_AddElement, FS_Product
<1>2. Reference \in SUBSET P
  <2>1. CollectedAD \in SUBSET ADObjects /\ CollectedAgents \in SUBSET AgentRecords
    BY CollectedTyped DEF Inv
  <2> QED
    BY <2>1 DEF Reference
<1> HIDE DEF P
<1>3. QED
  BY <1>1, <1>2, FS_Subset

\* Where no identity repeats, the staged algorithm gives one row for each agent
\* and object that belong together, for each object without an agent and for
\* each agent without an object, and no other.
THEOREM FrameSaysReference == Spec => []FrameIsReference
<1>1. Inv => FrameIsReference
  <2> SUFFICES ASSUME Inv, Classified, UniqueObjects(CollectedAD), UniqueAgents(CollectedAgents)
               PROVE  /\ {<<r.ad, r.agent>> : r \in frame} = Reference
                      /\ Cardinality(frame) = Cardinality(Reference)
    BY DEF FrameIsReference
  <2>1. {<<r.ad, r.agent>> : r \in frame} = Reference
    BY FramePairs
  <2>2. Cardinality(frame) = Cardinality(Reference)
    <3> DEFINE f == [r \in frame |-> <<r.ad, r.agent>>]
    <3>1. Identified(frame)
      BY DEF Inv, FrameInv, Classified, Says
    <3>2. f \in [frame -> Reference] /\ \A p \in Reference : \E r \in frame : f[r] = p
      BY <2>1
    <3>3. \A q, r \in frame : f[q] = f[r] => q = r
      BY <3>1 DEF Identified
    <3> HIDE DEF f
    <3>4. f \in Bijection(frame, Reference)
      BY <3>2, <3>3, Fun_IsInj, Fun_IsSurj DEF Bijection
    <3>5. ExistsBijection(Reference, frame)
      BY <3>4, Fun_ExistsBijSymmetric DEF ExistsBijection
    <3> QED
      BY <3>5, ReferenceFinite, FS_Bijection
  <2> QED
    BY <2>1, <2>2
<1>2. QED
  BY <1>1, Invariance, PTL
\* A row of both sides, in a classified frame: a row of the merge that stayed.
LEMMA PairedRows ==
  ASSUME Inv, Classified, NEW r \in frame, Both(r)
  PROVE  /\ r.ad \in CollectedAD /\ r.agent \in CollectedAgents
         /\ r.key = r.ad.key /\ r.key = r.agent.key
         /\ r.ambiguous = (Shared(CollectedAD, r.ad.key) /\ ~Told(CollectedAD, r.ad, r.agent))
         /\ Told(CollectedAD, r.ad, r.agent) => r.agent.fqdn = r.ad.dns
<1> DEFINE rows == MergeWithAgents(CollectedAD, CollectedAgents)
           F == Resolved(CollectedAD, CollectedAgents)
<1>1. CollectedAD \in SUBSET ADObjects /\ CollectedAgents \in SUBSET AgentRecords
  BY CollectedTyped DEF Inv
<1>2. Says(frame, F)
  BY DEF Inv, FrameInv, Classified
<1>3. PICK q \in F : Same(r, q)
  BY <1>2 DEF Says
<1>4. Both(q)
  BY <1>3 DEF Same, Both
<1>5. PICK s \in rows : Stays(rows, q, s)
  BY <1>1, <1>4, ResolvedSides
<1>6. s.ad = r.ad /\ s.agent = r.agent /\ ~Drop(rows, s)
      /\ r.ambiguous = (Paired(rows, s) /\ ~ByFqdn(rows, s))
  BY <1>3, <1>5 DEF Stays, Same
<1>7. /\ Paired(rows, s) <=> Both(s) /\ Shared(CollectedAD, s.ad.key)
      /\ ByFqdn(rows, s) <=> Both(s) /\ Told(CollectedAD, s.ad, s.agent)
      /\ Drop(rows, s) <=> /\ Both(s) /\ Told(CollectedAD, s.ad, s.agent)
                           /\ s.agent.fqdn # s.ad.dns
  BY <1>1, RowsTold
<1> HIDE DEF rows, F
<1>8. Both(s)
  BY <1>6 DEF Both
<1>9. /\ r.ambiguous = (Shared(CollectedAD, r.ad.key) /\ ~Told(CollectedAD, r.ad, r.agent))
      /\ Told(CollectedAD, r.ad, r.agent) => r.agent.fqdn = r.ad.dns
  BY <1>6, <1>7, <1>8
<1>10. QED
  BY <1>9, FrameSides DEF Both, Classified

\* An agent's row without a flag is of its own machine, or of a machine that nothing
\* in the export contradicts: its own is not there under this hostname, and if others
\* share the hostname its full name was the row's.
THEOREM AgentsOnRightMachine == Spec => []RightMachine
<1>1. ASSUME Inv, Classified, UniqueObjects(CollectedAD),
             NEW r \in frame, Both(r), ~r.ambiguous, r.ad.pos # r.agent.home
      PROVE  /\ \A o \in CollectedAD : o.key = r.key => o.pos # r.agent.home
             /\ SharedKey(r.key) => r.agent.fqdn # Blank /\ r.agent.fqdn = r.ad.dns
  <2>1. /\ r.ad \in CollectedAD /\ r.agent \in CollectedAgents /\ r.key = r.ad.key
        /\ ~ (Shared(CollectedAD, r.ad.key) /\ ~Told(CollectedAD, r.ad, r.agent))
        /\ Told(CollectedAD, r.ad, r.agent) => r.agent.fqdn = r.ad.dns
    BY <1>1, PairedRows
  <2>2. SharedKey(r.key) => r.agent.fqdn # Blank /\ r.agent.fqdn = r.ad.dns
    <3>1. SharedKey(r.key) => Shared(CollectedAD, r.ad.key)
      BY <1>1, <2>1 DEF SharedKey, Shared, UniqueObjects
    <3> QED
      BY <2>1, <3>1 DEF Told
  <2>3. ASSUME NEW home \in CollectedAD, home.key = r.key, home.pos = r.agent.home
        PROVE  FALSE
    <3>1. home # r.ad
      BY <1>1, <2>3
    <3>2. /\ AdId(home) # Blank /\ AdId(r.ad) # Blank
          /\ AdId(home) # AdId(r.ad)
      BY <1>1, <2>1, <3>1 DEF UniqueObjects
    <3>3. SharedKey(r.key)
      BY <2>1, <2>3, <3>2 DEF SharedKey
    <3>4. home \in ADObjects /\ r.agent \in AgentRecords
      BY <1>1, <2>1, CollectedTyped DEF Inv
    <3>5. home.dns = r.agent.fqdn
      BY <2>2, <2>3, <3>3, <3>4, SidesAssumption
    <3> QED
      BY <2>2, <3>2, <3>3, <3>5 DEF AdId
  <2> QED
    BY <2>2, <2>3
<1>2. Inv => RightMachine
  BY <1>1 DEF RightMachine
<1>3. QED
  BY <1>2, Invariance, PTL

\* The rows of a frame that classifies what F says.
LEMMA StatusOfSides ==
  ASSUME NEW r
  PROVE  /\ StatusOf(r) = "missing_agent" <=> r.agent = NoAgent
         /\ StatusOf(r) = "covered" => Both(r)
  BY DEF StatusOf, Both

\* A vendor console that did not answer never makes a machine covered, nor
\* hides one that has no agent: the frame of what was collected is as bad as
\* the frame of everything, or worse.
THEOREM PartialFramesUnderstate == Spec => []PartialUnderstates
<1> DEFINE few == Resolved(CollectedAD, CollectedAgents)
           all == AddJoinKey(agents)
           many == Resolved(CollectedAD, all)
<1>1. ASSUME Inv, Classified
      PROVE  /\ With(frame, "covered") \subseteq With(FullFrame, "covered")
             /\ With(FullFrame, "missing_agent") \subseteq With(frame, "missing_agent")
  <2>1. /\ CollectedAD \in SUBSET ADObjects /\ all \in SUBSET AgentRecords
        /\ CollectedAgents \in SUBSET all
    BY <1>1, CollectedTyped DEF Inv, TypeInv, CollectedAgents, AddJoinKey, AgentsFrame
  <2>2. PICK g : /\ DOMAIN g = many /\ FullFrame = {g[p] : p \in many}
                 /\ \A p \in many : Same(g[p], p) /\ g[p].status = StatusOf(p)
    <3>1. \A q \in many : RowRecord(q) /\ q.method \in Methods
      <4>1. \A q \in many : RowRecord(q) /\ q.method \in {"none", "fqdn_exact"}
        BY <2>1, ResolvedRows DEF Resolved
      <4> QED
        BY <4>1 DEF Methods
    <3>2. FullFrame = ClassifyCoverage(many)
      BY DEF FullFrame, Resolved
    <3> HIDE DEF many
    <3> QED
      BY <3>1, <3>2, Classifying
  <2>3. /\ \A q \in few : Both(q) => \E p \in many : p.ad = q.ad /\ p.agent = q.agent
        /\ \A p \in many : p.agent = NoAgent =>
              \E q \in few : q.agent = NoAgent /\ q.ad # NoObject /\ AdId(q.ad) = AdId(p.ad)
    BY <2>1, FewerAgents
  <2>4. Says(frame, few) /\ \A r \in frame : r.status = StatusOf(r)
    BY <1>1 DEF Inv, FrameInv, Classified
  <2> HIDE DEF few, many, all
  <2>5. ASSUME NEW x \in With(frame, "covered")
        PROVE  x \in With(FullFrame, "covered")
    <3>1. PICK r \in frame : r.status = "covered" /\ x = AdId(r.ad)
      BY <2>5 DEF With
    <3>2. PICK q \in few : Same(r, q)
      BY <2>4 DEF Says
    <3>3. Both(q)
      BY <3>1, <3>2, <2>4, StatusOfSides DEF Same, Both
    <3>4. PICK p \in many : p.ad = r.ad /\ p.agent = r.agent
      BY <3>2, <3>3, <2>3 DEF Same
    <3>5. g[p] \in FullFrame /\ g[p].ad = r.ad /\ g[p].status = "covered"
      <4>1. StatusOf(p) = StatusOf(r)
        BY <3>4 DEF StatusOf
      <4> QED
        BY <4>1, <3>1, <3>4, <2>2, <2>4 DEF Same
    <3> QED
      BY <3>1, <3>5 DEF With
  <2>6. ASSUME NEW x \in With(FullFrame, "missing_agent")
        PROVE  x \in With(frame, "missing_agent")
    <3>1. PICK h \in FullFrame : h.status = "missing_agent" /\ x = AdId(h.ad)
      BY <2>6 DEF With
    <3>2. PICK p \in many : h = g[p]
      BY <3>1, <2>2
    <3>3. p.agent = NoAgent /\ x = AdId(p.ad)
      BY <3>1, <3>2, <2>2, StatusOfSides DEF Same
    <3>4. PICK q \in few : q.agent = NoAgent /\ AdId(q.ad) = x
      BY <3>3, <2>3
    <3>5. PICK r \in frame : Same(r, q)
      BY <2>4 DEF Says
    <3>6. r.status = "missing_agent" /\ AdId(r.ad) = x
      BY <3>4, <3>5, <2>4, StatusOfSides DEF Same
    <3> QED
      BY <3>6 DEF With
  <2> QED
    BY <2>5, <2>6
<1>2. Inv => PartialUnderstates
  BY <1>1 DEF PartialUnderstates
<1>3. QED
  BY <1>2, Invariance, PTL

\* Names that several identities share.
LEMMA SharedNames ==
  ASSUME NEW ad \in SUBSET ADObjects, NEW k
  PROVE  Cardinality({AdId(o) : o \in {o \in ad : o.key = k}} \ {Blank}) > 1 <=> Shared(ad, k)
<1> DEFINE ids == {AdId(o) : o \in {o \in ad : o.key = k}} \ {Blank}
<1>1. IsFiniteSet(ids)
  <2> DEFINE f == [o \in ADObjects |-> AdId(o)]
             T == {f[o] : o \in ADObjects}
  <2>1. IsFiniteSet(T)
    <3>1. f \in [ADObjects -> T] /\ \A t \in T : \E x \in ADObjects : f[x] = t
      OBVIOUS
    <3> HIDE DEF f, T
    <3> QED
      BY <3>1, ImageFinite, SidesAssumption
  <2>2. ids \in SUBSET T
    OBVIOUS
  <2> HIDE DEF T, ids
  <2> QED
    BY <2>1, <2>2, FS_Subset
<1>2. Shared(ad, k) <=> \E x, y \in ids : x # y
  BY DEF Shared
<1> HIDE DEF ids
<1>3. Cardinality(ids) > 1 <=> \E x, y \in ids : x # y
  BY <1>1, TwoElements
<1>4. QED
  BY <1>2, <1>3 DEF ids

\* The summary counts each ambiguous hostname once: those that several objects
\* share and that an agent reported without its domain.
THEOREM AmbiguousNamesCounted == Spec => []AmbiguousKeysCounted
<1>1. ASSUME Inv, stage = "done"
      PROVE  {r.key : r \in {r \in frame : r.ambiguous}} =
             {a.key : a \in {a \in CollectedAgents : a.fqdn = Blank /\
                 Cardinality({AdId(o) : o \in {o \in CollectedAD : o.key = a.key}} \ {Blank}) > 1}}
  <2> DEFINE rows == MergeWithAgents(CollectedAD, CollectedAgents)
             F == Resolved(CollectedAD, CollectedAgents)
  <2>1. CollectedAD \in SUBSET ADObjects /\ CollectedAgents \in SUBSET AgentRecords
    BY <1>1, CollectedTyped DEF Inv
  <2>2. Classified /\ Says(frame, F)
    BY <1>1 DEF Inv, FrameInv, Classified
  <2>3. ASSUME NEW r \in frame, r.ambiguous
        PROVE  /\ r.agent \in CollectedAgents /\ r.key = r.agent.key
               /\ r.agent.fqdn = Blank /\ Shared(CollectedAD, r.key)
    <3>1. PICK q \in F : Same(r, q)
      BY <2>2 DEF Says
    <3>2. PICK s \in rows : \/ Stays(rows, q, s) \/ Unpaired(rows, q, s)
                            \/ Unmatched(rows, q, s)
      BY <2>1, ResolvedRows DEF Resolved
    <3>3. Stays(rows, q, s) /\ Paired(rows, s)
      BY <2>3, <3>1, <3>2 DEF Same, Unpaired, Unmatched, Stays
    <3>4. Both(r)
      BY <3>1, <3>3 DEF Same, Stays, Paired, Both
    <3> QED
      BY <1>1, <2>2, <2>3, <3>4, PairedRows DEF Told
  <2>4. ASSUME NEW a \in CollectedAgents, a.fqdn = Blank, Shared(CollectedAD, a.key)
        PROVE  \E r \in frame : r.ambiguous /\ r.key = a.key
    <3>1. PICK o \in CollectedAD : o.key = a.key
      BY <2>4 DEF Shared
    <3>2. PICK s \in rows : s.ad = o /\ s.agent = a
      <4>1. Row(o, a) \in rows
        BY <2>1, <3>1, MergeKeepsAll
      <4>2. Row(o, a).ad = o /\ Row(o, a).agent = a
        BY DEF Row
      <4> HIDE DEF rows
      <4> QED
        BY <4>1, <4>2
    <3>3. Both(s) /\ s.key = a.key
      BY <2>1, <3>2, MergedSides, SidesAssumption DEF Both
    <3>4. Paired(rows, s) /\ ~ByFqdn(rows, s) /\ ~Drop(rows, s)
      <4>1. /\ Paired(rows, s) <=> Both(s) /\ Shared(CollectedAD, s.ad.key)
            /\ ByFqdn(rows, s) <=> Both(s) /\ Told(CollectedAD, s.ad, s.agent)
            /\ Drop(rows, s) <=> /\ Both(s) /\ Told(CollectedAD, s.ad, s.agent)
                                 /\ s.agent.fqdn # s.ad.dns
        BY <2>1, RowsTold
      <4> HIDE DEF rows
      <4> QED
        BY <4>1, <2>4, <3>1, <3>2, <3>3 DEF Told
    <3>5. PICK q \in F : Stays(rows, q, s)
      BY <2>1, <3>4, ResolvedRows DEF Resolved
    <3>6. PICK r \in frame : Same(r, q)
      BY <2>2 DEF Says
    <3> HIDE DEF rows, F
    <3> QED
      BY <3>3, <3>4, <3>5, <3>6 DEF Same, Stays
  <2>5. \A a : Cardinality({AdId(o) : o \in {o \in CollectedAD : o.key = a.key}} \ {Blank}) > 1
                  <=> Shared(CollectedAD, a.key)
    BY <2>1, SharedNames
  <2> HIDE DEF rows, F
  <2>6. {a.key : a \in {a \in CollectedAgents : a.fqdn = Blank /\
            Cardinality({AdId(o) : o \in {o \in CollectedAD : o.key = a.key}} \ {Blank}) > 1}} =
        {a.key : a \in {a \in CollectedAgents : a.fqdn = Blank /\ Shared(CollectedAD, a.key)}}
    BY <2>5
  <2>7. {r.key : r \in {r \in frame : r.ambiguous}} =
        {a.key : a \in {a \in CollectedAgents : a.fqdn = Blank /\ Shared(CollectedAD, a.key)}}
    BY <2>3, <2>4
  <2> QED
    BY <2>6, <2>7
<1>2. Inv => AmbiguousKeysCounted
  BY <1>1 DEF AmbiguousKeysCounted, Summarize
<1>3. QED
  BY <1>2, Invariance, PTL
(***************************************************************************)
(* The summary.                                                            *)
(***************************************************************************)
Known(rows) ==
    Count(rows, "covered") + Count(rows, "stale_coverage") + Count(rows, "missing_agent")
Uncovered(rows) == Count(rows, "stale_coverage") + Count(rows, "missing_agent")
CollectedKeys == {o.key : o \in CollectedAD} \cup {a.key : a \in CollectedAgents}

\* What a reader of a summary takes for granted: its counts add up to its
\* rows, its shares are shares, 100.0 means that nothing AD knows of is
\* without an agent unless 2000 rows or more are known, and where identities
\* are unique its devices are the hostnames that were collected.
SummaryAddsUp ==
    stage = "done" =>
        LET s == Summarize(frame)
        IN /\ s.totalRows = Known(frame) + Count(frame, "orphaned_agent")
           /\ s.uniqueDevices =< s.totalRows /\ s.atRisk =< s.totalRows
           /\ s.coverage \in 0 .. 1000 /\ s.serverCoverage \in 0 .. 1000
           /\ s.coverage = 1000 /\ Known(frame) < 2000 => Uncovered(frame) = 0
           /\ UniqueObjects(CollectedAD) /\ UniqueAgents(CollectedAgents) =>
                 s.uniqueDevices = Cardinality(CollectedKeys)

LEMMA Rounding ==
  ASSUME NEW c \in Nat, NEW k \in Nat, c =< k, k > 0
  PROVE  LET q == (2000 * c + k) \div (2 * k)
         IN /\ q \in 0 .. 1000
            /\ q = 1000 /\ k < 2000 => c = k
<1> DEFINE n == 2000 * c + k
           d == 2 * k
           q == n \div d
<1>1. n \in Nat /\ d \in Nat /\ d > 0
  OBVIOUS
<1>2. q \in Int /\ d * q =< n /\ n < d * (q + 1)
  <2> HIDE DEF n, d
  <2> QED
    BY <1>1
<1> HIDE DEF q
<1>3. q >= 0
  <2> SUFFICES ASSUME q + 1 =< 0
               PROVE  FALSE
    BY <1>2
  <2>1. d * (q + 1) =< 0
    BY <1>1, <1>2
  <2> QED
    BY <1>1, <1>2, <2>1
<1>4. q =< 1000
  <2> SUFFICES ASSUME q >= 1001
               PROVE  FALSE
    BY <1>2
  <2>1. d * q >= d * 1001
    <3> HIDE DEF d, n
    <3> QED
      BY <1>1, <1>2
  <2> QED
    BY <1>2, <2>1
<1>5. ASSUME q = 1000, k < 2000
      PROVE  c = k
  BY <1>2, <1>5
<1>6. QED
  BY <1>2, <1>3, <1>4, <1>5 DEF q

LEMMA Disjoint ==
  ASSUME NEW S, NEW T, IsFiniteSet(S), IsFiniteSet(T), S \cap T = {}
  PROVE  /\ IsFiniteSet(S \cup T)
         /\ Cardinality(S \cup T) = Cardinality(S) + Cardinality(T)
<1>1. Cardinality(S \cap T) = 0
  BY FS_EmptySet
<1>2. Cardinality(S) \in Nat /\ Cardinality(T) \in Nat
  BY FS_CardinalityType
<1>3. /\ IsFiniteSet(S \cup T)
      /\ Cardinality(S \cup T) = Cardinality(S) + Cardinality(T) - Cardinality(S \cap T)
  BY FS_Union
<1>4. QED
  BY <1>1, <1>2, <1>3

\* The counts of a frame, when each row has one of the four statuses.
LEMMA CountsAddUp ==
  ASSUME NEW rows, IsFiniteSet(rows), \A r \in rows : r.status \in Statuses \ {Blank}
  PROVE  /\ Count(rows, "covered") \in Nat /\ Count(rows, "stale_coverage") \in Nat
         /\ Count(rows, "missing_agent") \in Nat /\ Count(rows, "orphaned_agent") \in Nat
         /\ Cardinality(rows) = Known(rows) + Count(rows, "orphaned_agent")
<1> DEFINE S(status) == {r \in rows : r.status = status}
<1>1. \A status : IsFiniteSet(S(status)) /\ Cardinality(S(status)) \in Nat
  BY FS_Subset, FS_CardinalityType
<1>2. \A s, t : s # t => S(s) \cap S(t) = {}
  OBVIOUS
<1> DEFINE A == S("covered") \cup S("stale_coverage")
           B == A \cup S("missing_agent")
<1>3. IsFiniteSet(A) /\ Cardinality(A) = Count(rows, "covered") + Count(rows, "stale_coverage")
  <2>1. S("covered") \cap S("stale_coverage") = {}
    BY <1>2
  <2> QED
    BY <1>1, <2>1, Disjoint DEF Count
<1>4. IsFiniteSet(B) /\ Cardinality(B) = Known(rows)
  <2>1. A \cap S("missing_agent") = {}
    OBVIOUS
  <2> HIDE DEF A
  <2>2. /\ IsFiniteSet(B)
        /\ Cardinality(B) = Cardinality(A) + Cardinality(S("missing_agent"))
    BY <1>1, <1>3, <2>1, Disjoint
  <2> QED
    BY <1>3, <2>2 DEF Known, Count
<1>5. Cardinality(rows) = Known(rows) + Count(rows, "orphaned_agent")
  <2>1. B \cap S("orphaned_agent") = {}
    OBVIOUS
  <2>2. B \cup S("orphaned_agent") = rows
    BY DEF Statuses
  <2> HIDE DEF B
  <2>3. Cardinality(B \cup S("orphaned_agent")) =
           Cardinality(B) + Cardinality(S("orphaned_agent"))
    BY <1>1, <1>4, <2>1, Disjoint
  <2> QED
    BY <1>4, <2>2, <2>3 DEF Count
<1>6. QED
  BY <1>1, <1>5 DEF Count

\* A share is a share, and a full one is full up to rounding.
LEMMA SharesAreShares ==
  ASSUME NEW rows, IsFiniteSet(rows), \A r \in rows : r.status \in Statuses \ {Blank}
  PROVE  /\ CoveragePct(rows) \in 0 .. 1000
         /\ CoveragePct(rows) = 1000 /\ Known(rows) < 2000 => Uncovered(rows) = 0
<1> DEFINE c == Count(rows, "covered")
           k == Known(rows)
<1>1. c \in Nat /\ k \in Nat /\ c =< k /\ Uncovered(rows) = k - c
  BY CountsAddUp DEF Known, Uncovered
<1>2. CoveragePct(rows) = IF k = 0 THEN 0 ELSE (2000 * c + k) \div (2 * k)
  BY DEF CoveragePct, Known
<1> HIDE DEF c, k
<1>3. CASE k = 0
  BY <1>2, <1>3
<1>4. CASE k # 0
  <2>1. k > 0
    BY <1>1, <1>4
  <2> DEFINE q == (2000 * c + k) \div (2 * k)
  <2>2. q \in 0 .. 1000 /\ (q = 1000 /\ k < 2000 => c = k)
    BY <1>1, <2>1, Rounding
  <2> HIDE DEF q
  <2>3. CoveragePct(rows) = q
    BY <1>2, <1>4 DEF q
  <2>4. CoveragePct(rows) = 1000 /\ k < 2000 => Uncovered(rows) = 0
    BY <1>1, <2>2, <2>3
  <2> QED
    BY <2>2, <2>3, <2>4 DEF k
<1>5. QED
  BY <1>3, <1>4

\* A finite frame: one row for each pair of sides.
LEMMA FrameFinite ==
  ASSUME Inv, Classified
  PROVE  IsFiniteSet(frame)
<1> DEFINE P == (ADObjects \cup {NoObject}) \X (AgentRecords \cup {NoAgent})
           f == [r \in frame |-> <<r.ad, r.agent>>]
<1>1. IsFiniteSet(P)
  BY SidesAssumption, FS_AddElement, FS_Product
<1>2. CollectedAD \in SUBSET ADObjects /\ CollectedAgents \in SUBSET AgentRecords
  BY CollectedTyped DEF Inv
<1>3. f \in [frame -> P]
  BY <1>2, FrameSides DEF Classified
<1>4. \A q, r \in frame : f[q] = f[r] => q = r
  BY DEF Inv, FrameInv, Classified, Says, Identified
<1> HIDE DEF f, P
<1>5. f \in Injection(frame, P)
  BY <1>3, <1>4, Fun_IsInj
<1>6. QED
  BY <1>1, <1>5, FS_Injection

\* The hostnames of a frame are those collected, where identities are unique.
LEMMA FrameKeys ==
  ASSUME Inv, Classified, UniqueObjects(CollectedAD), UniqueAgents(CollectedAgents)
  PROVE  {r.key : r \in frame} = CollectedKeys
<1>1. CollectedAD \in SUBSET ADObjects /\ CollectedAgents \in SUBSET AgentRecords
  BY CollectedTyped DEF Inv
<1>2. NoObject \notin CollectedAD /\ NoAgent \notin CollectedAgents
  BY <1>1, SidesAssumption
<1>3. \A r \in frame : r.key \in CollectedKeys
  BY FrameSides DEF Classified, CollectedKeys
<1>4. /\ \A o \in CollectedAD : \E r \in frame : r.ad # NoObject /\ AdId(r.ad) = AdId(o)
      /\ \A a \in CollectedAgents : \E r \in frame : r.agent # NoAgent /\ AgentId(r.agent) = AgentId(a)
  BY FrameKeepsAll DEF Classified
<1>5. ASSUME NEW o \in CollectedAD
      PROVE  \E r \in frame : r.key = o.key
  <2>1. PICK r \in frame : r.ad # NoObject /\ AdId(r.ad) = AdId(o)
    BY <1>4
  <2>2. r.ad \in CollectedAD /\ r.key = r.ad.key
    BY <2>1, FrameSides DEF Classified
  <2>3. r.ad = o
    BY <2>1, <2>2 DEF UniqueObjects
  <2> QED
    BY <2>2, <2>3
<1>6. ASSUME NEW a \in CollectedAgents
      PROVE  \E r \in frame : r.key = a.key
  <2>1. PICK r \in frame : r.agent # NoAgent /\ AgentId(r.agent) = AgentId(a)
    BY <1>4
  <2>2. r.agent \in CollectedAgents /\ r.key = r.agent.key
    BY <2>1, FrameSides DEF Classified
  <2>3. r.agent = a
    BY <2>1, <2>2 DEF UniqueAgents
  <2> QED
    BY <2>2, <2>3
<1>7. QED
  BY <1>3, <1>5, <1>6 DEF CollectedKeys

\* A summary adds up, for every inventory and outage (summarize, coverage_pct):
\* every row is counted in one status, a coverage of 100.0 below 2000 known
\* rows leaves no machine out, and no hostname is lost from its devices.
THEOREM SummariesAddUp == Spec => []SummaryAddsUp
<1>1. ASSUME Inv, stage = "done"
      PROVE  LET s == Summarize(frame)
             IN /\ s.totalRows = Known(frame) + Count(frame, "orphaned_agent")
                /\ s.uniqueDevices =< s.totalRows /\ s.atRisk =< s.totalRows
                /\ s.coverage \in 0 .. 1000 /\ s.serverCoverage \in 0 .. 1000
                /\ s.coverage = 1000 /\ Known(frame) < 2000 => Uncovered(frame) = 0
                /\ UniqueObjects(CollectedAD) /\ UniqueAgents(CollectedAgents) =>
                      s.uniqueDevices = Cardinality(CollectedKeys)
  <2> DEFINE servers == {r \in frame : r.machineType = "server"}
             risky == {r \in frame : r.eol \in {"end_of_life", "eol_soon"}}
             keys == {r.key : r \in frame}
  <2>1. Classified /\ IsFiniteSet(frame)
    BY <1>1, FrameFinite DEF Classified
  <2>2. \A r \in frame : r.status \in Statuses \ {Blank}
    BY <1>1, <2>1 DEF Inv, FrameInv, StatusOf, Statuses, Blank
  <2>3. IsFiniteSet(servers) /\ IsFiniteSet(risky) /\ Cardinality(risky) =< Cardinality(frame)
    BY <2>1, FS_Subset
  <2>4. Cardinality(keys) =< Cardinality(frame)
    <3> DEFINE f == [r \in frame |-> r.key]
    <3>1. f \in [frame -> keys] /\ \A k \in keys : \E r \in frame : f[r] = k
      OBVIOUS
    <3> HIDE DEF f, keys
    <3>2. f \in Surjection(frame, keys)
      BY <3>1 DEF Surjection
    <3> QED
      BY <2>1, <3>2, FS_Surjection
  <2>5. Cardinality(frame) = Known(frame) + Count(frame, "orphaned_agent")
    BY <2>1, <2>2, CountsAddUp
  <2>6. /\ CoveragePct(frame) \in 0 .. 1000
        /\ CoveragePct(frame) = 1000 /\ Known(frame) < 2000 => Uncovered(frame) = 0
    BY <2>1, <2>2, SharesAreShares
  <2>7. CoveragePct(servers) \in 0 .. 1000
    <3>1. \A r \in servers : r.status \in Statuses \ {Blank}
      BY <2>2
    <3> HIDE DEF servers
    <3> QED
      BY <2>3, <3>1, SharesAreShares
  <2>8. UniqueObjects(CollectedAD) /\ UniqueAgents(CollectedAgents) => keys = CollectedKeys
    BY <1>1, <2>1, FrameKeys
  <2>9. LET s == Summarize(frame)
        IN /\ s.totalRows = Cardinality(frame) /\ s.uniqueDevices = Cardinality(keys)
           /\ s.coverage = CoveragePct(frame) /\ s.serverCoverage = CoveragePct(servers)
           /\ s.atRisk = Cardinality(risky)
    BY DEF Summarize
  <2> HIDE DEF servers, risky, keys
  <2> QED
    BY <2>3, <2>4, <2>5, <2>6, <2>7, <2>8, <2>9
<1>2. Inv => SummaryAddsUp
  BY <1>1 DEF SummaryAddsUp
<1>3. QED
  BY <1>2, Invariance, PTL

(***************************************************************************)
(* The end-of-life lookup, whatever the tables (os_eol.py).                *)
(***************************************************************************)
Dates(tables, text, build) ==
    EolDateForDevice(tables, text, build) \in Int \ {NoDate}

Severity(status) ==
    CASE status = "supported" -> 0 [] status = "eol_soon" -> 1 [] status = "end_of_life" -> 2

\* Of the phrases in an OS text the longest decides, so "windows server 2012
\* r2" is not taken for its prefix (LifecycleTables.free_text): whichever others
\* the text has, the date is that of a phrase no other one is longer than.
THEOREM LongestPhraseDecides ==
  ASSUME NEW tables, NEW text, text \cap DOMAIN tables.freeText # {},
         IsFiniteSet(text), \A w \in text : Length[w] \in Int
  PROVE  \E w \in text \cap DOMAIN tables.freeText :
            /\ EolDateFor(tables, text) = tables.freeText[w]
            /\ \A v \in text \cap DOMAIN tables.freeText : Length[v] =< Length[w]
<1> DEFINE hits == text \cap DOMAIN tables.freeText
           f == [w \in hits |-> -Length[w]]
<1>1. IsFiniteSet(hits)
  BY FS_Subset
<1>2. f \in [hits -> Int]
  OBVIOUS
<1>3. PICK w \in hits : \A v \in hits : f[w] =< f[v]
  <2> HIDE DEF hits, f
  <2>1. hits # {}
    BY DEF hits
  <2> QED
    BY <1>1, <1>2, <2>1, LeastField
<1>4. \A v \in hits : Length[v] =< Length[w]
  <2> SUFFICES ASSUME NEW v \in hits
               PROVE  Length[v] =< Length[w]
    OBVIOUS
  <2>1. -Length[w] =< -Length[v] /\ Length[w] \in Int /\ Length[v] \in Int
    BY <1>3
  <2> QED
    BY <2>1
<1>5. EolDateFor(tables, text) =
         tables.freeText[CHOOSE x \in hits : \A v \in hits : Length[v] =< Length[x]]
  BY DEF EolDateFor
<1> HIDE DEF hits
<1>6. \E x \in hits : EolDateFor(tables, text) = tables.freeText[x]
                      /\ \A v \in hits : Length[v] =< Length[x]
  BY <1>4, <1>5
<1>7. QED
  BY <1>6 DEF hits

\* While the tables stay, a device's status never improves as days go by, and
\* a device looked at within every warning period is seen as eol_soon before
\* it is seen as end_of_life (_classify, eol_status_for_device).
THEOREM WarnedInTime ==
  ASSUME NEW tables, NEW text, NEW build, Dates(tables, text, build),
         NEW warningDays \in Nat, NEW day \in Int, NEW later \in Int, day =< later
  PROVE  LET before == EolStatusForDevice(tables, text, build, day, warningDays)
             after == EolStatusForDevice(tables, text, build, later, warningDays)
         IN /\ Severity(before) \in 0 .. 2 /\ Severity(after) \in 0 .. 2
            /\ Severity(before) =< Severity(after)
            /\ later - day =< warningDays => Severity(after) =< Severity(before) + 1
<1> DEFINE eol == EolDateForDevice(tables, text, build)
<1>1. eol \in Int /\ eol # NoDate
  BY DEF Dates
<1>2. \A t \in Int : Severity(EolStatusForDevice(tables, text, build, t, warningDays)) =
         IF eol =< t THEN 2 ELSE IF eol =< t + warningDays THEN 1 ELSE 0
  BY <1>1 DEF EolStatusForDevice, Classify, Severity
<1> HIDE DEF eol
<1>3. QED
  BY <1>1, <1>2
=============================================================================
