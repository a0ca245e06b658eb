--------------------------- MODULE CollectionProofs ---------------------------
(***************************************************************************)
(* Theorems about Collection, for every configuration and console, every   *)
(* size of a page, and every number of edits and changes.                  *)
(***************************************************************************)
EXTENDS Collection, FiniteSetTheorems, NaturalsInduction, TLAPS

USE CollectionAssumption

(***************************************************************************)
(* Numbers.                                                                *)
(***************************************************************************)
LEMMA LeastNumber ==
  ASSUME NEW S \in SUBSET Nat, S # {}
  PROVE  \E m \in S : \A k \in S : m =< k
<1>1. PICK m \in S : \A k \in S : ~ (<<k, m>> \in OpToRel(<, Nat))
  BY NatLessThanWellFounded, WFMin, Zenon
<1>2. ASSUME NEW k \in S, ~ (m =< k)
      PROVE  FALSE
  <2>1. <<k, m>> \in OpToRel(<, Nat)
    BY <1>2 DEF OpToRel
  <2> QED
    BY <1>1, <2>1
<1>3. QED
  BY <1>2

LEMMA GreatestNumber ==
  ASSUME NEW S \in SUBSET Nat, IsFiniteSet(S), S # {}
  PROVE  \E m \in S : \A k \in S : k =< m
<1> DEFINE Topless(T) == /\ T \in SUBSET Nat /\ IsFiniteSet(T) /\ T # {}
                         /\ ~ \E m \in T : \A k \in T : k =< m
           sizes == {n \in Nat : \E T \in SUBSET Nat : Topless(T) /\ Cardinality(T) = n}
<1>1. SUFFICES ASSUME Topless(S)
               PROVE  FALSE
  OBVIOUS
<1>2. sizes # {}
  <2>1. Cardinality(S) \in Nat
    BY FS_CardinalityType
  <2> QED
    BY <1>1, <2>1
<1>3. PICK n \in sizes : \A k \in sizes : n =< k
  BY <1>2, LeastNumber
<1>4. PICK T \in SUBSET Nat : Topless(T) /\ Cardinality(T) = n
  BY <1>3
<1>5. PICK x \in T : TRUE
  BY <1>4
<1>6. IsFiniteSet(T \ {x}) /\ Cardinality(T \ {x}) = n - 1 /\ n \in Nat
  BY <1>3, <1>4, <1>5, FS_RemoveElement
<1>7. ~ Topless(T \ {x})
  <2>1. Cardinality(T \ {x}) \in Nat
    BY <1>6, FS_CardinalityType
  <2> SUFFICES ASSUME Topless(T \ {x})
               PROVE  FALSE
    OBVIOUS
  <2>2. n - 1 \in sizes
    BY <1>6, <2>1
  <2> HIDE DEF sizes
  <2>3. n =< n - 1 /\ n \in Nat
    BY <1>3, <1>6, <2>2
  <2> QED
    BY <2>3
<1>8. CASE T \ {x} = {}
  <2>1. \A k \in T : k = x
    BY <1>8
  <2>2. \A k \in T : k =< x
    BY <1>5, <2>1
  <2> QED
    BY <1>4, <1>5, <2>2
<1>9. CASE T \ {x} # {}
  <2>1. PICK m \in T \ {x} : \A k \in T \ {x} : k =< m
    BY <1>6, <1>7, <1>9
  <2>2. x \in Nat /\ m \in Nat
    BY <1>5, <2>1
  <2>3. CASE x =< m
    <3>1. \A k \in T : k =< m
      BY <2>1, <2>3
    <3> QED
      BY <1>4, <2>1, <3>1
  <2>4. CASE m =< x
    <3>1. \A k \in T : k \in Nat /\ k =< x
      BY <2>1, <2>2, <2>4
    <3> QED
      BY <1>4, <1>5, <3>1
  <2> QED
    BY <2>2, <2>3, <2>4
<1>10. QED
  BY <1>8, <1>9

(***************************************************************************)
(* Pages.                                                                  *)
(***************************************************************************)
Rank(list, d) == Cardinality({e \in list : e < d})

\* The lists of consoles.
LEMMA RankTyped ==
  ASSUME NEW list \in SUBSET Machines, NEW d
  PROVE  /\ IsFiniteSet(list) /\ {e \in list : e < d} \in SUBSET list
         /\ IsFiniteSet({e \in list : e < d}) /\ Rank(list, d) \in Nat
<1>1. IsFiniteSet(list)
  BY FS_Subset
<1>2. IsFiniteSet({e \in list : e < d})
  BY <1>1, FS_Subset
<1>3. QED
  BY <1>1, <1>2, FS_CardinalityType DEF Rank

LEMMA RankOrder ==
  ASSUME NEW list \in SUBSET Machines, NEW d \in list, NEW e \in list, e < d
  PROVE  Rank(list, e) < Rank(list, d)
<1> DEFINE below(x) == {y \in list : y < x}
<1>1. IsFiniteSet(below(d)) /\ IsFiniteSet(below(e))
  BY RankTyped
<1>2. d \in Nat /\ e \in Nat /\ \A x \in list : x \in Nat
  OBVIOUS
<1>3. below(e) \in SUBSET below(d) /\ e \in below(d) /\ e \notin below(e)
  <2>1. ASSUME NEW y \in list, y < e
        PROVE  y < d
    BY <2>1, <1>2
  <2>2. ~ (e < e)
    BY <1>2
  <2> QED
    BY <2>1, <2>2
<1>4. Cardinality(below(e)) =< Cardinality(below(d)) /\ Cardinality(below(e)) # Cardinality(below(d))
  <2> HIDE DEF below
  <2> QED
    BY <1>1, <1>3, FS_Subset
<1>5. Cardinality(below(e)) \in Nat /\ Cardinality(below(d)) \in Nat
  BY <1>1, FS_CardinalityType
<1>6. QED
  BY <1>4, <1>5 DEF Rank

\* The first k of a list are k, if it is as long.
LEMMA FirstOfList ==
  ASSUME NEW list \in SUBSET Machines, NEW k \in Nat, k =< Cardinality(list)
  PROVE  Cardinality({d \in list : Rank(list, d) < k}) = k
<1> DEFINE first(i) == {d \in list : Rank(list, d) < i}
           wrong == {i \in Nat : i =< Cardinality(list) /\ Cardinality(first(i)) # i}
<1>1. IsFiniteSet(list) /\ Cardinality(list) \in Nat /\ \A d \in list : Rank(list, d) \in Nat /\ d \in Nat
  BY RankTyped, FS_CardinalityType
<1>2. \A i \in Nat : IsFiniteSet(first(i))
  BY <1>1, FS_Subset
<1>3. SUFFICES ASSUME wrong # {}
               PROVE  FALSE
  OBVIOUS
<1>4. PICK i \in wrong : \A j \in wrong : i =< j
  <2> HIDE DEF wrong
  <2>1. wrong \in SUBSET Nat
    BY DEF wrong
  <2> QED
    BY <1>3, <2>1, LeastNumber
<1>5. i # 0
  <2>1. first(0) = {}
    <3>1. ASSUME NEW d \in list, Rank(list, d) < 0
          PROVE  FALSE
      BY <3>1, <1>1
    <3> QED
      BY <3>1
  <2>2. Cardinality(first(0)) = 0
    BY <2>1, FS_EmptySet
  <2> QED
    BY <2>2
<1> DEFINE j == i - 1
<1>6. j \in Nat /\ j < i /\ j < Cardinality(list) /\ i = j + 1
  BY <1>1, <1>4, <1>5
<1>7. Cardinality(first(j)) = j
  <2>1. j \notin wrong
    <3>1. \A l \in wrong : i =< l
      BY <1>4
    <3> HIDE DEF wrong, first
    <3> QED
      BY <3>1, <1>6
  <2>2. j =< Cardinality(list)
    BY <1>6, <1>1
  <2> HIDE DEF first, j
  <2> QED
    BY <2>1, <2>2, <1>6
<1>8. list \ first(j) # {}
  <2> SUFFICES ASSUME list \ first(j) = {}
               PROVE  FALSE
    OBVIOUS
  <2>1. first(j) = list
    OBVIOUS
  <2> HIDE DEF first, wrong, j
  <2>2. Cardinality(list) = j
    BY <2>1, <1>7
  <2> QED
    BY <2>2, <1>1, <1>6
<1>9. PICK m \in list \ first(j) : \A d \in list \ first(j) : m =< d
  <2>1. list \ first(j) \in SUBSET Nat
    BY <1>1
  <2> HIDE DEF first
  <2> QED
    BY <1>8, <2>1, LeastNumber
<1>10. m \in list /\ m \in Nat /\ Rank(list, m) >= j
  <2>1. m \in list /\ ~(Rank(list, m) < j)
    BY <1>9
  <2> HIDE DEF first, wrong, j
  <2>2. m \in Nat /\ Rank(list, m) \in Nat
    BY <2>1, <1>1
  <2> QED
    BY <2>1, <2>2, <1>6
<1>11. {e \in list : e < m} = first(j)
  <2>1. ASSUME NEW e \in list, e < m
        PROVE  e \in first(j)
    <3> SUFFICES ASSUME e \notin first(j)
                 PROVE  FALSE
      OBVIOUS
    <3>1. m =< e
      BY <1>9
    <3>2. m \in Nat /\ e \in Nat
      BY <1>1, <1>10
    <3> HIDE DEF first
    <3> QED
      BY <3>1, <3>2, <2>1
  <2>2. ASSUME NEW e \in first(j)
        PROVE  e < m
    <3> SUFFICES ASSUME m =< e
                 PROVE  FALSE
      BY <1>1, <1>10
    <3>1. e \in list /\ Rank(list, e) < j /\ e \in Nat
      BY <1>1
    <3>2. e # m
      BY <3>1, <1>1, <1>6, <1>10
    <3>3. Rank(list, m) < Rank(list, e)
      BY <3>1, <3>2, <1>10, RankOrder
    <3> QED
      BY <3>1, <3>3, <1>1, <1>6, <1>10
  <2> QED
    BY <2>1, <2>2
<1>12. Rank(list, m) = j
  BY <1>7, <1>11 DEF Rank
<1>13. first(i) = first(j) \cup {m}
  <2>1. ASSUME NEW d \in first(i), d \notin first(j)
        PROVE  d = m
    <3>1. d \in list /\ d \in Nat /\ Rank(list, d) = j /\ m =< d
      BY <2>1, <1>1, <1>6, <1>9
    <3>2. m < d => FALSE
      BY <3>1, <1>1, <1>6, <1>10, <1>12, RankOrder
    <3> QED
      BY <3>1, <3>2, <1>10
  <2>2. \A d \in first(j) : d \in first(i)
    BY <1>1, <1>6
  <2>3. m \in first(i)
    BY <1>6, <1>10, <1>12
  <2> QED
    BY <2>1, <2>2, <2>3
<1>14. Cardinality(first(i)) = j + 1
  <2>1. m \notin first(j)
    BY <1>9
  <2>2. IsFiniteSet(first(j))
    BY <1>2, <1>6
  <2> HIDE DEF first
  <2>3. Cardinality(first(j) \cup {m}) = Cardinality(first(j)) + 1
    BY <2>1, <2>2, FS_AddElement
  <2> QED
    BY <2>3, <1>7, <1>13
<1>15. QED
  BY <1>4, <1>6, <1>14

\* What follows a list's first k counts on from there.
LEMMA RankFrom ==
  ASSUME NEW list \in SUBSET Machines, NEW k \in Nat, NEW d \in list, k =< Rank(list, d)
  PROVE  Rank(From(list, k), d) = Rank(list, d) - k
<1> DEFINE first == {e \in list : Rank(list, e) < k}
           below == {e \in list : e < d}
           after == {e \in From(list, k) : e < d}
<1>1. /\ IsFiniteSet(list) /\ IsFiniteSet(below) /\ Rank(list, d) \in Nat
      /\ \A e \in list : Rank(list, e) \in Nat /\ e \in Nat
  BY RankTyped
<1>2. From(list, k) = {e \in list : Rank(list, e) >= k}
  BY DEF From, Rank
<1>3. k =< Cardinality(list) /\ Cardinality(list) \in Nat
  <2>1. Cardinality(below) =< Cardinality(list)
    BY <1>1, FS_Subset
  <2>2. Cardinality(list) \in Nat
    BY <1>1, FS_CardinalityType
  <2>3. Rank(list, d) = Cardinality(below)
    BY DEF Rank
  <2> HIDE DEF below
  <2> QED
    BY <2>1, <2>2, <2>3, <1>1
<1>4. Cardinality(first) = k
  BY <1>3, FirstOfList
<1>5. first \subseteq below
  <2> SUFFICES ASSUME NEW e \in list, Rank(list, e) < k, ~ (e < d)
               PROVE  FALSE
    OBVIOUS
  <2>1. Rank(list, e) < Rank(list, d)
    BY <1>1
  <2>2. e # d
    BY <2>1, <1>1
  <2>3. d < e
    BY <2>2, <1>1
  <2>4. Rank(list, d) < Rank(list, e)
    BY <2>3, RankOrder
  <2> QED
    BY <2>1, <2>4, <1>1
<1>6. after = below \ first
  <2>1. \A e \in list : Rank(list, e) >= k <=> ~ (Rank(list, e) < k)
    BY <1>1
  <2> QED
    BY <2>1, <1>2
<1>7. below \cap first = first
  BY <1>5
<1>8. Cardinality(after) = Cardinality(below) - k
  <2> HIDE DEF below, first, after
  <2> QED
    BY <1>1, <1>4, <1>6, <1>7, FS_Difference
<1>9. QED
  BY <1>8 DEF Rank

\* A page has the first of what remains.
LEMMA PageIsFirst ==
  ASSUME NEW v, NEW u, Remaining(v, u) \in SUBSET Machines
  PROVE  /\ PageOf(v, u) = {d \in Remaining(v, u) : Rank(Remaining(v, u), d) < Rows}
         /\ LastPage(v, u) => PageOf(v, u) = Remaining(v, u)
<1>1. From(Remaining(v, u), Rows) = {d \in Remaining(v, u) : Rank(Remaining(v, u), d) >= Rows}
  BY DEF From, Rank
<1>2. \A d \in Remaining(v, u) : Rank(Remaining(v, u), d) \in Nat
  BY RankTyped
<1>3. QED
  BY <1>1, <1>2 DEF PageOf, LastPage

\* A cursor: what does not come later than the last machine of a page is in it.
LEMMA LatestOfPage ==
  ASSUME NEW v, NEW u, Remaining(v, u) \in SUBSET Machines, u.last \in Nat
  PROVE  /\ Latest(u, PageOf(v, u)) \in PageOf(v, u) \cup {u.last}
         /\ Latest(u, PageOf(v, u)) \in Nat
         /\ \A d \in Remaining(v, u) :
               d > u.last /\ d =< Latest(u, PageOf(v, u)) => d \in PageOf(v, u)
<1> DEFINE page == PageOf(v, u)
           list == Remaining(v, u)
<1>1. page \in SUBSET Machines /\ page \subseteq list
  BY DEF PageOf
<1>2. \E d \in page \cup {u.last} : \A e \in page : e =< d
  <2>1. CASE page = {}
    BY <2>1
  <2>2. CASE page # {}
    <3>1. page \in SUBSET Nat /\ IsFiniteSet(page)
      BY <1>1, FS_Subset
    <3> HIDE DEF page
    <3> QED
      BY <2>2, <3>1, GreatestNumber
  <2> QED
    BY <2>1, <2>2
<1>3. Latest(u, page) \in page \cup {u.last}
  BY <1>2 DEF Latest
<1>4. ASSUME NEW d \in list, d > u.last, d =< Latest(u, page)
      PROVE  d \in page
  <2>1. Latest(u, page) \in page /\ d \in Nat
    <3>1. d \in Nat
      OBVIOUS
    <3>2. CASE Latest(u, page) = u.last
      <4>1. d > u.last /\ d =< u.last
        BY <3>2, <1>4
      <4> HIDE DEF page, list
      <4> QED
        BY <4>1, <3>1
    <3> QED
      BY <3>1, <3>2, <1>3
  <2>2. Rank(list, Latest(u, page)) < Rows /\ Latest(u, page) \in list
    BY <2>1, <1>1, PageIsFirst
  <2>3. Rank(list, d) =< Rank(list, Latest(u, page))
    <3>1. Rank(list, d) \in Nat
      BY RankTyped
    <3>2. CASE d = Latest(u, page)
      BY <3>1, <3>2
    <3>3. CASE d < Latest(u, page)
      <4>1. Rank(list, d) < Rank(list, Latest(u, page))
        BY <2>2, <3>3, RankOrder
      <4>2. Rank(list, Latest(u, page)) \in Nat
        BY RankTyped
      <4> QED
        BY <4>1, <4>2, <3>1
    <3>4. Latest(u, page) \in Nat
      BY <2>1, <1>1
    <3> QED
      BY <2>1, <3>2, <3>3, <3>4, <1>4
  <2>4. Rank(list, d) < Rows
    <3>1. Rank(list, d) \in Nat /\ Rank(list, Latest(u, page)) \in Nat
      BY RankTyped
    <3> QED
      BY <3>1, <2>2, <2>3
  <2> QED
    BY <2>4, PageIsFirst
<1>5. Latest(u, page) \in Nat
  BY <1>1, <1>3
<1>6. QED
  BY <1>3, <1>4, <1>5

(***************************************************************************)
(* The inductive invariant.                                                *)
(***************************************************************************)
UnitRecord(u) ==
    u \in [at : {u.at}, key : {u.key}, console : {u.console}, ids : {u.ids},
           narrowed : {u.narrowed}, page : {u.page}, last : {u.last}, got : {u.got},
           steady : {u.steady}, shrunk : {u.shrunk}]
UnitType(u) ==
    /\ UnitRecord(u) /\ u.at \in {"queued", "paging"} \cup Ended
    /\ u.narrowed \in BOOLEAN /\ u.shrunk \in BOOLEAN /\ u.page \in Nat /\ u.last \in Nat
    /\ u.got \in SUBSET Machines /\ u.steady \in SUBSET enrolled
    /\ u.at \in {"error", "raised"} => u.got = {}
    /\ u.at = "queued" => u = Waiting

TypeInv ==
    /\ config \in Configs /\ loaded \in Configs /\ enrolled \in SUBSET Machines
    /\ path \in {"chord", "loop"} /\ edits \in 0..Editions /\ changes \in 0..Changes
    /\ unit = [n \in DOMAIN unit |-> unit[n]] /\ DOMAIN unit = DOMAIN header
    /\ run = [at |-> run.at, status |-> run.status, exports |-> run.exports,
              agents |-> run.agents]
    /\ run.at \in {"none", "collecting", "complete", "partial", "failed", "returned", "raised"}
    /\ run.agents \subseteq Machines
    /\ run.at = "none" => unit = <<>>
    /\ \A n \in DOMAIN unit : UnitType(unit[n])

\* A machine is one of the sites that a unit of a vendor is limited to.
OwnSite(v, u, d) == v # "carbonblack" /\ u.ids # {} => Site[d] \in u.ids
OwnInv(v, u) ==
    /\ \A d \in u.got : (u.console \in Secrets => Home[d] = u.console) /\ OwnSite(v, u, d)
    /\ \A d \in u.steady : Home[d] = u.console /\ OwnSite(v, u, d)
    /\ u.narrowed => v # "carbonblack" /\ u.ids # {}

\* The pages so far have every machine that stayed, up to the one listed last,
\* or the number that was listed.
Paged(v, u, d) ==
    IF v = "sentinelone" THEN d =< u.last ELSE Rank(Listed(u), d) < u.page * Rows
PageInv(v, u) ==
    v = "sentinelone" \/ ~u.shrunk =>
        /\ u.at = "paging" => \A d \in u.steady : Paged(v, u, d) => d \in u.got
        /\ u.at = "ok" => u.steady \subseteq u.got

UnitInv(v, u) == OwnInv(v, u) /\ PageInv(v, u)
Inv == TypeInv /\ \A n \in DOMAIN unit : UnitInv(header[n].source, unit[n])

(***************************************************************************)
(* A step of one unit.                                                     *)
(***************************************************************************)
LEMMA WaitingIsFine ==
  ASSUME NEW v
  PROVE  UnitType(Waiting) /\ UnitInv(v, Waiting)
<1>1. UnitType(Waiting)
  BY DEF UnitType, UnitRecord, Waiting, Ended
<1>2. Waiting.steady = {} /\ Waiting.got = {} /\ Waiting.narrowed = FALSE
  BY DEF Waiting
<1>3. QED
  BY <1>1, <1>2 DEF UnitInv, OwnInv, PageInv

LEMMA UnitStepInv ==
  ASSUME Inv, NEW n \in DOMAIN unit, NEW u, Ends(n, u),
         UnitType(u), UnitInv(header[n].source, u), u.at # "queued"
  PROVE  Inv'
<1>1. unit' = [unit EXCEPT ![n] = u]
      /\ UNCHANGED <<config, enrolled, path, loaded, header, run, edits, changes>>
  BY DEF Ends
<1>2. /\ unit = [m \in DOMAIN unit |-> unit[m]] /\ DOMAIN unit = DOMAIN header
      /\ run.at = "none" => unit = <<>>
  BY DEF Inv, TypeInv
<1>3. /\ DOMAIN unit' = DOMAIN unit /\ unit' = [m \in DOMAIN unit' |-> unit'[m]]
      /\ unit'[n] = u /\ \A m \in DOMAIN unit : m # n => unit'[m] = unit[m]
  BY <1>1, <1>2
<1>4. ASSUME NEW m \in DOMAIN unit
      PROVE  UnitType(unit[m])' /\ UnitInv(header[m].source, unit[m])'
  <2>1. UnitType(unit'[m]) /\ UnitInv(header[m].source, unit'[m])
    BY <1>3 DEF Inv, TypeInv
  <2>2. UnitType(unit[m])'
    BY <2>1, <1>1 DEF UnitType, UnitRecord
  <2>3. UnitInv(header[m].source, unit[m])'
    BY <2>1, <1>1 DEF UnitInv, OwnInv, OwnSite, PageInv, Paged, Listed
  <2> QED
    BY <2>2, <2>3
<1>5. \A m \in DOMAIN unit' : UnitType(unit[m])' /\ UnitInv(header[m].source, unit[m])'
  BY <1>3, <1>4
<1>6. run'.at = "none" => unit' = <<>>
  <2>1. run.at = "none" => FALSE
    BY <1>2
  <2> QED
    BY <2>1, <1>1
<1>7. TypeInv'
  BY <1>1, <1>3, <1>5, <1>6 DEF Inv, TypeInv
<1>8. QED
  BY <1>1, <1>5, <1>7 DEF Inv

\* A record with the fields of a unit is typed like one.
LEMMA TypedUnit ==
  ASSUME NEW u, UnitRecord(u), u.at \in {"paging"} \cup Ended, u.narrowed \in BOOLEAN,
         u.shrunk \in BOOLEAN, u.page \in Nat, u.last \in Nat, u.got \in SUBSET Machines,
         u.steady \in SUBSET enrolled, u.at \in {"error", "raised"} => u.got = {}
  PROVE  UnitType(u) /\ u.at # "queued"
  BY DEF UnitType, Ended

\* So is one that was never paged.
LEMMA UnpagedUnit ==
  ASSUME NEW u, UnitRecord(u), u.at \in Ended, u.narrowed = FALSE, u.shrunk = FALSE,
         u.page = 0, u.last = 0, u.got \in SUBSET Machines, u.steady = {},
         u.at \in {"error", "raised"} => u.got = {}
  PROVE  UnitType(u) /\ u.at # "queued"
<1>1. u.narrowed \in BOOLEAN /\ u.shrunk \in BOOLEAN
  OBVIOUS
<1>2. u.page \in Nat /\ u.last \in Nat
  OBVIOUS
<1>3. u.steady \in SUBSET enrolled
  OBVIOUS
<1>4. QED
  BY <1>1, <1>2, <1>3, TypedUnit

LEMMA WaitingFields ==
  /\ UnitRecord(Waiting) /\ Waiting.at = "queued" /\ Waiting.console = NoName
  /\ Waiting.ids = {} /\ Waiting.narrowed = FALSE /\ Waiting.shrunk = FALSE
  /\ Waiting.page = 0 /\ Waiting.last = 0 /\ Waiting.got = {} /\ Waiting.steady = {}
  BY DEF Waiting, UnitRecord

LEMMA QueuedIsWaiting ==
  ASSUME Inv, NEW n \in DOMAIN unit, Ready(n)
  PROVE  unit[n] = Waiting
  BY DEF Inv, TypeInv, UnitType, Ready

LEMMA UnitRaisesInv ==
  ASSUME Inv, NEW n \in DOMAIN unit, UnitRaises(n)
  PROVE  Inv'
<1> DEFINE u == [unit[n] EXCEPT !.at = "raised"]
<1>1. unit[n] = Waiting /\ Ends(n, u)
  BY QueuedIsWaiting DEF UnitRaises
<1>2. u = [Waiting EXCEPT !.at = "raised"]
  BY <1>1
<1>3. /\ UnitRecord(u) /\ u.at = "raised" /\ u.narrowed = FALSE /\ u.shrunk = FALSE
      /\ u.page = 0 /\ u.last = 0 /\ u.got = {} /\ u.steady = {}
  <2> HIDE DEF u
  <2> QED
    BY <1>2, WaitingFields DEF UnitRecord
<1> HIDE DEF u
<1>4. UnitType(u) /\ u.at # "queued"
  <2>1. u.at \in Ended /\ u.got \in SUBSET Machines
    BY <1>3 DEF Ended
  <2> QED
    BY <2>1, <1>3, UnpagedUnit
<1>5. UnitInv(header[n].source, u)
  BY <1>3 DEF UnitInv, OwnInv, PageInv
<1>6. QED
  BY <1>1, <1>4, <1>5, UnitStepInv

LEMMA CollectDomainInv ==
  ASSUME Inv, NEW n \in DOMAIN unit, CollectDomain(n)
  PROVE  Inv'
<1>1. PICK at \in {"ok", "error"} :
         Ends(n, [unit[n] EXCEPT !.at = at, !.key = <<"ad", header[n].target>>])
  BY DEF CollectDomain
<1> DEFINE u == [unit[n] EXCEPT !.at = at, !.key = <<"ad", header[n].target>>]
<1>2. unit[n] = Waiting
  BY QueuedIsWaiting DEF CollectDomain
<1>3. Ends(n, u) /\ u = [Waiting EXCEPT !.at = at, !.key = <<"ad", header[n].target>>]
  BY <1>1, <1>2
<1> HIDE DEF u
<1>4. /\ UnitRecord(u) /\ u.at = at /\ u.narrowed = FALSE /\ u.shrunk = FALSE
      /\ u.page = 0 /\ u.last = 0 /\ u.got = {} /\ u.steady = {}
  BY <1>3, WaitingFields DEF UnitRecord
<1>5. UnitType(u) /\ u.at # "queued"
  <2>1. u.at \in Ended /\ u.got \in SUBSET Machines
    BY <1>4 DEF Ended
  <2> QED
    BY <2>1, <1>4, UnpagedUnit
<1>6. UnitInv(header[n].source, u)
  BY <1>4 DEF UnitInv, OwnInv, PageInv
<1>7. QED
  BY <1>3, <1>5, <1>6, UnitStepInv

\* The unit of a site, before its first request.
LEMMA SiteUnitFields ==
  ASSUME Inv, NEW n \in DOMAIN unit, IsSite(n)
  PROVE  LET v == header[n].source
             u == SiteUnit(n, v, SitesFor(Current, v))
         IN  /\ UnitRecord(u) /\ u.at = "queued" /\ u.narrowed = FALSE /\ u.shrunk = FALSE
             /\ u.page = 0 /\ u.last = 0 /\ u.got = {} /\ u.steady = {}
             /\ IsLive(Current, v, header[n].index) <=> u.console \in Secrets
<1>1. unit[n] = Waiting
  BY QueuedIsWaiting DEF IsSite
<1> DEFINE v == header[n].source
           i == header[n].index
           sites == SitesFor(Current, v)
           u == SiteUnit(n, v, sites)
<1>2. u = [Waiting EXCEPT !.key = SiteStatusKey(v, sites[i], i, Len(sites)),
                          !.console = SoleAccount(Current.vendors[v], sites[i]),
                          !.ids = sites[i].ids]
  BY <1>1 DEF SiteUnit
<1> HIDE DEF u
<1>3. /\ UnitRecord(u) /\ u.at = "queued" /\ u.narrowed = FALSE /\ u.shrunk = FALSE
      /\ u.page = 0 /\ u.last = 0 /\ u.got = {} /\ u.steady = {}
      /\ u.console = SoleAccount(Current.vendors[v], sites[i])
  BY <1>2, WaitingFields DEF UnitRecord
<1>4. QED
  BY <1>3 DEF IsLive, u

\* What is parsed is of what was sent, and of the unit's sites.
LEMMA Parsed ==
  ASSUME NEW v, NEW u, NEW items, NEW d \in ParseInventory(v, u.ids, items)
  PROVE  d \in items /\ OwnSite(v, u, d)
  BY DEF ParseInventory, OwnSite

LEMMA CollectFixtureInv ==
  ASSUME Inv, NEW n \in DOMAIN unit, CollectFixture(n)
  PROVE  Inv'
<1> DEFINE v == header[n].source
           u == SiteUnit(n, v, SitesFor(Current, v))
           file == <<v, SitesFor(Current, v)[header[n].index].label>>
           got == ParseInventory(v, u.ids, Fixtures[file])
           w == IF file \in DOMAIN Fixtures THEN [u EXCEPT !.at = "ok", !.got = got]
                ELSE [u EXCEPT !.at = "error"]
<1>1. IsSite(n) /\ ~IsLive(Current, v, header[n].index) /\ Ends(n, w)
  BY DEF CollectFixture
<1>2. /\ UnitRecord(u) /\ u.narrowed = FALSE /\ u.shrunk = FALSE
      /\ u.page = 0 /\ u.last = 0 /\ u.got = {} /\ u.steady = {} /\ u.console \notin Secrets
  BY <1>1, SiteUnitFields
<1>3. file \in DOMAIN Fixtures => \A d \in got : d \in Machines /\ OwnSite(v, u, d)
  <2> SUFFICES ASSUME file \in DOMAIN Fixtures, NEW d \in got
               PROVE  d \in Machines /\ OwnSite(v, u, d)
    OBVIOUS
  <2>1. Fixtures[file] \subseteq Machines
    OBVIOUS
  <2>2. d \in Fixtures[file] /\ OwnSite(v, u, d)
    <3> HIDE DEF u, v, file
    <3> QED
      BY Parsed
  <2> QED
    BY <2>1, <2>2
<1> HIDE DEF u, v, file, got
<1>4. /\ UnitRecord(w) /\ w.narrowed = FALSE /\ w.shrunk = FALSE /\ w.page = 0 /\ w.last = 0
      /\ w.steady = {} /\ w.console = u.console /\ w.ids = u.ids
      /\ (w.at = "ok" /\ w.got = got /\ file \in DOMAIN Fixtures) \/ (w.at = "error" /\ w.got = {})
  BY <1>2 DEF UnitRecord
<1>5. UnitType(w) /\ w.at # "queued"
  <2>1. w.got \in SUBSET Machines
    BY <1>3, <1>4
  <2>2. w.at \in Ended /\ (w.at \in {"error", "raised"} => w.got = {})
    BY <1>4 DEF Ended
  <2> QED
    BY <2>1, <2>2, <1>4, UnpagedUnit
<1>6. UnitInv(v, w)
  <2>1. \A d \in w.got : OwnSite(v, w, d)
    BY <1>3, <1>4 DEF OwnSite
  <2> QED
    BY <2>1, <1>2, <1>4 DEF UnitInv, OwnInv, PageInv
<1> HIDE DEF w
<1>7. QED
  BY <1>1, <1>5, <1>6, UnitStepInv DEF v

LEMMA OpenInventoryInv ==
  ASSUME Inv, NEW n \in DOMAIN unit, OpenInventory(n)
  PROVE  Inv'
<1> DEFINE v == header[n].source
           u == SiteUnit(n, v, SitesFor(Current, v))
<1>1. PICK narrowed \in BOOLEAN :
         /\ narrowed => v # "carbonblack" /\ u.ids # {}
         /\ Ends(n, [u EXCEPT !.at = "paging", !.narrowed = narrowed, !.steady = InScope(v, u)])
  BY DEF OpenInventory
<1> DEFINE w == [u EXCEPT !.at = "paging", !.narrowed = narrowed, !.steady = InScope(v, u)]
<1>2. /\ UnitRecord(u) /\ u.shrunk = FALSE /\ u.page = 0 /\ u.last = 0 /\ u.got = {}
  BY SiteUnitFields DEF OpenInventory
<1>3. /\ InScope(v, u) \subseteq enrolled
      /\ \A d \in InScope(v, u) : Home[d] = u.console /\ OwnSite(v, u, d)
  BY DEF InScope, OwnSite
<1>4. /\ Ends(n, w) /\ (narrowed => v # "carbonblack" /\ u.ids # {})
  BY <1>1
<1> HIDE DEF u, v
<1>5. /\ UnitRecord(w) /\ w.at = "paging" /\ w.narrowed = narrowed /\ w.shrunk = FALSE
      /\ w.page = 0 /\ w.last = 0 /\ w.got = {} /\ w.steady = InScope(v, u)
      /\ w.console = u.console /\ w.ids = u.ids
  BY <1>2 DEF UnitRecord
<1> HIDE DEF w
<1>6. UnitType(w) /\ w.at # "queued"
  <2>1. w.at \in {"paging"} \cup Ended /\ ~ (w.at \in {"error", "raised"})
    BY <1>5
  <2>2. w.narrowed \in BOOLEAN /\ w.shrunk \in BOOLEAN
    BY <1>5
  <2>3. w.page \in Nat /\ w.last \in Nat
    BY <1>5
  <2>4. w.got \in SUBSET Machines /\ w.steady \in SUBSET enrolled
    BY <1>3, <1>5
  <2> QED
    BY <2>1, <2>2, <2>3, <2>4, <1>5, TypedUnit
<1>7. OwnInv(v, w)
  BY <1>3, <1>4, <1>5 DEF OwnInv, OwnSite
<1>8. \A d \in w.steady : ~ Paged(v, w, d)
  <2> SUFFICES ASSUME NEW d \in w.steady
               PROVE  ~ Paged(v, w, d)
    OBVIOUS
  <2>1. d \in Nat \ {0} /\ enrolled \in SUBSET Machines
    BY <1>3, <1>5 DEF Inv, TypeInv
  <2>2. Rank(Listed(w), d) \in Nat
    <3>1. Listed(w) \in SUBSET Machines
      BY <2>1 DEF Listed
    <3> QED
      BY <3>1, RankTyped
  <2>3. ~ (d =< w.last)
    BY <2>1, <1>5
  <2>4. ~ (Rank(Listed(w), d) < w.page * Rows)
    BY <2>2, <1>5
  <2> QED
    BY <2>3, <2>4 DEF Paged
<1>9. UnitInv(v, w)
  BY <1>5, <1>7, <1>8 DEF UnitInv, PageInv
<1>10. QED
  BY <1>4, <1>5, <1>6, <1>9, UnitStepInv DEF v

LEMMA RequestFailsInv ==
  ASSUME Inv, NEW n \in DOMAIN unit, RequestFails(n)
  PROVE  Inv'
<1> DEFINE u == [unit[n] EXCEPT !.at = "error", !.got = {}]
<1>1. Ends(n, u)
  BY DEF RequestFails
<1>2. UnitType(unit[n]) /\ UnitInv(header[n].source, unit[n])
  BY DEF Inv, TypeInv
<1>3. UnitRecord(unit[n])
  BY <1>2 DEF UnitType
<1>4. /\ UnitRecord(u) /\ u.at = "error" /\ u.got = {} /\ u.steady = unit[n].steady
      /\ u.console = unit[n].console /\ u.ids = unit[n].ids /\ u.narrowed = unit[n].narrowed
      /\ u.shrunk = unit[n].shrunk /\ u.page = unit[n].page /\ u.last = unit[n].last
  BY <1>3 DEF UnitRecord
<1> HIDE DEF u
<1>5. UnitType(u)
  BY <1>2, <1>4 DEF UnitType, Ended
<1>6. UnitInv(header[n].source, u)
  BY <1>2, <1>4 DEF UnitInv, OwnInv, OwnSite, PageInv
<1>7. QED
  BY <1>1, <1>4, <1>5, <1>6, UnitStepInv

LEMMA PageStarts ==
  ASSUME NEW p \in Nat
  PROVE  p * Rows \in Nat /\ (p + 1) * Rows = p * Rows + Rows
  OBVIOUS

\* A page adds what it should, whether it is the last one or not.
LEMMA PageAdds ==
  ASSUME Inv, NEW n \in DOMAIN unit, unit[n].at = "paging"
  PROVE  LET v == header[n].source
             u == unit[n]
             page == PageOf(v, u)
             got == u.got \cup ParseInventory(v, u.ids, page)
         IN  /\ page \in SUBSET Machines /\ got \in SUBSET Machines
             /\ \A d \in got : (u.console \in Secrets => Home[d] = u.console) /\ OwnSite(v, u, d)
             /\ Latest(u, page) \in Nat
             /\ v = "sentinelone" \/ ~u.shrunk =>
                  /\ LastPage(v, u) => u.steady \subseteq got
                  /\ \A d \in u.steady :
                        (IF v = "sentinelone" THEN d =< Latest(u, page)
                         ELSE Rank(Listed(u), d) < (u.page + 1) * Rows) => d \in got
<1> DEFINE v == header[n].source
           u == unit[n]
           page == PageOf(v, u)
           rest == Remaining(v, u)
           got == u.got \cup ParseInventory(v, u.ids, page)
           start == u.page * Rows
<1>1. UnitType(u) /\ OwnInv(v, u) /\ PageInv(v, u) /\ enrolled \in SUBSET Machines
  BY DEF Inv, TypeInv, UnitInv
<1>2. /\ u.page \in Nat /\ u.last \in Nat /\ u.got \in SUBSET Machines
      /\ u.steady \in SUBSET enrolled
  BY <1>1 DEF UnitType
<1>3. start \in Nat /\ (u.page + 1) * Rows = start + Rows
  BY <1>2, PageStarts
<1>4. /\ Listed(u) \in SUBSET Machines /\ rest \in SUBSET Listed(u)
      /\ \A d \in Listed(u) : Home[d] = u.console
  BY <1>1 DEF Listed, Remaining, From
<1>5. page \in SUBSET rest
  BY DEF PageOf
<1>6. ParseInventory(v, u.ids, page) = {d \in page : OwnSite(v, u, d)}
  BY DEF ParseInventory, OwnSite
<1>7. page \in SUBSET Machines /\ rest \in SUBSET Machines
  BY <1>4, <1>5
<1>8. got \in SUBSET Machines
  BY <1>2, <1>6, <1>7
<1>9. ASSUME NEW d \in got
      PROVE  (u.console \in Secrets => Home[d] = u.console) /\ OwnSite(v, u, d)
  <2>1. CASE d \in u.got
    BY <2>1, <1>1 DEF OwnInv
  <2>2. CASE d \in page /\ OwnSite(v, u, d)
    BY <2>2, <1>4, <1>5
  <2> QED
    BY <2>1, <2>2, <1>6
<1>10. u.steady \subseteq Listed(u) /\ \A d \in u.steady : OwnSite(v, u, d)
  BY <1>1, <1>2 DEF OwnInv, OwnSite, Listed
<1>11. \A d \in u.steady : d \in page => d \in got
  BY <1>6, <1>10
<1>12. /\ LastPage(v, u) => page = rest
       /\ page = {d \in rest : Rank(rest, d) < Rows}
       /\ Latest(u, page) \in Nat
       /\ \A d \in rest : d > u.last /\ d =< Latest(u, page) => d \in page
  BY <1>2, <1>7, PageIsFirst, LatestOfPage
<1>13. ASSUME v = "sentinelone" \/ ~u.shrunk, NEW d \in u.steady, d \notin u.got
       PROVE  /\ d \in rest
              /\ v = "sentinelone" /\ d =< Latest(u, page) => d \in page
              /\ v # "sentinelone" /\ Rank(Listed(u), d) < start + Rows => d \in page
  <2>1. ~ Paged(v, u, d)
    BY <1>1, <1>13 DEF PageInv
  <2>2. d \in Listed(u) /\ d \in Nat /\ Rank(Listed(u), d) \in Nat
    BY <1>4, <1>10, RankTyped
  <2>3. CASE v = "sentinelone"
    <3>1. d > u.last
      BY <2>1, <2>2, <2>3, <1>2 DEF Paged
    <3>2. d \in rest
      BY <2>2, <2>3, <3>1 DEF Remaining
    <3> QED
      BY <2>3, <3>1, <3>2, <1>12
  <2>4. CASE v # "sentinelone"
    <3>1. start =< Rank(Listed(u), d)
      BY <2>1, <2>2, <2>4, <1>3 DEF Paged
    <3>2. rest = From(Listed(u), start)
      BY <2>4 DEF Remaining
    <3>3. d \in rest
      BY <2>2, <3>1, <3>2 DEF From, Rank
    <3>4. Rank(rest, d) = Rank(Listed(u), d) - start
      BY <2>2, <3>1, <3>2, <1>3, <1>4, RankFrom
    <3>5. Rank(Listed(u), d) < start + Rows => Rank(rest, d) < Rows
      BY <2>2, <3>4, <1>3
    <3> QED
      BY <2>4, <3>3, <3>5, <1>12
  <2> QED
    BY <2>3, <2>4
<1> HIDE DEF v, u, page, rest, start
<1>14. (v = "sentinelone" \/ ~u.shrunk) /\ LastPage(v, u) => u.steady \subseteq got
  BY <1>11, <1>12, <1>13
<1>15. ASSUME v = "sentinelone" \/ ~u.shrunk, NEW d \in u.steady,
              IF v = "sentinelone" THEN d =< Latest(u, page)
              ELSE Rank(Listed(u), d) < (u.page + 1) * Rows
       PROVE  d \in got
  <2>1. CASE d \in u.got
    BY <2>1
  <2>2. CASE d \notin u.got
    <3>1. d \in page
      BY <2>2, <1>3, <1>13, <1>15
    <3> QED
      BY <3>1, <1>11
  <2> QED
    BY <2>1, <2>2
<1> HIDE DEF got
<1>16. QED
  BY <1>7, <1>8, <1>9, <1>12, <1>14, <1>15 DEF v, u, page, got

LEMMA FetchPageInv ==
  ASSUME Inv, NEW n \in DOMAIN unit, FetchPage(n)
  PROVE  Inv'
<1> DEFINE v == header[n].source
           u == unit[n]
           page == PageOf(v, u)
           got == u.got \cup ParseInventory(v, u.ids, page)
           w == IF LastPage(v, u) THEN [u EXCEPT !.at = "ok", !.got = got]
                ELSE [u EXCEPT !.got = got, !.page = u.page + 1, !.last = Latest(u, page)]
<1>1. u.at = "paging" /\ Ends(n, w)
  BY DEF FetchPage
<1>2. /\ UnitRecord(u) /\ u.narrowed \in BOOLEAN /\ u.shrunk \in BOOLEAN
      /\ u.page \in Nat /\ u.last \in Nat /\ u.steady \in SUBSET enrolled
      /\ OwnInv(v, u)
  BY DEF Inv, TypeInv, UnitType, UnitInv
<1>3. /\ got \in SUBSET Machines
      /\ \A d \in got : (u.console \in Secrets => Home[d] = u.console) /\ OwnSite(v, u, d)
      /\ Latest(u, page) \in Nat
      /\ v = "sentinelone" \/ ~u.shrunk =>
           /\ LastPage(v, u) => u.steady \subseteq got
           /\ \A d \in u.steady :
                 (IF v = "sentinelone" THEN d =< Latest(u, page)
                  ELSE Rank(Listed(u), d) < (u.page + 1) * Rows) => d \in got
  BY <1>1, PageAdds
<1> HIDE DEF v, u, page, got
<1>4. /\ UnitRecord(w) /\ w.narrowed = u.narrowed /\ w.shrunk = u.shrunk /\ w.got = got
      /\ w.steady = u.steady /\ w.console = u.console /\ w.ids = u.ids
      /\ \/ LastPage(v, u) /\ w.at = "ok" /\ w.page = u.page /\ w.last = u.last
         \/ w.at = "paging" /\ w.page = u.page + 1 /\ w.last = Latest(u, page)
  <2>1. CASE LastPage(v, u)
    BY <2>1, <1>2 DEF UnitRecord
  <2>2. CASE ~LastPage(v, u)
    BY <2>2, <1>1, <1>2 DEF UnitRecord
  <2> QED
    BY <2>1, <2>2
<1> HIDE DEF w
<1>5. UnitType(w) /\ w.at # "queued"
  <2>1. w.at \in {"paging"} \cup Ended /\ ~ (w.at \in {"error", "raised"})
    BY <1>4 DEF Ended
  <2>2. w.page \in Nat /\ w.last \in Nat
    BY <1>2, <1>3, <1>4
  <2>3. w.narrowed \in BOOLEAN /\ w.shrunk \in BOOLEAN
    BY <1>2, <1>4
  <2>4. w.got \in SUBSET Machines /\ w.steady \in SUBSET enrolled
    BY <1>2, <1>3, <1>4
  <2> QED
    BY <2>1, <2>2, <2>3, <2>4, <1>4, TypedUnit
<1>6. OwnInv(v, w)
  BY <1>2, <1>3, <1>4 DEF OwnInv, OwnSite
<1>7. PageInv(v, w)
  <2> SUFFICES ASSUME v = "sentinelone" \/ ~u.shrunk
               PROVE  /\ w.at = "paging" => \A d \in u.steady : Paged(v, w, d) => d \in got
                      /\ w.at = "ok" => u.steady \subseteq got
    BY <1>4 DEF PageInv
  <2>1. Listed(w) = Listed(u)
    BY <1>4 DEF Listed
  <2>2. CASE w.at = "ok"
    BY <2>2, <1>3, <1>4
  <2>3. CASE w.at = "paging" /\ w.page = u.page + 1 /\ w.last = Latest(u, page)
    BY <2>1, <2>3, <1>3 DEF Paged
  <2> QED
    BY <2>2, <2>3, <1>4
<1>8. QED
  BY <1>1, <1>5, <1>6, <1>7, UnitStepInv DEF UnitInv, v

(***************************************************************************)
(* The other steps.                                                        *)
(***************************************************************************)
\* A step that leaves units and consoles alone.
LEMMA UnitsKept ==
  ASSUME Inv, UNCHANGED <<enrolled, header, unit>>, TypeInv'
  PROVE  Inv'
<1>1. ASSUME NEW n \in DOMAIN unit
      PROVE  UnitInv(header[n].source, unit[n])'
  <2>1. UnitInv(header[n].source, unit[n])
    BY DEF Inv
  <2> QED
    BY <2>1 DEF UnitInv, OwnInv, OwnSite, PageInv, Paged, Listed
<1>2. QED
  BY <1>1 DEF Inv

LEMMA TypesKept ==
  ASSUME Inv, UNCHANGED <<enrolled, unit>>
  PROVE  \A n \in DOMAIN unit' : UnitType(unit[n])'
<1>1. ASSUME NEW n \in DOMAIN unit
      PROVE  UnitType(unit[n])'
  <2>1. UnitType(unit[n])
    BY DEF Inv, TypeInv
  <2> QED
    BY <2>1 DEF UnitType, UnitRecord
<1>2. QED
  BY <1>1

LEMMA StartInv ==
  ASSUME Inv, Start
  PROVE  Inv'
<1>1. /\ loaded' = config /\ header' = Header(config)
      /\ unit' = [n \in DOMAIN Header(config) |-> Waiting]
      /\ run' = [NotRun EXCEPT !.at = "collecting"]
      /\ UNCHANGED <<config, enrolled, path, edits, changes>>
  BY DEF Start
<1>2. DOMAIN unit' = DOMAIN Header(config) /\ \A n \in DOMAIN unit' : unit'[n] = Waiting
  BY <1>1
<1>3. \A n \in DOMAIN unit' : UnitType(unit[n])' /\ UnitInv(header[n].source, unit[n])'
  <2> SUFFICES ASSUME NEW n \in DOMAIN Header(config)
               PROVE  UnitType(unit[n])' /\ UnitInv(header[n].source, unit[n])'
    BY <1>2
  <2>1. unit'[n] = Waiting
    BY <1>2
  <2>2. UnitType(unit[n])'
    BY <2>1, <1>1, WaitingIsFine DEF UnitType, UnitRecord
  <2>3. UnitInv(header[n].source, unit[n])'
    BY <2>1, WaitingFields DEF UnitInv, OwnInv, PageInv
  <2> QED
    BY <2>2, <2>3
<1>4. /\ run' = [at |-> run'.at, status |-> run'.status, exports |-> run'.exports,
                 agents |-> run'.agents]
      /\ run'.at = "collecting" /\ run'.agents = {}
  BY <1>1 DEF NotRun
<1>5. unit' = [n \in DOMAIN unit' |-> unit'[n]] /\ DOMAIN unit' = DOMAIN header'
  BY <1>1
<1>6. TypeInv'
  BY <1>1, <1>3, <1>4, <1>5 DEF Inv, TypeInv
<1>7. QED
  BY <1>3, <1>6 DEF Inv

LEMMA FanInInv ==
  ASSUME Inv, FanInStep
  PROVE  Inv'
<1>1. /\ UNCHANGED <<config, enrolled, path, loaded, header, unit, edits, changes>>
      /\ run.at = "collecting"
  BY DEF FanInStep, Callback, ChordFails, LoopReturns, LoopRaises, FanIn
<1>2. /\ run' = [at |-> run'.at, status |-> run'.status, exports |-> run'.exports,
                 agents |-> run'.agents]
      /\ run'.at \in {"complete", "partial", "failed", "returned", "raised"}
      /\ run'.agents \in {{}, UNION {unit[n].got : n \in OkUnits}}
  <2>1. CASE Callback
    BY <2>1 DEF Callback, FanIn, Ingested
  <2>2. CASE ChordFails
    BY <2>2 DEF ChordFails, FanIn, NotRun
  <2>3. CASE LoopReturns
    BY <2>3 DEF LoopReturns, FanIn, Ingested
  <2>4. CASE LoopRaises
    BY <2>4 DEF LoopRaises, FanIn, NotRun
  <2> QED
    BY <2>1, <2>2, <2>3, <2>4 DEF FanInStep
<1>3. run'.agents \subseteq Machines
  <2>1. \A n \in OkUnits : unit[n].got \subseteq Machines
    BY DEF OkUnits, Inv, TypeInv, UnitType
  <2> QED
    BY <2>1, <1>2
<1>4. TypeInv'
  BY <1>1, <1>2, <1>3, TypesKept DEF Inv, TypeInv
<1>5. QED
  BY <1>1, <1>4, UnitsKept

LEMMA EditInv ==
  ASSUME Inv, Edit
  PROVE  Inv'
<1>1. /\ UNCHANGED <<enrolled, path, loaded, header, unit, run, changes>>
      /\ config' \in Configs /\ edits' \in 0..Editions
  BY DEF Edit, Inv, TypeInv
<1>2. TypeInv'
  BY <1>1, TypesKept DEF Inv, TypeInv
<1>3. QED
  BY <1>1, <1>2, UnitsKept

\* A machine that is enrolled moves no other forward.
LEMMA RankGrows ==
  ASSUME NEW list \in SUBSET Machines, NEW larger \in SUBSET Machines, list \subseteq larger,
         NEW d
  PROVE  Rank(list, d) =< Rank(larger, d)
<1> DEFINE below == {e \in list : e < d}
           more == {e \in larger : e < d}
<1>1. IsFiniteSet(more) /\ below \in SUBSET more
  BY RankTyped
<1>2. Cardinality(below) =< Cardinality(more)
  <2> HIDE DEF below, more
  <2> QED
    BY <1>1, FS_Subset
<1>3. QED
  BY <1>2 DEF Rank

LEMMA EnrolInv ==
  ASSUME Inv, NEW d \in Machines, Enrol(d)
  PROVE  Inv'
<1>1. /\ enrolled' = enrolled \cup {d} /\ run.at = "collecting"
      /\ UNCHANGED <<config, path, loaded, header, run, edits, unit>>
      /\ changes' \in 0..Changes
  BY DEF Enrol, Change, Inv, TypeInv
<1>2. enrolled \in SUBSET Machines /\ enrolled' \in SUBSET Machines
  BY <1>1 DEF Inv, TypeInv
<1>3. ASSUME NEW n \in DOMAIN unit
      PROVE  UnitType(unit[n])' /\ UnitInv(header[n].source, unit[n])'
  <2> DEFINE v == header[n].source
             u == unit[n]
  <2>1. UnitType(u) /\ OwnInv(v, u) /\ PageInv(v, u)
    BY DEF Inv, TypeInv, UnitInv
  <2>2. UnitType(unit[n])'
    BY <2>1, <1>1 DEF UnitType, UnitRecord
  <2>3. OwnInv(header[n].source, unit[n])'
    BY <2>1, <1>1 DEF OwnInv, OwnSite
  <2>4. ASSUME NEW k \in u.steady, Paged(v, u, k)'
        PROVE  Paged(v, u, k)
    <3>1. CASE v = "sentinelone"
      BY <3>1, <2>4, <1>1 DEF Paged
    <3>2. CASE v # "sentinelone"
      <4>1. Listed(u) \in SUBSET Machines /\ Listed(u)' \in SUBSET Machines
            /\ Listed(u) \subseteq Listed(u)'
        BY <1>1, <1>2 DEF Listed
      <4>2. Rank(Listed(u), k) =< Rank(Listed(u)', k)
        BY <4>1, RankGrows
      <4>3. Rank(Listed(u), k) \in Nat /\ Rank(Listed(u)', k) \in Nat
        BY <4>1, RankTyped
      <4>4. Rank(Listed(u)', k) < u.page * Rows /\ u.page * Rows \in Nat
        BY <3>2, <2>1, <2>4, <1>1, PageStarts DEF Paged, Rank, UnitType
      <4> QED
        BY <3>2, <4>2, <4>3, <4>4 DEF Paged
    <3> QED
      BY <3>1, <3>2
  <2>5. PageInv(header[n].source, unit[n])'
    BY <2>1, <2>4, <1>1 DEF PageInv
  <2> QED
    BY <2>2, <2>3, <2>5 DEF UnitInv
<1>4. TypeInv'
  BY <1>1, <1>2, <1>3 DEF Inv, TypeInv
<1>5. QED
  BY <1>1, <1>3, <1>4 DEF Inv

LEMMA RemoveInv ==
  ASSUME Inv, NEW d \in Machines, Remove(d)
  PROVE  Inv'
<1> DEFINE Gone(u) == u.at = "paging" /\ u.page > 0 /\ Home[d] = u.console
           after(u) == [u EXCEPT !.steady = @ \ {d}, !.shrunk = @ \/ Gone(u)]
<1>1. /\ enrolled' = enrolled \ {d} /\ run.at = "collecting"
      /\ UNCHANGED <<config, path, loaded, header, run, edits>>
      /\ changes' \in 0..Changes
  <2>1. Change(enrolled \ {d})
    BY DEF Remove
  <2> QED
    BY <2>1 DEF Change, Inv, TypeInv
<1>2. unit' = [n \in DOMAIN unit |-> after(unit[n])]
  BY Zenon DEF Remove
<1>3. enrolled' \in SUBSET Machines
  BY <1>1 DEF Inv, TypeInv
<1>4. ASSUME NEW n \in DOMAIN unit
      PROVE  UnitType(unit[n])' /\ UnitInv(header[n].source, unit[n])'
  <2> DEFINE v == header[n].source
             u == unit[n]
             w == after(u)
  <2>1. UnitType(u) /\ OwnInv(v, u) /\ PageInv(v, u) /\ UnitRecord(u)
    BY DEF Inv, TypeInv, UnitInv, UnitType
  <2>2. unit'[n] = w
    BY <1>2, Zenon
  <2> HIDE DEF u, v
  <2>3. /\ UnitRecord(w) /\ w.at = u.at /\ w.key = u.key /\ w.console = u.console
        /\ w.ids = u.ids /\ w.narrowed = u.narrowed /\ w.page = u.page /\ w.last = u.last
        /\ w.got = u.got /\ w.steady = u.steady \ {d} /\ w.shrunk = (u.shrunk \/ Gone(u))
    BY <2>1 DEF UnitRecord
  <2> HIDE DEF w
  <2>4. w.shrunk \in BOOLEAN /\ (u.shrunk => w.shrunk)
    BY <2>1, <2>3 DEF UnitType
  <2>5. w.at = "queued" => w = Waiting
    <3> SUFFICES ASSUME w.at = "queued"
                 PROVE  w = Waiting
      OBVIOUS
    <3>1. u = Waiting /\ u.at = "queued"
      BY <2>1, <2>3 DEF UnitType
    <3>2. w.steady = Waiting.steady
      BY <3>1, <2>3, WaitingFields
    <3>3. w.shrunk = FALSE
      BY <3>1, <2>3, WaitingFields
    <3>4. /\ w.at = Waiting.at /\ w.key = Waiting.key /\ w.console = Waiting.console
          /\ w.ids = Waiting.ids /\ w.narrowed = Waiting.narrowed /\ w.page = Waiting.page
          /\ w.last = Waiting.last /\ w.got = Waiting.got
      BY <3>1, <2>3, Zenon
    <3>5. UnitRecord(w) /\ UnitRecord(Waiting) /\ w.shrunk = Waiting.shrunk
      BY <3>3, <2>3, WaitingFields
    <3> QED
      BY <3>2, <3>4, <3>5 DEF UnitRecord
  <2>6. UnitType(unit[n])'
    BY <2>1, <2>2, <2>3, <2>4, <2>5, <1>1 DEF UnitType, UnitRecord
  <2>7. OwnInv(v, w)
    BY <2>1, <2>3 DEF OwnInv, OwnSite
  <2> DEFINE listed == {k \in enrolled \ {d} : Home[k] = w.console /\
                                               (w.narrowed => Site[k] \in w.ids)}
  <2>8. ASSUME NEW k \in w.steady, v = "sentinelone" \/ ~w.shrunk, w.at = "paging",
               IF v = "sentinelone" THEN k =< w.last
               ELSE Rank(listed, k) < w.page * Rows
        PROVE  k \in w.got
    <3>1. k \in u.steady /\ (v = "sentinelone" \/ ~u.shrunk) /\ u.at = "paging"
      BY <2>3, <2>4, <2>8
    <3>2. CASE v = "sentinelone"
      BY <3>1, <3>2, <2>1, <2>3, <2>8 DEF PageInv, Paged
    <3>3. CASE v # "sentinelone" /\ u.page = 0
      <4>1. listed \in SUBSET Machines
        BY <1>1, <1>3
      <4>2. Rank(listed, k) \in Nat
        BY <4>1, RankTyped
      <4>3. w.page * Rows = 0
        BY <3>3, <2>3
      <4> QED
        BY <3>3, <4>2, <4>3, <2>8
    <3>4. CASE v # "sentinelone" /\ u.page # 0
      <4>1. u.page > 0
        BY <3>4, <2>1 DEF UnitType
      <4>2. Home[d] # u.console
        BY <3>1, <3>4, <4>1, <2>3, <2>8
      <4>3. listed = Listed(u)
        BY <4>2, <2>3 DEF Listed
      <4> QED
        BY <3>1, <3>4, <4>3, <2>1, <2>3, <2>8 DEF PageInv, Paged
    <3> QED
      BY <3>2, <3>3, <3>4
  <2>9. w.at = "ok" /\ (v = "sentinelone" \/ ~w.shrunk) => w.steady \subseteq w.got
    BY <2>1, <2>3, <2>4 DEF PageInv
  <2>10. UnitInv(header[n].source, unit[n])'
    <3>1. OwnInv(header[n].source, unit[n])'
      BY <2>2, <2>7, <1>1 DEF OwnInv, OwnSite, v
    <3>2. ASSUME NEW k \in w.steady
          PROVE  Paged(header[n].source, unit[n], k)' =>
                    IF v = "sentinelone" THEN k =< w.last
                    ELSE Rank(listed, k) < w.page * Rows
      BY <2>2, <1>1 DEF Paged, Rank, Listed, v
    <3>3. PageInv(header[n].source, unit[n])'
      BY <2>2, <2>8, <2>9, <3>2, <1>1 DEF PageInv, v
    <3> QED
      BY <3>1, <3>3 DEF UnitInv
  <2> QED
    BY <2>6, <2>10
<1> HIDE DEF after
<1>5. DOMAIN unit' = DOMAIN unit /\ unit' = [n \in DOMAIN unit' |-> unit'[n]]
  BY <1>2
<1>6. \A n \in DOMAIN unit' : UnitType(unit[n])' /\ UnitInv(header[n].source, unit[n])'
  BY <1>4, <1>5
<1>7. TypeInv'
  BY <1>1, <1>3, <1>5, <1>6 DEF Inv, TypeInv
<1>8. QED
  BY <1>1, <1>6, <1>7 DEF Inv

(***************************************************************************)
(* The theorems.                                                           *)
(***************************************************************************)
LEMMA InitInv ==
  ASSUME Init
  PROVE  Inv
<1>1. unit = <<>> /\ header = <<>> /\ DOMAIN unit = {} /\ DOMAIN header = {}
      /\ unit = [n \in DOMAIN unit |-> unit[n]]
  BY DEF Init
<1>2. /\ run = [at |-> run.at, status |-> run.status, exports |-> run.exports,
                agents |-> run.agents]
      /\ run.at = "none" /\ run.agents = {}
  BY DEF Init, NotRun
<1>3. QED
  BY <1>1, <1>2 DEF Init, Inv, TypeInv

LEMMA NextInv ==
  ASSUME Inv, [Next]_vars
  PROVE  Inv'
<1>1. CASE Start
  BY <1>1, StartInv
<1>2. ASSUME NEW n \in DOMAIN unit, UnitRaises(n)
      PROVE  Inv'
  BY <1>2, UnitRaisesInv
<1>3. ASSUME NEW n \in DOMAIN unit, CollectDomain(n)
      PROVE  Inv'
  BY <1>3, CollectDomainInv
<1>4. ASSUME NEW n \in DOMAIN unit, CollectFixture(n)
      PROVE  Inv'
  BY <1>4, CollectFixtureInv
<1>5. ASSUME NEW n \in DOMAIN unit, OpenInventory(n)
      PROVE  Inv'
  BY <1>5, OpenInventoryInv
<1>6. ASSUME NEW n \in DOMAIN unit, FetchPage(n)
      PROVE  Inv'
  BY <1>6, FetchPageInv
<1>7. ASSUME NEW n \in DOMAIN unit, RequestFails(n)
      PROVE  Inv'
  BY <1>7, RequestFailsInv
<1>8. CASE FanInStep
  BY <1>8, FanInInv
<1>9. CASE Edit
  BY <1>9, EditInv
<1>10. ASSUME NEW d \in Machines, Enrol(d)
       PROVE  Inv'
  BY <1>10, EnrolInv
<1>11. ASSUME NEW d \in Machines, Remove(d)
       PROVE  Inv'
  BY <1>11, RemoveInv
<1>12. CASE UNCHANGED vars
  <2>1. UNCHANGED <<config, enrolled, path, loaded, header, unit, run, edits, changes>>
    BY <1>12 DEF vars
  <2>2. TypeInv'
    BY <2>1, TypesKept DEF Inv, TypeInv
  <2> QED
    BY <2>1, <2>2, UnitsKept
<1>13. QED
  BY <1>1, <1>2, <1>3, <1>4, <1>5, <1>6, <1>7, <1>8, <1>9, <1>10, <1>11, <1>12
     DEF Next, UnitStep

LEMMA Invariance == Spec => []Inv
<1>1. Init => Inv
  BY InitInv
<1>2. Inv /\ [Next]_vars => Inv'
  BY NextInv
<1>3. QED
  BY <1>1, <1>2, PTL DEF Spec

\* Types, and that a unit that failed carries no inventory, whatever fails
\* and in whatever order the units are collected.
THEOREM TypeCorrect == Spec => []TypeOK
<1>1. Inv => TypeOK
  <2> SUFFICES ASSUME Inv
               PROVE  TypeOK
    OBVIOUS
  <2>1. ASSUME NEW n \in DOMAIN unit
        PROVE  /\ unit[n].at \in {"queued", "paging"} \cup Ended /\ unit[n].got \subseteq Machines
               /\ unit[n].at \in {"queued", "error", "raised"} => unit[n].got = {}
    <3>1. UnitType(unit[n])
      BY DEF Inv, TypeInv
    <3> QED
      BY <3>1, WaitingFields DEF UnitType
  <2> QED
    BY <2>1 DEF Inv, TypeInv, TypeOK
<1>2. QED
  BY <1>1, Invariance, PTL

\* No inventory has a machine of another client's site or console, whether or
\* not the console obeys the filter it is given (_in_scoped_sites,
\* _in_scoped_company).
THEOREM InventoriesAreOwn == Spec => []OnlyOwnMachines
<1>1. Inv => OnlyOwnMachines
  BY DEF Inv, UnitInv, OwnInv, OwnSite, OnlyOwnMachines
<1>2. QED
  BY <1>1, Invariance, PTL

\* An inventory that was collected misses no machine that was in its console
\* from the first page to the last (_live_fetch_inventory, the cursor or the
\* count the vendor pages by), however large the console and its pages.
THEOREM InventoriesAreComplete == Spec => []InventoryComplete
<1>1. Inv => InventoryComplete
  BY DEF Inv, UnitInv, PageInv, InventoryComplete
<1>2. QED
  BY <1>1, Invariance, PTL
(***************************************************************************)
(* How long a collection can be.  The page a unit is at is bounded by the   *)
(* machines there are: a cursor only moves on over machines it has passed,  *)
(* and a page is asked for by number only if the list still had a machine   *)
(* beyond it.                                                               *)
(***************************************************************************)
MostPages == Cardinality(Machines)
Passed(k) == {d \in Machines : d =< k}

PagesInv(v, u) ==
    u.page * Rows =< IF v = "sentinelone" THEN Cardinality(Passed(u.last)) ELSE MostPages

\* The steps a unit may still take.
UnitRank(u) ==
    CASE u.at = "queued" -> MostPages + 2
      [] u.at = "paging" -> MostPages + 1 - u.page
      [] OTHER -> 0

\* A page that is not the last is full.
LEMMA FullPage ==
  ASSUME NEW v, NEW u, Remaining(v, u) \in SUBSET Machines, ~LastPage(v, u)
  PROVE  /\ Cardinality(PageOf(v, u)) = Rows
         /\ \E d \in Remaining(v, u) : Rows =< Rank(Remaining(v, u), d)
<1> DEFINE rest == Remaining(v, u)
<1>1. PICK d \in rest : Rows =< Rank(rest, d)
  BY DEF LastPage, From, Rank
<1>2. Rows =< Cardinality(rest)
  <2> DEFINE below == {e \in rest : e < d}
  <2>1. IsFiniteSet(rest) /\ below \in SUBSET rest /\ Rank(rest, d) = Cardinality(below)
    BY RankTyped DEF Rank
  <2>2. Cardinality(below) =< Cardinality(rest)
    <3> HIDE DEF below, rest
    <3> QED
      BY <2>1, FS_Subset
  <2>3. Cardinality(rest) \in Nat /\ Rank(rest, d) \in Nat
    BY <2>1, RankTyped, FS_CardinalityType
  <2> HIDE DEF below, rest
  <2> QED
    BY <1>1, <2>1, <2>2, <2>3
<1>3. Cardinality({e \in rest : Rank(rest, e) < Rows}) = Rows
  BY <1>2, FirstOfList
<1>4. QED
  BY <1>1, <1>3, PageIsFirst

\* Nothing of a page comes after the machine it ends with.
LEMMA LatestIsLast ==
  ASSUME NEW v, NEW u, Remaining(v, u) \in SUBSET Machines, u.last \in Nat
  PROVE  \A e \in PageOf(v, u) : e =< Latest(u, PageOf(v, u))
<1> DEFINE page == PageOf(v, u)
<1>1. page \in SUBSET Nat /\ IsFiniteSet(page)
  <2>1. page \in SUBSET Machines
    BY DEF PageOf
  <2> HIDE DEF page
  <2> QED
    BY <2>1, FS_Subset
<1>2. \E d \in page \cup {u.last} : \A e \in page : e =< d
  <2>1. CASE page = {}
    BY <2>1
  <2>2. CASE page # {}
    <3> HIDE DEF page
    <3> QED
      BY <2>2, <1>1, GreatestNumber
  <2> QED
    BY <2>1, <2>2
<1>3. QED
  BY <1>2 DEF Latest

\* A page that is followed by another moves the cursor over Rows machines, or
\* the count by Rows that the list still goes beyond.
LEMMA NextPage ==
  ASSUME Inv, NEW n \in DOMAIN unit, PagesInv(header[n].source, unit[n]),
         ~LastPage(header[n].source, unit[n]),
         NEW w, w.page = unit[n].page + 1,
         w.last = Latest(unit[n], PageOf(header[n].source, unit[n]))
  PROVE  PagesInv(header[n].source, w)
<1> DEFINE v == header[n].source
           u == unit[n]
           page == PageOf(v, u)
           rest == Remaining(v, u)
           start == u.page * Rows
<1>1. u.page \in Nat /\ u.last \in Nat /\ enrolled \in SUBSET Machines
  BY DEF Inv, TypeInv, UnitType
<1>2. start \in Nat /\ w.page * Rows = start + Rows
  BY <1>1, PageStarts
<1>3. Listed(u) \in SUBSET Machines /\ rest \in SUBSET Listed(u) /\ page \in SUBSET rest
  BY <1>1 DEF Listed, Remaining, From, PageOf
<1>4. rest \in SUBSET Machines /\ page \in SUBSET Machines
  BY <1>3
<1>5. CASE v = "sentinelone"
  <2> DEFINE new == Latest(u, page)
  <2>1. Cardinality(page) = Rows
    BY <1>4, FullPage
  <2>2. \A e \in page : e > u.last
    BY <1>3, <1>5 DEF Remaining
  <2>3. new \in page \cup {u.last} /\ new \in Nat /\ \A e \in page : e =< new
    BY <1>1, <1>4, LatestOfPage, LatestIsLast
  <2>4. page # {}
    <3> SUFFICES ASSUME page = {}
                 PROVE  FALSE
      OBVIOUS
    <3> QED
      BY <2>1, FS_EmptySet
  <2>5. u.last < new
    <3>1. PICK e \in page : TRUE
      BY <2>4
    <3>2. e \in Nat /\ e > u.last /\ e =< new
      BY <3>1, <2>2, <2>3, <1>4
    <3> HIDE DEF new, page, u
    <3> QED
      BY <3>2, <2>3, <1>1
  <2>6. /\ IsFiniteSet(Passed(u.last)) /\ IsFiniteSet(Passed(new)) /\ IsFiniteSet(page)
        /\ Cardinality(Passed(u.last)) \in Nat /\ Cardinality(Passed(new)) \in Nat
    <3>1. \A k : IsFiniteSet(Passed(k))
      BY FS_Subset DEF Passed
    <3>2. IsFiniteSet(page)
      BY <1>4, FS_Subset
    <3> QED
      BY <3>1, <3>2, FS_CardinalityType
  <2>7. Passed(u.last) \cup page \in SUBSET Passed(new) /\ Passed(u.last) \cap page = {}
    <3>1. \A d \in page : d \in Machines /\ d \in Nat /\ d > u.last /\ d =< new
      BY <2>2, <2>3, <1>4
    <3>2. u.last \in Nat /\ new \in Nat /\ u.last < new
      BY <2>3, <2>5, <1>1
    <3> HIDE DEF new, page, u
    <3>3. \A d \in page : d \in Passed(new) /\ d \notin Passed(u.last)
      BY <3>1, <3>2 DEF Passed
    <3>4. \A d \in Passed(u.last) : d \in Passed(new)
      <4> SUFFICES ASSUME NEW d \in Machines, d =< u.last
                   PROVE  d =< new
        BY DEF Passed
      <4>1. d \in Nat
        OBVIOUS
      <4> QED
        BY <4>1, <3>2
    <3> QED
      BY <3>3, <3>4
  <2>8. Cardinality(Passed(u.last) \cup page) = Cardinality(Passed(u.last)) + Rows
    <3> DEFINE old == Passed(u.last)
    <3> HIDE DEF new, page, u, old
    <3>1. Cardinality(old \cap page) = 0
      BY <2>7, FS_EmptySet DEF old
    <3>2. Cardinality(old \cup page) = Cardinality(old) + Cardinality(page) - Cardinality(old \cap page)
      BY <2>6, FS_Union DEF old
    <3>3. Cardinality(old \cup page) = Cardinality(old) + Rows
      BY <2>1, <2>6, <3>1, <3>2 DEF old
    <3> QED
      BY <3>3 DEF old
  <2>9. Cardinality(Passed(u.last) \cup page) =< Cardinality(Passed(new))
    BY <2>6, <2>7, FS_Subset
  <2>10. start =< Cardinality(Passed(u.last))
    BY <1>5 DEF PagesInv
  <2> HIDE DEF new, page, u, start
  <2>11. start + Rows =< Cardinality(Passed(new))
    BY <2>6, <2>8, <2>9, <2>10, <1>2
  <2> QED
    BY <2>11, <1>2, <1>5 DEF PagesInv, new, page, u
<1>6. CASE v # "sentinelone"
  <2>1. rest = From(Listed(u), start)
    BY <1>6 DEF Remaining
  <2>2. PICK d \in rest : Rows =< Rank(rest, d)
    BY <1>4, FullPage
  <2>3. d \in Listed(u) /\ start =< Rank(Listed(u), d) /\ Rank(Listed(u), d) \in Nat
    BY <2>1, <2>2, <1>3, RankTyped DEF From, Rank
  <2>4. Rank(rest, d) = Rank(Listed(u), d) - start
    <3> DEFINE list == Listed(u)
    <3>1. list \in SUBSET Machines /\ d \in list /\ start \in Nat /\ start =< Rank(list, d)
      BY <2>3, <1>2, <1>3
    <3> HIDE DEF list, start, rest
    <3>2. Rank(From(list, start), d) = Rank(list, d) - start
      BY <3>1, RankFrom
    <3> QED
      BY <2>1, <3>2 DEF list
  <2>5. Rank(Listed(u), d) =< MostPages /\ MostPages \in Nat
    <3> DEFINE below == {e \in Listed(u) : e < d}
    <3>1. below \in SUBSET Machines /\ Rank(Listed(u), d) = Cardinality(below)
      BY <1>3 DEF Rank
    <3> HIDE DEF below
    <3> QED
      BY <3>1, FS_Subset, FS_CardinalityType DEF MostPages
  <2>6. start + Rows =< MostPages
    <3> HIDE DEF start, rest
    <3> QED
      BY <2>2, <2>3, <2>4, <2>5, <1>2
  <2> QED
    BY <2>6, <1>2, <1>6 DEF PagesInv
<1>7. QED
  BY <1>5, <1>6

\* What the step of a unit does to where it is.
Advances(v, u, w) ==
    \/ w.page = u.page /\ w.last = u.last /\ u.at = "queued" /\ w.at \in {"paging"} \cup Ended
    \/ w.page = u.page /\ w.last = u.last /\ u.at = "paging" /\ w.at \in Ended
    \/ /\ ~LastPage(v, u) /\ u.at = "paging" /\ w.at = "paging"
       /\ w.page = u.page + 1 /\ w.last = Latest(u, PageOf(v, u))

LEMMA UnitAdvances ==
  ASSUME Inv, UnitStep \/ \E n \in DOMAIN unit : RequestFails(n)
  PROVE  \E n \in DOMAIN unit : \E w : Ends(n, w) /\ Advances(header[n].source, unit[n], w)
<1> DEFINE Goal == \E n \in DOMAIN unit : \E w : Ends(n, w) /\ Advances(header[n].source, unit[n], w)
<1>1. ASSUME NEW n \in DOMAIN unit, UnitRaises(n)
      PROVE  Goal
  <2> DEFINE w == [Waiting EXCEPT !.at = "raised"]
  <2>1. unit[n] = Waiting /\ Ends(n, w)
    <3>1. unit[n] = Waiting /\ Ends(n, [unit[n] EXCEPT !.at = "raised"])
      BY <1>1, QueuedIsWaiting DEF UnitRaises
    <3> QED
      BY <3>1
  <2>2. Advances(header[n].source, unit[n], w)
    BY <2>1 DEF Advances, Waiting, Ended
  <2> QED
    BY <2>1, <2>2
<1>2. ASSUME NEW n \in DOMAIN unit, CollectDomain(n)
      PROVE  Goal
  <2>1. PICK at \in {"ok", "error"} :
           Ends(n, [unit[n] EXCEPT !.at = at, !.key = <<"ad", header[n].target>>])
    BY <1>2 DEF CollectDomain
  <2> DEFINE w == [Waiting EXCEPT !.at = at, !.key = <<"ad", header[n].target>>]
  <2>2. unit[n] = Waiting
    BY <1>2, QueuedIsWaiting DEF CollectDomain
  <2>3. Ends(n, w)
    BY <2>1, <2>2
  <2>4. Advances(header[n].source, unit[n], w)
    BY <2>2 DEF Advances, Waiting, Ended
  <2> QED
    BY <2>3, <2>4
<1>3. ASSUME NEW n \in DOMAIN unit, CollectFixture(n)
      PROVE  Goal
  <2> DEFINE v == header[n].source
             u == SiteUnit(n, v, SitesFor(Current, v))
             file == <<v, SitesFor(Current, v)[header[n].index].label>>
             got == ParseInventory(v, u.ids, Fixtures[file])
             w == IF file \in DOMAIN Fixtures THEN [u EXCEPT !.at = "ok", !.got = got]
                  ELSE [u EXCEPT !.at = "error"]
  <2>1. IsSite(n) /\ Ends(n, w)
    BY <1>3 DEF CollectFixture
  <2>2. unit[n].page = 0 /\ unit[n].last = 0 /\ unit[n].at = "queued"
    BY <2>1, QueuedIsWaiting, WaitingFields DEF IsSite
  <2>3. UnitRecord(u) /\ u.page = 0 /\ u.last = 0
    BY <2>1, SiteUnitFields
  <2> HIDE DEF u, v, file, got
  <2>4. w.page = 0 /\ w.last = 0 /\ w.at \in Ended
    BY <2>3 DEF UnitRecord, Ended
  <2> HIDE DEF w
  <2> QED
    BY <2>1, <2>2, <2>4 DEF Advances
<1>4. ASSUME NEW n \in DOMAIN unit, OpenInventory(n)
      PROVE  Goal
  <2> DEFINE v == header[n].source
             u == SiteUnit(n, v, SitesFor(Current, v))
  <2>1. PICK narrowed \in BOOLEAN :
           Ends(n, [u EXCEPT !.at = "paging", !.narrowed = narrowed, !.steady = InScope(v, u)])
    BY <1>4 DEF OpenInventory
  <2> DEFINE w == [u EXCEPT !.at = "paging", !.narrowed = narrowed, !.steady = InScope(v, u)]
  <2>2. IsSite(n) /\ Ends(n, w)
    BY <2>1, <1>4 DEF OpenInventory
  <2>3. unit[n].page = 0 /\ unit[n].last = 0 /\ unit[n].at = "queued"
    BY <2>2, QueuedIsWaiting, WaitingFields DEF IsSite
  <2>4. UnitRecord(u) /\ u.page = 0 /\ u.last = 0
    BY <2>2, SiteUnitFields
  <2> HIDE DEF u, v
  <2>5. w.page = 0 /\ w.last = 0 /\ w.at = "paging"
    BY <2>4 DEF UnitRecord
  <2> HIDE DEF w
  <2> QED
    BY <2>2, <2>3, <2>5 DEF Advances
<1>5. ASSUME NEW n \in DOMAIN unit, FetchPage(n)
      PROVE  Goal
  <2> DEFINE v == header[n].source
             u == unit[n]
             page == PageOf(v, u)
             got == u.got \cup ParseInventory(v, u.ids, page)
             w == IF LastPage(v, u) THEN [u EXCEPT !.at = "ok", !.got = got]
                  ELSE [u EXCEPT !.got = got, !.page = u.page + 1, !.last = Latest(u, page)]
  <2>1. u.at = "paging" /\ Ends(n, w)
    BY <1>5 DEF FetchPage
  <2>2. UnitRecord(u)
    BY DEF Inv, TypeInv, UnitType
  <2>3. CASE LastPage(v, u)
    <3>1. w = [u EXCEPT !.at = "ok", !.got = got]
      BY <2>3
    <3> HIDE DEF w, u, v, got
    <3>2. w.page = u.page /\ w.last = u.last /\ w.at \in Ended
      BY <3>1, <2>2 DEF UnitRecord, Ended
    <3> QED
      BY <2>1, <3>2 DEF Advances, u
  <2>4. CASE ~LastPage(v, u)
    <3>1. w = [u EXCEPT !.got = got, !.page = u.page + 1, !.last = Latest(u, page)]
      BY <2>4
    <3> HIDE DEF w, u, v, got, page
    <3>2. w.page = u.page + 1 /\ w.last = Latest(u, page) /\ w.at = "paging"
      BY <3>1, <2>1, <2>2 DEF UnitRecord
    <3> QED
      BY <2>1, <2>4, <3>2 DEF Advances, u, v, page
  <2> QED
    BY <2>3, <2>4
<1>6. ASSUME NEW n \in DOMAIN unit, RequestFails(n)
      PROVE  Goal
  <2> DEFINE w == [unit[n] EXCEPT !.at = "error", !.got = {}]
  <2>1. unit[n].at = "paging" /\ Ends(n, w)
    BY <1>6 DEF RequestFails
  <2>2. UnitRecord(unit[n])
    BY DEF Inv, TypeInv, UnitType
  <2>3. w.page = unit[n].page /\ w.last = unit[n].last /\ w.at \in Ended
    BY <2>2 DEF UnitRecord, Ended
  <2> HIDE DEF w
  <2> QED
    BY <2>1, <2>3 DEF Advances
<1>7. QED
  BY <1>1, <1>2, <1>3, <1>4, <1>5, <1>6 DEF UnitStep

\* The others leave the units where they are.
LEMMA OthersStay ==
  ASSUME Inv, [Next]_vars, ~UnitStep, ~ \E n \in DOMAIN unit : RequestFails(n), ~Start
  PROVE  /\ UNCHANGED header /\ DOMAIN unit' = DOMAIN unit
         /\ \A n \in DOMAIN unit : /\ unit'[n].at = unit[n].at /\ unit'[n].page = unit[n].page
                                   /\ unit'[n].last = unit[n].last
<1>1. CASE FanInStep \/ Edit \/ UNCHANGED vars \/ \E d \in Machines : Enrol(d)
  BY <1>1 DEF FanInStep, Callback, ChordFails, LoopReturns, LoopRaises, FanIn, Edit, vars,
              Enrol, Change
<1>2. ASSUME NEW d \in Machines, Remove(d)
      PROVE  /\ UNCHANGED header /\ DOMAIN unit' = DOMAIN unit
             /\ \A n \in DOMAIN unit : /\ unit'[n].at = unit[n].at /\ unit'[n].page = unit[n].page
                                       /\ unit'[n].last = unit[n].last
  <2> DEFINE Gone(u) == u.at = "paging" /\ u.page > 0 /\ Home[d] = u.console
             after(u) == [u EXCEPT !.steady = @ \ {d}, !.shrunk = @ \/ Gone(u)]
  <2>1. unit' = [n \in DOMAIN unit |-> after(unit[n])]
    BY <1>2, Zenon DEF Remove
  <2>2. UNCHANGED header
    BY <1>2 DEF Remove, Change
  <2>3. ASSUME NEW n \in DOMAIN unit
        PROVE  /\ unit'[n].at = unit[n].at /\ unit'[n].page = unit[n].page
               /\ unit'[n].last = unit[n].last
    <3>1. UnitRecord(unit[n])
      BY DEF Inv, TypeInv, UnitType
    <3>2. unit'[n] = after(unit[n])
      BY <2>1, Zenon
    <3> QED
      BY <3>1, <3>2 DEF UnitRecord
  <2> HIDE DEF after
  <2> QED
    BY <2>1, <2>2, <2>3
<1>3. QED
  BY <1>1, <1>2 DEF Next

BoundInv == \A n \in DOMAIN unit : PagesInv(header[n].source, unit[n])

LEMMA BoundKept ==
  ASSUME Inv, BoundInv, [Next]_vars
  PROVE  BoundInv'
<1>1. CASE UnitStep \/ \E n \in DOMAIN unit : RequestFails(n)
  <2>1. PICK n \in DOMAIN unit : \E w : Ends(n, w) /\ Advances(header[n].source, unit[n], w)
    BY <1>1, UnitAdvances
  <2>2. PICK w : Ends(n, w) /\ Advances(header[n].source, unit[n], w)
    BY <2>1
  <2>3. /\ UNCHANGED header /\ DOMAIN unit' = DOMAIN unit /\ unit'[n] = w
        /\ \A m \in DOMAIN unit : m # n => unit'[m] = unit[m]
    BY <2>2 DEF Ends, Inv, TypeInv
  <2>4. PagesInv(header[n].source, unit[n])
    BY DEF BoundInv
  <2>5. PagesInv(header[n].source, w)
    <3>1. CASE w.page = unit[n].page /\ w.last = unit[n].last
      BY <3>1, <2>4 DEF PagesInv
    <3>2. CASE ~LastPage(header[n].source, unit[n]) /\ w.page = unit[n].page + 1
               /\ w.last = Latest(unit[n], PageOf(header[n].source, unit[n]))
      BY <3>2, <2>4, NextPage
    <3> QED
      BY <3>1, <3>2, <2>2 DEF Advances
  <2> QED
    BY <2>3, <2>5 DEF BoundInv, PagesInv
<1>2. CASE Start
  <2> SUFFICES ASSUME NEW n \in DOMAIN unit'
               PROVE  PagesInv(header'[n].source, unit'[n])
    BY DEF BoundInv, PagesInv
  <2>1. unit'[n].page = 0 /\ unit'[n].last = 0
    BY <1>2, WaitingFields DEF Start
  <2>2. Cardinality(Passed(0)) \in Nat /\ MostPages \in Nat
    BY FS_Subset, FS_CardinalityType DEF Passed, MostPages
  <2> QED
    BY <2>1, <2>2 DEF PagesInv
<1>3. CASE ~UnitStep /\ ~(\E n \in DOMAIN unit : RequestFails(n)) /\ ~Start
  BY <1>3, OthersStay DEF BoundInv, PagesInv
<1>4. QED
  BY <1>1, <1>2, <1>3

\* The page a unit is at, and so what is left to it.
LEMMA PageBounded ==
  ASSUME Inv, BoundInv, NEW n \in DOMAIN unit
  PROVE  /\ unit[n].page \in 0..MostPages /\ unit[n].page * Rows =< MostPages
         /\ UnitRank(unit[n]) \in 0..(MostPages + 2) /\ MostPages \in Nat
<1>1. MostPages \in Nat /\ unit[n].page \in Nat /\ PagesInv(header[n].source, unit[n])
  BY FS_CardinalityType DEF MostPages, BoundInv, Inv, TypeInv, UnitType
<1>2. Cardinality(Passed(unit[n].last)) =< MostPages /\ Cardinality(Passed(unit[n].last)) \in Nat
  BY FS_Subset, FS_CardinalityType DEF Passed, MostPages
<1>3. unit[n].page * Rows \in Nat /\ unit[n].page * Rows =< MostPages
  BY <1>1, <1>2, PageStarts DEF PagesInv
<1>4. unit[n].page =< unit[n].page * Rows
  BY <1>1
<1>5. unit[n].page \in 0..MostPages
  BY <1>1, <1>3, <1>4
<1>6. UnitRank(unit[n]) \in {MostPages + 2, MostPages + 1 - unit[n].page, 0}
  BY DEF UnitRank
<1>7. UnitRank(unit[n]) \in 0..(MostPages + 2)
  BY <1>1, <1>5, <1>6
<1>8. QED
  BY <1>1, <1>3, <1>5, <1>7

\* A unit that goes on has fewer steps left.
LEMMA RankLowers ==
  ASSUME NEW v, NEW u, NEW w, Advances(v, u, w), u.page \in 0..MostPages, MostPages \in Nat
  PROVE  UnitRank(w) < UnitRank(u)
<1>1. CASE w.page = u.page /\ u.at = "queued" /\ w.at \in {"paging"} \cup Ended
  <2>1. UnitRank(u) = MostPages + 2 /\ UnitRank(w) \in {MostPages + 1 - u.page, 0}
    BY <1>1 DEF UnitRank, Ended
  <2> QED
    BY <2>1
<1>2. CASE u.at = "paging" /\ w.at \in Ended
  <2>1. UnitRank(u) = MostPages + 1 - u.page /\ UnitRank(w) = 0
    BY <1>2 DEF UnitRank, Ended
  <2> QED
    BY <2>1
<1>3. CASE u.at = "paging" /\ w.at = "paging" /\ w.page = u.page + 1
  <2>1. UnitRank(u) = MostPages + 1 - u.page /\ UnitRank(w) = MostPages + 1 - (u.page + 1)
    BY <1>3 DEF UnitRank
  <2> QED
    BY <2>1
<1>4. QED
  BY <1>1, <1>2, <1>3 DEF Advances

\* No inventory takes more requests than there are machines to list, and one, however
\* many are enrolled and removed between its pages (the loops of _live_fetch_inventory,
\* which have no bound of their own); and a collection goes one way: each step of a
\* unit brings that unit nearer to its end, and nothing takes one further from it.
\* (What is left of CollectionEnds is that the steps are taken.)
UnitsWindDown ==
    /\ \A n \in DOMAIN unit :
          /\ unit[n].page * Rows =< MostPages /\ UnitRank(unit[n]) \in 0..(MostPages + 2)
          /\ n \in DOMAIN unit' /\ UnitRank(unit'[n]) =< UnitRank(unit[n])
    /\ UnitStep \/ (\E n \in DOMAIN unit : RequestFails(n)) =>
          \E n \in DOMAIN unit : UnitRank(unit'[n]) < UnitRank(unit[n])

\* For every configuration and console, an inventory ends after a bounded number of
\* requests and a collection after a bounded number of steps (collect_vendor_site, the loops
\* of the connectors).
THEOREM RequestsAreBounded == Spec => [][UnitsWindDown]_vars
<1>1. Init => BoundInv
  BY DEF Init, BoundInv
<1>2. Inv /\ BoundInv /\ [Next]_vars => BoundInv'
  BY BoundKept
<1>3. Inv /\ BoundInv /\ [Next]_vars => UnitsWindDown
  <2> SUFFICES ASSUME Inv, BoundInv, [Next]_vars
               PROVE  UnitsWindDown
    OBVIOUS
  <2>1. \A n \in DOMAIN unit : /\ unit[n].page \in 0..MostPages /\ MostPages \in Nat
                               /\ unit[n].page * Rows =< MostPages
                               /\ UnitRank(unit[n]) \in 0..(MostPages + 2)
    BY PageBounded
  <2>2. CASE UnitStep \/ \E n \in DOMAIN unit : RequestFails(n)
    <3>1. PICK n \in DOMAIN unit : \E w : Ends(n, w) /\ Advances(header[n].source, unit[n], w)
      BY <2>2, UnitAdvances
    <3>2. PICK w : Ends(n, w) /\ Advances(header[n].source, unit[n], w)
      BY <3>1
    <3>3. /\ DOMAIN unit' = DOMAIN unit /\ unit'[n] = w
          /\ \A m \in DOMAIN unit : m # n => unit'[m] = unit[m]
      BY <3>2 DEF Ends, Inv, TypeInv
    <3>4. UnitRank(w) < UnitRank(unit[n])
      <4>1. unit[n].page \in 0..MostPages /\ MostPages \in Nat
        BY <2>1
      <4> QED
        BY <4>1, <3>2, RankLowers
    <3>5. UnitRank(unit'[n]) < UnitRank(unit[n])
      BY <3>3, <3>4
    <3>6. \A m \in DOMAIN unit : UnitRank(unit'[m]) =< UnitRank(unit[m])
      <4> SUFFICES ASSUME NEW m \in DOMAIN unit
                   PROVE  UnitRank(unit'[m]) =< UnitRank(unit[m])
        OBVIOUS
      <4>1. UnitRank(unit[m]) \in Nat /\ UnitRank(unit[n]) \in Nat
        BY <2>1
      <4>2. CASE m = n
        <5>1. UnitRank(unit'[n]) \in Int
          <6>1. w.page \in Int /\ MostPages \in Nat
            BY <2>1, <3>2 DEF Advances
          <6>2. UnitRank(w) \in Int
            BY <6>1 DEF UnitRank
          <6> QED
            BY <6>2, <3>3
        <5> QED
          BY <5>1, <4>1, <4>2, <3>5
      <4>3. CASE m # n
        BY <4>1, <4>3, <3>3
      <4> QED
        BY <4>2, <4>3
    <3> QED
      BY <2>1, <3>3, <3>5, <3>6 DEF UnitsWindDown
  <2>3. CASE Start
    <3>1. DOMAIN unit = {}
      BY <2>3 DEF Start, Inv, TypeInv
    <3>2. ~UnitStep /\ ~(\E n \in DOMAIN unit : RequestFails(n))
      BY <3>1 DEF UnitStep
    <3> QED
      BY <3>1, <3>2 DEF UnitsWindDown
  <2>4. CASE ~UnitStep /\ ~(\E n \in DOMAIN unit : RequestFails(n)) /\ ~Start
    <3>1. DOMAIN unit' = DOMAIN unit
          /\ \A n \in DOMAIN unit : unit'[n].at = unit[n].at /\ unit'[n].page = unit[n].page
      BY <2>4, OthersStay
    <3>2. \A n \in DOMAIN unit : UnitRank(unit'[n]) = UnitRank(unit[n])
      BY <3>1 DEF UnitRank
    <3>3. \A n \in DOMAIN unit : UnitRank(unit'[n]) =< UnitRank(unit[n])
      BY <3>2, <2>1
    <3> QED
      BY <2>1, <2>4, <3>1, <3>3 DEF UnitsWindDown
  <2> QED
    BY <2>2, <2>3, <2>4
<1>4. QED
  BY <1>1, <1>2, <1>3, Invariance, PTL DEF Spec
=============================================================================
