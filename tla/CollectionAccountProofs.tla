------------------------ MODULE CollectionAccountProofs ------------------------
(***************************************************************************)
(* What a collection's run says of its units, for every configuration: that *)
(* nothing is dropped silently, and that no outage fails a run.            *)
(***************************************************************************)
EXTENDS CollectionProofs, SequenceTheorems

(***************************************************************************)
(* The invariant.                                                          *)
(***************************************************************************)
\* The key under which a unit's status is told.
KeyOf(cfg, h) ==
    IF h.source = "ad" THEN <<"ad", h.target>>
    ELSE LET sites == cfg.sites[h.source]
         IN  SiteStatusKey(h.source, sites[h.index], h.index, Len(sites))

\* A configuration for which a unit raises.
Refused(cfg, h) ==
    ~Loads(cfg) \/ (h.source # "ad" /\ h.index \notin DOMAIN SitesFor(cfg, h.source))

FilesInv ==
    /\ run.at = "none" => edits = 0
    /\ run.at # "none" => header = Header(loaded)
    /\ edits = 0 => config = loaded
    /\ path = "loop" => edits = 0

RaisedInv(n) ==
    unit[n].at = "raised" => Refused(loaded, header[n]) \/ Refused(config, header[n]) \/ edits > 1
KeyInv(n) ==
    edits = 0 /\ unit[n].at \in {"paging", "ok", "error"} => unit[n].key = KeyOf(loaded, header[n])

FailedInv ==
    run.at \in {"failed", "raised"} =>
        \/ \A n \in DOMAIN unit : header[n].source = "ad" => unit[n].at # "ok"
        \/ \E n \in DOMAIN unit : unit[n].at = "raised"
        \/ ~Loads(config)
FinishedInv ==
    run.at \in {"complete", "partial", "returned"} =>
        /\ AllEnded /\ NoneRaised
        /\ run.status = Ingested.status /\ run.exports = Ingested.exports
        /\ run.agents = Ingested.agents
        /\ run.at = "complete" => \A k \in DOMAIN run.status : run.status[k] = "ok"

Account ==
    /\ FilesInv /\ FailedInv /\ FinishedInv
    /\ \A n \in DOMAIN unit : RaisedInv(n) /\ KeyInv(n)

(***************************************************************************)
(* The steps.                                                              *)
(***************************************************************************)
LEMMA SitesOfClient ==
  ASSUME NEW cfg, NEW v, NEW i \in DOMAIN SitesFor(cfg, v)
  PROVE  SitesFor(cfg, v) = cfg.sites[v] /\ v \in DOMAIN cfg.sites
<1>1. SitesFor(cfg, v) # <<>>
  OBVIOUS
<1>2. QED
  BY <1>1 DEF SitesFor

LEMMA AccountInit ==
  ASSUME Init
  PROVE  Account
<1>1. run.at = "none" /\ edits = 0 /\ config = loaded /\ DOMAIN unit = {}
  BY DEF Init, NotRun
<1>2. QED
  BY <1>1 DEF Account, FilesInv, FailedInv, FinishedInv

\* While the units are collected, those of one step are all that matters.
LEMMA CollectingAccount ==
  ASSUME Inv, Account, run.at = "collecting", UNCHANGED <<path, loaded, header, run>>,
         DOMAIN unit' = DOMAIN unit,
         edits' = 0 => edits = 0 /\ config' = loaded,
         path = "loop" => edits' = 0,
         \A n \in DOMAIN unit : RaisedInv(n)' /\ KeyInv(n)'
  PROVE  Account'
<1>1. FilesInv'
  BY DEF Account, FilesInv
<1>2. FailedInv' /\ FinishedInv'
  BY DEF FailedInv, FinishedInv
<1>3. QED
  BY <1>1, <1>2 DEF Account

LEMMA UnitStepAccount ==
  ASSUME Inv, Account, NEW n \in DOMAIN unit, run.at = "collecting", NEW u, Ends(n, u),
         u.at = "raised" => Refused(loaded, header[n]) \/ Refused(config, header[n]) \/ edits > 1,
         edits = 0 /\ u.at \in {"paging", "ok", "error"} => u.key = KeyOf(loaded, header[n])
  PROVE  Account'
<1>1. unit' = [unit EXCEPT ![n] = u]
      /\ UNCHANGED <<config, enrolled, path, loaded, header, run, edits, changes>>
  BY DEF Ends
<1>2. DOMAIN unit' = DOMAIN unit /\ unit'[n] = u
      /\ \A m \in DOMAIN unit : m # n => unit'[m] = unit[m]
  BY <1>1 DEF Inv, TypeInv
<1>3. ASSUME NEW m \in DOMAIN unit
      PROVE  RaisedInv(m)' /\ KeyInv(m)'
  <2>1. RaisedInv(m) /\ KeyInv(m)
    BY DEF Account
  <2>2. CASE m = n
    BY <2>2, <1>1, <1>2 DEF RaisedInv, KeyInv
  <2>3. CASE m # n
    <3>1. unit'[m] = unit[m]
      BY <2>3, <1>2
    <3> QED
      BY <3>1, <2>1, <1>1 DEF RaisedInv, KeyInv
  <2> QED
    BY <2>2, <2>3
<1>4. edits' = 0 => edits = 0 /\ config' = loaded
  BY <1>1 DEF Account, FilesInv
<1>5. path = "loop" => edits' = 0
  BY <1>1 DEF Account, FilesInv
<1>6. QED
  BY <1>1, <1>2, <1>3, <1>4, <1>5, CollectingAccount

\* Before any edit, what a unit sees is the configuration of the start.
LEMMA CurrentIsOf ==
  ASSUME Account
  PROVE  Current \in {loaded, config} /\ (edits = 0 => Current = loaded)
  BY DEF Account, FilesInv, Current

LEMMA KeyOfSite ==
  ASSUME Inv, Account, NEW n \in DOMAIN unit, IsSite(n)
  PROVE  edits = 0 => SiteUnit(n, header[n].source,
                               SitesFor(Current, header[n].source)).key = KeyOf(loaded, header[n])
<1> DEFINE v == header[n].source
           i == header[n].index
           sites == SitesFor(Current, v)
<1> SUFFICES ASSUME edits = 0
             PROVE  SiteUnit(n, v, sites).key = KeyOf(loaded, header[n])
  OBVIOUS
<1>1. Current = loaded /\ unit[n] = Waiting /\ v # "ad"
  BY CurrentIsOf, QueuedIsWaiting DEF IsSite
<1>2. sites = loaded.sites[v]
  BY <1>1, SitesOfClient DEF IsSite, HasSite
<1>3. SiteUnit(n, v, sites).key = SiteStatusKey(v, sites[i], i, Len(sites))
  BY <1>1 DEF SiteUnit, Waiting
<1>4. QED
  BY <1>1, <1>2, <1>3 DEF KeyOf

LEMMA UnitsAccount ==
  ASSUME Inv, Account, UnitStep \/ \E n \in DOMAIN unit : RequestFails(n)
  PROVE  Account'
<1>1. ASSUME NEW n \in DOMAIN unit, UnitRaises(n)
      PROVE  Account'
  <2>1. /\ run.at = "collecting" /\ Ends(n, [unit[n] EXCEPT !.at = "raised"])
        /\ unit[n] = Waiting
    BY <1>1, QueuedIsWaiting DEF UnitRaises, Ready
  <2>2. Refused(Current, header[n])
    BY <1>1 DEF UnitRaises, Refused, HasSite
  <2>3. Refused(loaded, header[n]) \/ Refused(config, header[n])
    BY <2>2, CurrentIsOf
  <2>4. [unit[n] EXCEPT !.at = "raised"].at = "raised"
    BY <2>1 DEF Waiting
  <2> QED
    BY <2>1, <2>3, <2>4, UnitStepAccount
<1>2. ASSUME NEW n \in DOMAIN unit, CollectDomain(n)
      PROVE  Account'
  <2>1. PICK at \in {"ok", "error"} :
           Ends(n, [unit[n] EXCEPT !.at = at, !.key = <<"ad", header[n].target>>])
    BY <1>2 DEF CollectDomain
  <2>2. run.at = "collecting" /\ unit[n] = Waiting /\ header[n].source = "ad"
    BY <1>2, QueuedIsWaiting DEF CollectDomain, Ready
  <2> DEFINE u == [unit[n] EXCEPT !.at = at, !.key = <<"ad", header[n].target>>]
  <2>3. u.at # "raised" /\ u.key = KeyOf(loaded, header[n])
    BY <2>2 DEF KeyOf, Waiting
  <2> HIDE DEF u
  <2> QED
    BY <2>1, <2>2, <2>3, UnitStepAccount DEF u
<1>3. ASSUME NEW n \in DOMAIN unit, CollectFixture(n)
      PROVE  Account'
  <2> DEFINE v == header[n].source
             u == SiteUnit(n, v, SitesFor(Current, v))
             file == <<v, SitesFor(Current, v)[header[n].index].label>>
             w == IF file \in DOMAIN Fixtures
                  THEN [u EXCEPT !.at = "ok", !.got = ParseInventory(v, u.ids, Fixtures[file])]
                  ELSE [u EXCEPT !.at = "error"]
  <2>1. IsSite(n) /\ Ends(n, w) /\ run.at = "collecting"
    BY <1>3 DEF CollectFixture, IsSite, Ready
  <2>2. (edits = 0 => u.key = KeyOf(loaded, header[n])) /\ UnitRecord(u)
    BY <2>1, KeyOfSite, SiteUnitFields
  <2> HIDE DEF u, file
  <2>3. w.at \in {"ok", "error"} /\ w.key = u.key
    BY <2>2 DEF UnitRecord
  <2> HIDE DEF w
  <2> QED
    BY <2>1, <2>2, <2>3, UnitStepAccount
<1>4. ASSUME NEW n \in DOMAIN unit, OpenInventory(n)
      PROVE  Account'
  <2> DEFINE v == header[n].source
             u == SiteUnit(n, v, SitesFor(Current, v))
             opened(narrowed) == [u EXCEPT !.at = "paging", !.narrowed = narrowed,
                                           !.steady = InScope(v, u)]
  <2>1. PICK narrowed \in BOOLEAN : Ends(n, opened(narrowed))
    BY <1>4 DEF OpenInventory
  <2>2. IsSite(n) /\ run.at = "collecting"
    BY <1>4 DEF OpenInventory, IsSite, Ready
  <2>3. (edits = 0 => u.key = KeyOf(loaded, header[n])) /\ UnitRecord(u)
    BY <2>2, KeyOfSite, SiteUnitFields
  <2> HIDE DEF u
  <2>4. opened(narrowed).at = "paging" /\ opened(narrowed).key = u.key
    BY <2>3 DEF UnitRecord
  <2> HIDE DEF opened
  <2> QED
    BY <2>1, <2>2, <2>3, <2>4, UnitStepAccount
<1>5. ASSUME NEW n \in DOMAIN unit, FetchPage(n)
      PROVE  Account'
  <2> DEFINE v == header[n].source
             u == unit[n]
             got == u.got \cup ParseInventory(v, u.ids, PageOf(v, u))
             w == IF LastPage(v, u) THEN [u EXCEPT !.at = "ok", !.got = got]
                  ELSE [u EXCEPT !.got = got, !.page = u.page + 1,
                                 !.last = Latest(u, PageOf(v, u))]
  <2>1. run.at = "collecting" /\ u.at = "paging" /\ Ends(n, w)
    BY <1>5 DEF FetchPage
  <2>2. UnitRecord(u) /\ KeyInv(n)
    BY DEF Inv, TypeInv, UnitType, Account
  <2>3. edits = 0 => u.key = KeyOf(loaded, header[n])
    BY <2>1, <2>2 DEF KeyInv
  <2> HIDE DEF u, got
  <2>4. w.at # "raised" /\ w.key = u.key
    BY <2>1, <2>2 DEF UnitRecord
  <2> HIDE DEF w
  <2> QED
    BY <2>1, <2>3, <2>4, UnitStepAccount
<1>6. ASSUME NEW n \in DOMAIN unit, RequestFails(n)
      PROVE  Account'
  <2> DEFINE u == unit[n]
             w == [u EXCEPT !.at = "error", !.got = {}]
  <2>1. run.at = "collecting" /\ u.at = "paging" /\ Ends(n, w)
    BY <1>6 DEF RequestFails
  <2>2. UnitRecord(u) /\ KeyInv(n)
    BY DEF Inv, TypeInv, UnitType, Account
  <2>3. edits = 0 => u.key = KeyOf(loaded, header[n])
    BY <2>1, <2>2 DEF KeyInv
  <2> HIDE DEF u
  <2>4. w.at # "raised" /\ w.key = u.key
    BY <2>1, <2>2 DEF UnitRecord
  <2> HIDE DEF w
  <2> QED
    BY <2>1, <2>3, <2>4, UnitStepAccount
<1>7. QED
  BY <1>1, <1>2, <1>3, <1>4, <1>5, <1>6 DEF UnitStep

LEMMA StartAccount ==
  ASSUME Inv, Account, Start
  PROVE  Account'
<1>1. /\ loaded' = config /\ header' = Header(config) /\ run.at = "none"
      /\ unit' = [n \in DOMAIN Header(config) |-> Waiting] /\ run'.at = "collecting"
      /\ UNCHANGED <<config, path, edits>>
  BY DEF Start, NotRun
<1>2. \A n \in DOMAIN unit' : unit'[n].at = "queued"
  BY <1>1, WaitingFields
<1>3. FilesInv'
  BY <1>1 DEF Account, FilesInv
<1>4. FailedInv' /\ FinishedInv'
  BY <1>1 DEF FailedInv, FinishedInv
<1>5. \A n \in DOMAIN unit' : RaisedInv(n)' /\ KeyInv(n)'
  BY <1>2 DEF RaisedInv, KeyInv
<1>6. QED
  BY <1>3, <1>4, <1>5 DEF Account

LEMMA FanInAccount ==
  ASSUME Inv, Account, FanInStep
  PROVE  Account'
<1>1. /\ UNCHANGED <<config, enrolled, path, loaded, header, unit, edits, changes>>
      /\ run.at = "collecting"
  BY DEF FanInStep, Callback, ChordFails, LoopReturns, LoopRaises, FanIn
<1>2. \A n \in DOMAIN unit' : RaisedInv(n)' /\ KeyInv(n)'
  BY <1>1 DEF Account, RaisedInv, KeyInv
<1>3. /\ (AllEnded <=> AllEnded') /\ (NoneRaised <=> NoneRaised') /\ Ingested' = Ingested
  BY <1>1 DEF AllEnded, NoneRaised, Ingested, OkUnits
<1>4. FilesInv' /\ FailedInv' /\ FinishedInv'
  <2>1. CASE ChordFails \/ LoopRaises
    <3>1. run'.at \in {"failed", "raised"} /\ ~(NoneRaised /\ Loads(config))
      BY <2>1 DEF ChordFails, LoopRaises, FanIn, NotRun
    <3> QED
      BY <3>1, <1>1 DEF Account, FilesInv, FailedInv, FinishedInv, NoneRaised
  <2>2. CASE LoopReturns
    <3>1. run' = Ingested /\ AllEnded /\ NoneRaised /\ run'.at = "returned"
      BY <2>2 DEF LoopReturns, FanIn, Ingested
    <3> QED
      BY <3>1, <1>1, <1>3 DEF Account, FilesInv, FailedInv, FinishedInv
  <2>3. CASE Callback
    <3>1. /\ AllEnded /\ NoneRaised
          /\ run' = [Ingested EXCEPT !.at =
                        IF Ingested.exports = {} THEN "failed"
                        ELSE IF \A k \in DOMAIN Ingested.status : Ingested.status[k] = "ok"
                        THEN "complete" ELSE "partial"]
      BY <2>3 DEF Callback, FanIn
    <3>2. /\ run'.status = Ingested.status /\ run'.exports = Ingested.exports
          /\ run'.agents = Ingested.agents /\ run'.at \in {"failed", "complete", "partial"}
          /\ run'.at = "failed" => Ingested.exports = {}
          /\ run'.at = "complete" => \A k \in DOMAIN Ingested.status : Ingested.status[k] = "ok"
      <4> DEFINE result == Ingested
      <4>1. result = [at |-> result.at, status |-> result.status, exports |-> result.exports,
                      agents |-> result.agents]
        BY DEF Ingested
      <4> HIDE DEF result
      <4>2. run' = [result EXCEPT !.at =
                       IF result.exports = {} THEN "failed"
                       ELSE IF \A k \in DOMAIN result.status : result.status[k] = "ok"
                       THEN "complete" ELSE "partial"]
        BY <3>1 DEF result
      <4>3. /\ run'.status = result.status /\ run'.exports = result.exports
            /\ run'.agents = result.agents /\ run'.at \in {"failed", "complete", "partial"}
            /\ run'.at = "failed" => result.exports = {}
            /\ run'.at = "complete" => \A k \in DOMAIN result.status : result.status[k] = "ok"
        BY <4>1, <4>2
      <4> QED
        BY <4>3 DEF result
    <3>3. Ingested.exports = {} =>
             \A n \in DOMAIN unit : header[n].source = "ad" => unit[n].at # "ok"
      BY DEF Ingested, OkUnits
    <3>4. FailedInv'
      BY <3>2, <3>3, <1>1 DEF FailedInv
    <3>5. FinishedInv'
      BY <3>1, <3>2, <1>3 DEF FinishedInv
    <3>6. FilesInv'
      BY <3>2, <1>1 DEF Account, FilesInv
    <3> QED
      BY <3>4, <3>5, <3>6
  <2> QED
    BY <2>1, <2>2, <2>3 DEF FanInStep
<1>5. QED
  BY <1>2, <1>4 DEF Account

LEMMA AroundAccount ==
  ASSUME Inv, Account, Edit \/ \E d \in Machines : Enrol(d) \/ Remove(d)
  PROVE  Account'
<1>1. CASE Edit
  <2>1. /\ run.at = "collecting" /\ path = "chord" /\ edits' = edits + 1
        /\ UNCHANGED <<enrolled, path, loaded, header, unit, run, changes>> /\ edits \in Nat
    BY <1>1 DEF Edit, Inv, TypeInv
  <2>2. edits' # 0 /\ (edits # 0 => edits' > 1) /\ edits' \in Nat
    BY <2>1
  <2>3. ASSUME NEW n \in DOMAIN unit
        PROVE  RaisedInv(n)' /\ KeyInv(n)'
    <3>1. RaisedInv(n) /\ FilesInv
      BY DEF Account
    <3>2. KeyInv(n)'
      BY <2>2 DEF KeyInv
    <3>3. CASE edits = 0
      <4>1. config = loaded /\ ~(edits > 1)
        BY <3>1, <3>3 DEF FilesInv
      <4>2. unit[n].at = "raised" => Refused(loaded, header[n])
        BY <4>1, <3>1 DEF RaisedInv
      <4>3. RaisedInv(n)'
        BY <4>2, <2>1 DEF RaisedInv
      <4> QED
        BY <3>2, <4>3
    <3>4. CASE edits # 0
      BY <3>2, <3>4, <2>2 DEF RaisedInv
    <3> QED
      BY <3>3, <3>4
  <2> QED
    BY <2>1, <2>2, <2>3, CollectingAccount
<1>2. ASSUME NEW d \in Machines, Enrol(d) \/ Remove(d)
      PROVE  Account'
  <2>1. UNCHANGED <<config, path, loaded, header, run, edits>> /\ run.at = "collecting"
    BY <1>2 DEF Enrol, Remove, Change
  <2>2. /\ DOMAIN unit' = DOMAIN unit
        /\ \A n \in DOMAIN unit : unit'[n].at = unit[n].at /\ unit'[n].key = unit[n].key
    <3>1. CASE Enrol(d)
      BY <3>1 DEF Enrol
    <3>2. CASE Remove(d)
      <4> DEFINE gone(u) == u.at = "paging" /\ u.page > 0 /\ Home[d] = u.console
                 after(u) == [u EXCEPT !.steady = @ \ {d}, !.shrunk = @ \/ gone(u)]
      <4>1. unit' = [n \in DOMAIN unit |-> after(unit[n])]
        BY <3>2, Zenon DEF Remove
      <4>2. ASSUME NEW n \in DOMAIN unit
            PROVE  after(unit[n]).at = unit[n].at /\ after(unit[n]).key = unit[n].key
        <5>1. UnitRecord(unit[n])
          BY DEF Inv, TypeInv, UnitType
        <5> HIDE DEF gone
        <5> QED
          BY <5>1 DEF UnitRecord
      <4> HIDE DEF after
      <4> QED
        BY <4>1, <4>2
    <3> QED
      BY <3>1, <3>2, <1>2
  <2>3. ASSUME NEW n \in DOMAIN unit
        PROVE  RaisedInv(n)' /\ KeyInv(n)'
    BY <2>1, <2>2 DEF Account, RaisedInv, KeyInv
  <2>4. (edits' = 0 => edits = 0 /\ config' = loaded) /\ (path = "loop" => edits' = 0)
    BY <2>1 DEF Account, FilesInv
  <2> QED
    BY <2>1, <2>2, <2>3, <2>4, CollectingAccount
<1>3. QED
  BY <1>1, <1>2

LEMMA AccountKept == Spec => [](Inv /\ Account)
<1>1. Init => Inv /\ Account
  BY InitInv, AccountInit
<1>2. Inv /\ Account /\ [Next]_vars => Inv' /\ Account'
  <2> SUFFICES ASSUME Inv, Account, [Next]_vars
               PROVE  Account'
    BY NextInv
  <2>1. CASE UNCHANGED vars
    <3>1. UNCHANGED <<config, enrolled, path, loaded, header, unit, run, edits, changes>>
      BY <2>1 DEF vars
    <3>2. \A n \in DOMAIN unit' : RaisedInv(n)' /\ KeyInv(n)'
      BY <3>1 DEF Account, RaisedInv, KeyInv
    <3>3. (AllEnded <=> AllEnded') /\ (NoneRaised <=> NoneRaised') /\ Ingested' = Ingested
      BY <3>1 DEF AllEnded, NoneRaised, Ingested, OkUnits
    <3>4. FilesInv' /\ FailedInv' /\ FinishedInv'
      BY <3>1, <3>3 DEF Account, FilesInv, FailedInv, FinishedInv
    <3> QED
      BY <3>2, <3>4 DEF Account
  <2> QED
    BY <2>1, StartAccount, UnitsAccount, FanInAccount, AroundAccount DEF Next
<1>3. QED
  BY <1>1, <1>2, PTL DEF Spec

(***************************************************************************)
(* The units of a configuration.                                           *)
(***************************************************************************)
Distinct(s) == \A i, j \in DOMAIN s : i # j => s[i] # s[j]
Vendors == {"bitdefender", "carbonblack", "sentinelone"}

LEMMA ConcatMembers ==
  ASSUME NEW S, NEW s \in Seq(S), NEW t \in Seq(S)
  PROVE  /\ s \o t \in Seq(S)
         /\ \A i \in DOMAIN (s \o t) : \/ \E j \in DOMAIN s : (s \o t)[i] = s[j]
                                       \/ \E j \in DOMAIN t : (s \o t)[i] = t[j]
         /\ (/\ Distinct(s) /\ Distinct(t)
             /\ \A i \in DOMAIN s, j \in DOMAIN t : s[i] # t[j]) => Distinct(s \o t)
<1> DEFINE both == s \o t
<1>1. /\ both \in Seq(S) /\ DOMAIN both = 1..(Len(s) + Len(t))
      /\ DOMAIN s = 1..Len(s) /\ DOMAIN t = 1..Len(t) /\ Len(s) \in Nat /\ Len(t) \in Nat
      /\ \A i \in 1..(Len(s) + Len(t)) : both[i] = IF i =< Len(s) THEN s[i] ELSE t[i - Len(s)]
  BY ConcatProperties
<1> HIDE DEF both
<1>2. ASSUME NEW i \in DOMAIN both
      PROVE  \/ i =< Len(s) /\ i \in DOMAIN s /\ both[i] = s[i]
             \/ i > Len(s) /\ i - Len(s) \in DOMAIN t /\ both[i] = t[i - Len(s)]
  BY <1>1
<1>3. ASSUME Distinct(s), Distinct(t), \A i \in DOMAIN s, j \in DOMAIN t : s[i] # t[j],
             NEW i \in DOMAIN both, NEW j \in DOMAIN both, i # j
      PROVE  both[i] # both[j]
  <2>1. i \in Nat /\ j \in Nat
    BY <1>1
  <2>2. CASE i > Len(s) /\ j > Len(s)
    <3>1. i - Len(s) # j - Len(s)
      BY <2>1, <1>1, <1>3
    <3> QED
      BY <3>1, <2>1, <2>2, <1>1, <1>2, <1>3 DEF Distinct
  <2> QED
    BY <2>1, <2>2, <1>1, <1>2, <1>3 DEF Distinct
<1>4. QED
  BY <1>1, <1>2, <1>3 DEF both, Distinct

\* A unit of a configuration: a domain, or a site of a vendor by index.
UnitOf(cfg, h) ==
    \/ h.source = "ad" /\ h = Domain(h.target)
    \/ /\ h.source \in Vendors /\ h.source \in DOMAIN cfg.sites
       /\ h.index \in 1..Len(cfg.sites[h.source]) /\ h = VendorSite(h.source, h.index)
UnitsOf(cfg) ==
    [source : {"ad"} \cup Vendors, index : Nat,
     target : {NoName} \cup {cfg.domains[i] : i \in DOMAIN cfg.domains}]
DomainUnits(cfg) == [i \in DOMAIN cfg.domains |-> Domain(cfg.domains[i])]

LEMMA DomainsListed ==
  ASSUME NEW cfg \in Configs
  PROVE  /\ DomainUnits(cfg) \in Seq(UnitsOf(cfg))
         /\ \A i \in DOMAIN DomainUnits(cfg) :
               DomainUnits(cfg)[i].source = "ad" /\ UnitOf(cfg, DomainUnits(cfg)[i])
         /\ LabelsDiffer(cfg) => Distinct(DomainUnits(cfg))
<1>1. DOMAIN cfg.domains = 1..Len(cfg.domains) /\ Len(cfg.domains) \in Nat
  <2>1. cfg.domains \in Seq({cfg.domains[i] : i \in DOMAIN cfg.domains})
    BY CollectionAssumption
  <2> QED
    BY <2>1
<1>2. \A i \in DOMAIN cfg.domains : Domain(cfg.domains[i]) \in UnitsOf(cfg)
  BY DEF Domain, UnitsOf
<1>3. DomainUnits(cfg) \in Seq(UnitsOf(cfg))
  BY <1>1, <1>2 DEF DomainUnits
<1>4. \A i \in DOMAIN cfg.domains :
         Domain(cfg.domains[i]).source = "ad" /\ Domain(cfg.domains[i]).target = cfg.domains[i]
         /\ UnitOf(cfg, Domain(cfg.domains[i]))
  BY DEF Domain, UnitOf
<1>5. LabelsDiffer(cfg) => Distinct(DomainUnits(cfg))
  BY <1>4 DEF LabelsDiffer, Distinct, DomainUnits
<1>6. QED
  BY <1>3, <1>4, <1>5 DEF DomainUnits

LEMMA SitesListed ==
  ASSUME NEW cfg \in Configs, NEW v \in Vendors
  PROVE  /\ SiteUnits(cfg, v) \in Seq(UnitsOf(cfg))
         /\ \A i \in DOMAIN SiteUnits(cfg, v) :
               SiteUnits(cfg, v)[i].source = v /\ UnitOf(cfg, SiteUnits(cfg, v)[i])
         /\ Distinct(SiteUnits(cfg, v))
<1>1. CASE v \notin DOMAIN cfg.sites
  <2>1. SiteUnits(cfg, v) = <<>> /\ DOMAIN SiteUnits(cfg, v) = {}
    BY <1>1 DEF SiteUnits
  <2> QED
    BY <2>1 DEF Distinct
<1>2. CASE v \in DOMAIN cfg.sites
  <2>1. Len(cfg.sites[v]) \in Nat
    <3>1. cfg.sites[v] \in Seq({cfg.sites[v][i] : i \in DOMAIN cfg.sites[v]})
      BY <1>2, CollectionAssumption
    <3> QED
      BY <3>1
  <2>2. SiteUnits(cfg, v) = [i \in 1..Len(cfg.sites[v]) |-> VendorSite(v, i)]
    BY <1>2 DEF SiteUnits
  <2>3. ASSUME NEW i \in 1..Len(cfg.sites[v])
        PROVE  /\ VendorSite(v, i) \in UnitsOf(cfg) /\ VendorSite(v, i).source = v
               /\ VendorSite(v, i).index = i /\ UnitOf(cfg, VendorSite(v, i))
    <3>1. i \in Nat
      BY <2>1
    <3>2. VendorSite(v, i) \in UnitsOf(cfg)
      BY <3>1 DEF VendorSite, UnitsOf
    <3>3. VendorSite(v, i).source = v /\ VendorSite(v, i).index = i
      BY DEF VendorSite
    <3> QED
      BY <3>2, <3>3, <1>2 DEF UnitOf
  <2>4. Distinct(SiteUnits(cfg, v))
    BY <2>2, <2>3 DEF Distinct
  <2> QED
    BY <2>1, <2>2, <2>3, <2>4
<1>3. QED
  BY <1>1, <1>2

LEMMA HeaderListed ==
  ASSUME NEW cfg \in Configs
  PROVE  /\ \A n \in DOMAIN Header(cfg) : UnitOf(cfg, Header(cfg)[n])
         /\ Len(Header(cfg)) \in Nat /\ DOMAIN Header(cfg) = 1..Len(Header(cfg))
         /\ LabelsDiffer(cfg) => Distinct(Header(cfg))
<1> DEFINE ad == DomainUnits(cfg)
           bd == SiteUnits(cfg, "bitdefender")
           cb == SiteUnits(cfg, "carbonblack")
           s1 == SiteUnits(cfg, "sentinelone")
           first2 == ad \o bd
           first3 == first2 \o cb
           first4 == first3 \o s1
           All(s, sources) == \A i \in DOMAIN s : s[i].source \in sources /\ UnitOf(cfg, s[i])
           S == UnitsOf(cfg)
<1>1. Header(cfg) = first4
  BY DEF Header, DomainUnits, VendorOrder
<1>2. /\ ad \in Seq(S) /\ bd \in Seq(S) /\ cb \in Seq(S) /\ s1 \in Seq(S)
      /\ All(ad, {"ad"}) /\ All(bd, {"bitdefender"}) /\ All(cb, {"carbonblack"})
      /\ All(s1, {"sentinelone"})
      /\ LabelsDiffer(cfg) => Distinct(ad)
      /\ Distinct(bd) /\ Distinct(cb) /\ Distinct(s1)
  BY DomainsListed, SitesListed DEF Vendors
<1> HIDE DEF ad, bd, cb, s1, S
<1>3. ASSUME NEW s \in Seq(S), NEW t \in Seq(S), NEW A, NEW B, All(s, A), All(t, B), A \cap B = {}
      PROVE  /\ s \o t \in Seq(S) /\ All(s \o t, A \cup B)
             /\ Distinct(s) /\ Distinct(t) => Distinct(s \o t)
  <2>1. All(s \o t, A \cup B)
    <3> SUFFICES ASSUME NEW i \in DOMAIN (s \o t)
                 PROVE  (s \o t)[i].source \in A \cup B /\ UnitOf(cfg, (s \o t)[i])
      OBVIOUS
    <3>1. \/ \E j \in DOMAIN s : (s \o t)[i] = s[j]
          \/ \E j \in DOMAIN t : (s \o t)[i] = t[j]
      BY ConcatMembers
    <3> QED
      BY <3>1, <1>3
  <2>2. \A i \in DOMAIN s, j \in DOMAIN t : s[i] # t[j]
    BY <1>3
  <2> QED
    BY <2>1, <2>2, ConcatMembers
<1>4. /\ first2 \in Seq(S) /\ All(first2, {"ad"} \cup {"bitdefender"})
      /\ LabelsDiffer(cfg) => Distinct(first2)
  <2>1. {"ad"} \cap {"bitdefender"} = {}
    OBVIOUS
  <2> HIDE DEF All
  <2> QED
    BY <1>2, <1>3, <2>1
<1> HIDE DEF first2
<1>5. /\ first3 \in Seq(S) /\ All(first3, ({"ad"} \cup {"bitdefender"}) \cup {"carbonblack"})
      /\ LabelsDiffer(cfg) => Distinct(first3)
  <2>1. ({"ad"} \cup {"bitdefender"}) \cap {"carbonblack"} = {}
    OBVIOUS
  <2> HIDE DEF All
  <2> QED
    BY <1>2, <1>3, <1>4, <2>1
<1> HIDE DEF first3
<1>6. /\ first4 \in Seq(S)
      /\ All(first4, (({"ad"} \cup {"bitdefender"}) \cup {"carbonblack"}) \cup {"sentinelone"})
      /\ LabelsDiffer(cfg) => Distinct(first4)
  <2>1. (({"ad"} \cup {"bitdefender"}) \cup {"carbonblack"}) \cap {"sentinelone"} = {}
    OBVIOUS
  <2> HIDE DEF All
  <2> QED
    BY <1>2, <1>3, <1>5, <2>1
<1> HIDE DEF first4
<1>7. QED
  BY <1>1, <1>6

\* No two units of a configuration with distinct labels have one key.
LEMMA KeysDiffer ==
  ASSUME NEW cfg \in Configs, LabelsDiffer(cfg),
         NEW m \in DOMAIN Header(cfg), NEW n \in DOMAIN Header(cfg), m # n
  PROVE  KeyOf(cfg, Header(cfg)[m]) # KeyOf(cfg, Header(cfg)[n])
<1> DEFINE g == Header(cfg)[m]
           h == Header(cfg)[n]
           Named(u) == LET sites == cfg.sites[u.source]
                       IN  IF sites[u.index].label = NoName /\ Len(sites) > 1
                           THEN <<"0", "1", "2">>[u.index] ELSE sites[u.index].label
           Second(u) == IF u.source = "ad" THEN u.target ELSE Named(u)
<1>1. g # h /\ UnitOf(cfg, g) /\ UnitOf(cfg, h)
  BY HeaderListed DEF Distinct
<1> HIDE DEF g, h
<1>2. ASSUME NEW u
      PROVE  KeyOf(cfg, u) = <<u.source, Second(u)>>
  BY DEF KeyOf, SiteStatusKey
<1> HIDE DEF Second
<1>3. SUFFICES ASSUME <<g.source, Second(g)>> = <<h.source, Second(h)>>
               PROVE  FALSE
  BY <1>2 DEF g, h
<1>4. g.source = h.source /\ Second(g) = Second(h)
  BY <1>3
<1>5. CASE g.source = "ad" /\ h.source = "ad"
  <2>1. g = Domain(g.target) /\ h = Domain(h.target)
    BY <1>1, <1>5 DEF UnitOf, Vendors
  <2>2. g.target # h.target
    BY <1>1, <2>1
  <2>3. Second(g) = g.target /\ Second(h) = h.target
    BY <1>5 DEF Second
  <2> QED
    BY <1>4, <2>2, <2>3
<1>6. CASE g.source = h.source /\ h.source # "ad"
  <2> DEFINE v == h.source
             sites == cfg.sites[v]
             i == g.index
             j == h.index
  <2>1. /\ v \in DOMAIN cfg.sites /\ i \in 1..Len(sites) /\ j \in 1..Len(sites)
        /\ g = VendorSite(v, i) /\ h = VendorSite(v, j)
    BY <1>1, <1>6 DEF UnitOf
  <2>2. i # j
    BY <1>1, <2>1
  <2>3. Len(sites) \in Nat /\ Len(sites) =< 3 /\ DOMAIN sites = 1..Len(sites)
    <3>1. sites \in Seq({sites[k] : k \in DOMAIN sites}) /\ Len(sites) =< 3
      BY <2>1, CollectionAssumption
    <3> QED
      BY <3>1
  <2>4. ASSUME NEW k \in DOMAIN sites, NEW l \in DOMAIN sites, k # l, sites[k].label # NoName
        PROVE  sites[k].label \notin {"0", "1", "2"} /\ sites[k].label # sites[l].label
    BY <2>1, <2>4 DEF LabelsDiffer
  <2>5. i \in {1, 2, 3} /\ j \in {1, 2, 3} /\ Len(sites) > 1
    BY <2>1, <2>2, <2>3
  <2>6. \A k \in {1, 2, 3} : <<"0", "1", "2">>[k] \in {"0", "1", "2"}
    OBVIOUS
  <2>7. <<"0", "1", "2">>[i] # <<"0", "1", "2">>[j]
    BY <2>2, <2>5
  <2>8. Named(g) # Named(h)
    <3>1. /\ Named(g) = IF sites[i].label = NoName THEN <<"0", "1", "2">>[i] ELSE sites[i].label
          /\ Named(h) = IF sites[j].label = NoName THEN <<"0", "1", "2">>[j] ELSE sites[j].label
      BY <1>6, <2>5
    <3> HIDE DEF Named, v, sites, i, j
    <3>2. i \in DOMAIN sites /\ j \in DOMAIN sites
      BY <2>1, <2>3
    <3> QED
      BY <3>1, <3>2, <2>2, <2>4, <2>5, <2>6, <2>7
  <2>9. Second(g) = Named(g) /\ Second(h) = Named(h)
    BY <1>6 DEF Second
  <2> HIDE DEF Named
  <2> QED
    BY <1>4, <2>8, <2>9
<1>7. QED
  BY <1>1, <1>4, <1>5, <1>6 DEF UnitOf

(***************************************************************************)
(* The theorems.                                                           *)
(***************************************************************************)
LEMMA AccountedInv == Inv /\ Account => Accounted
<1> SUFFICES ASSUME Inv, Account, run.at \in {"complete", "partial", "returned"},
                    LabelsDiffer(loaded), path = "loop" \/ edits = 0, NEW n \in DOMAIN unit
             PROVE  IF unit[n].at = "ok"
                    THEN /\ run.status[unit[n].key] = "ok" /\ unit[n].got \subseteq run.agents
                         /\ header[n].source = "ad" => header[n].target \in run.exports
                    ELSE run.status[unit[n].key] = "error" /\ run.at # "complete"
  BY DEF Accounted
<1>1. /\ edits = 0 /\ header = Header(loaded) /\ loaded \in Configs /\ DOMAIN unit = DOMAIN header
      /\ AllEnded /\ NoneRaised
      /\ run.status = Ingested.status /\ run.exports = Ingested.exports
      /\ run.agents = Ingested.agents
      /\ run.at = "complete" => \A k \in DOMAIN run.status : run.status[k] = "ok"
  BY DEF Account, FilesInv, FinishedInv, Inv, TypeInv
<1>2. \A m \in DOMAIN unit : unit[m].at \in {"ok", "error"} /\ unit[m].key = KeyOf(loaded, header[m])
  BY <1>1 DEF AllEnded, NoneRaised, Ended, Account, KeyInv
<1>3. \A m \in DOMAIN unit : m # n => unit[m].key # unit[n].key
  BY <1>1, <1>2, KeysDiffer
<1>4. /\ unit[n].key \in DOMAIN run.status
      /\ run.status[unit[n].key] = unit[n].at
  <2> DEFINE Last(k) == CHOOSE m \in DOMAIN unit :
                           /\ unit[m].key = k
                           /\ \A l \in (m + 1)..Len(unit) : unit[l].key # k
             key == unit[n].key
  <2>1. run.status = [k \in {unit[m].key : m \in DOMAIN unit} |-> unit[Last(k)].at]
    BY <1>1 DEF Ingested
  <2>2. \A l \in (n + 1)..Len(unit) : unit[l].key # key
    <3>1. DOMAIN unit = 1..Len(Header(loaded)) /\ Len(Header(loaded)) \in Nat
      BY <1>1, HeaderListed
    <3> QED
      BY <3>1, <1>3
  <2>3. Last(key) = n
    <3>1. \E m \in DOMAIN unit : unit[m].key = key /\ \A l \in (m + 1)..Len(unit) : unit[l].key # key
      BY <2>2
    <3>2. Last(key) \in DOMAIN unit /\ unit[Last(key)].key = key
      BY <3>1
    <3> HIDE DEF Last
    <3> QED
      BY <3>2, <1>3
  <2> HIDE DEF Last
  <2> QED
    BY <2>1, <2>3
<1>5. CASE unit[n].at = "ok"
  <2>1. n \in OkUnits
    BY <1>5 DEF OkUnits
  <2>2. unit[n].got \subseteq run.agents
    BY <1>1, <2>1 DEF Ingested
  <2>3. header[n].source = "ad" => header[n].target \in run.exports
    BY <1>1, <2>1 DEF Ingested
  <2> QED
    BY <1>4, <1>5, <2>2, <2>3
<1>6. CASE unit[n].at = "error"
  BY <1>1, <1>4, <1>6
<1>7. QED
  BY <1>2, <1>5, <1>6

LEMMA ToleratedInv == Inv /\ Account => OutagesAreTolerated
<1> SUFFICES ASSUME Inv, Account, run.at \in {"failed", "raised"},
                    NEW n \in DOMAIN unit, unit[n].at = "raised",
                    Usable(loaded), Usable(config), ~(edits > 1)
             PROVE  /\ header[n].source # "ad"
                    /\ header[n] \notin {Header(config)[m] : m \in DOMAIN Header(config)}
  BY DEF OutagesAreTolerated, Account, FailedInv, Usable
<1>1. /\ header = Header(loaded) /\ loaded \in Configs /\ config \in Configs
      /\ DOMAIN unit = DOMAIN header
      /\ Refused(loaded, header[n]) \/ Refused(config, header[n])
  BY DEF Account, FilesInv, RaisedInv, Inv, TypeInv
<1>2. ASSUME NEW cfg \in {loaded, config}, Refused(cfg, header[n])
      PROVE  /\ header[n].source # "ad"
             /\ header[n] \notin {Header(cfg)[m] : m \in DOMAIN Header(cfg)}
  <2>1. Loads(cfg) /\ cfg.known /\ cfg \in Configs
        /\ \A v \in DOMAIN cfg.sites : cfg.sites[v] # <<>> => SitesFor(cfg, v) # <<>>
    BY <1>1 DEF Usable
  <2>2. header[n].source # "ad" /\ header[n].index \notin DOMAIN SitesFor(cfg, header[n].source)
    BY <1>2, <2>1 DEF Refused
  <2>3. ASSUME NEW m \in DOMAIN Header(cfg), header[n] = Header(cfg)[m]
        PROVE  FALSE
    <3> DEFINE v == header[n].source
               i == header[n].index
    <3>1. v \in DOMAIN cfg.sites /\ i \in 1..Len(cfg.sites[v])
      BY <2>1, <2>2, <2>3, HeaderListed DEF UnitOf
    <3>2. cfg.sites[v] \in Seq({cfg.sites[v][k] : k \in DOMAIN cfg.sites[v]})
      BY <2>1, <3>1, CollectionAssumption
    <3>3. i \in DOMAIN cfg.sites[v] /\ cfg.sites[v] # <<>>
      <4> HIDE DEF i
      <4> QED
        BY <3>1, <3>2
    <3>4. SitesFor(cfg, v) = cfg.sites[v]
      BY <2>1, <3>1, <3>3 DEF SitesFor
    <3> QED
      BY <2>2, <3>3, <3>4
  <2> QED
    BY <2>2, <2>3
<1>3. CASE Refused(config, header[n])
  BY <1>2, <1>3
<1>4. CASE Refused(loaded, header[n])
  BY <1>1, <1>2, <1>4
<1>5. QED
  BY <1>1, <1>3, <1>4

\* Nothing is dropped silently (collect_vendor_site, correlate_client): in a
\* run of either path, what every source sent is in it and a source that failed
\* is an error among its statuses, if labels tell the sites apart and
\* config.yaml is not edited before the tasks have loaded it.
THEOREM NothingIsDropped == Spec => []Accounted
<1>1. Inv /\ Account => Accounted
  BY AccountedInv
<1>2. QED
  BY <1>1, AccountKept, PTL

\* No outage of a console fails a run, nor one of some of the domains
\* (pipeline.py, "must not sink the others"): a run fails only if no domain at
\* all was exported, be it by an outage of each, by an unusable configuration,
\* or by an edit that took away a site still to be collected.
THEOREM OutagesTolerated == Spec => []OutagesAreTolerated
<1>1. Inv /\ Account => OutagesAreTolerated
  BY ToleratedInv
<1>2. QED
  BY <1>1, AccountKept, PTL
=============================================================================
