----------------------------- MODULE Collection -----------------------------
(***************************************************************************)
(* Collecting one client: the configuration and what it resolves to        *)
(* (config.py), the unit that collects one AD domain or one vendor site    *)
(* (pipeline.py), the vendors' paginated inventories (connectors/), and    *)
(* the two paths over the units: the chord of Celery tasks, each of which  *)
(* loads config.yaml again, and the loop of run_correlation_for_client     *)
(* over one loaded configuration.                                          *)
(*                                                                         *)
(* Around them config.yaml is edited, machines are enrolled in and removed *)
(* from the consoles between two pages, and any request may fail.          *)
(***************************************************************************)
EXTENDS Integers, Sequences, FiniteSets

CONSTANTS
    Configs,        \* contents of config.yaml
    Editions,       \* bound: edits of it while the client is collected
    Machines,       \* the consoles' agents: their ids, in a console's order
    Home, Site,     \* the console, and the site or company, of each
    Enrolled,       \* those enrolled at first
    Changes,        \* bound: enrolments and removals
    Secrets,        \* the consoles whose credentials the environment holds
    Fixtures,       \* <<vendor, label>> -> the machines of a fixture file
    Rows,           \* a page of an inventory
    NoName          \* no label, account, console or domain controller

ASSUME CollectionAssumption ==
    /\ Editions \in Nat /\ Changes \in Nat /\ Rows \in Nat \ {0}
    /\ Machines \subseteq Nat \ {0} /\ IsFiniteSet(Machines) /\ Enrolled \subseteq Machines
    /\ \A f \in DOMAIN Fixtures : Fixtures[f] \subseteq Machines
    /\ \A cfg \in Configs :             \* lists; a vendor's, of three sites at most
          /\ cfg.domains \in Seq({cfg.domains[i] : i \in DOMAIN cfg.domains})
          /\ \A v \in DOMAIN cfg.sites :
                LET sites == cfg.sites[v]
                IN  sites \in Seq({sites[i] : i \in DOMAIN sites}) /\ Len(sites) =< 3

VARIABLES
    config,     \* config.yaml
    enrolled,   \* the machines in the consoles
    path,       \* how the client is collected
    loaded,     \* the configuration the collection was started with
    header,     \* the units to collect, in order
    unit,       \* what became of each
    run,        \* the fan-in
    edits, changes  \* history: edits of config.yaml, changes of the consoles

vars == <<config, enrolled, path, loaded, header, unit, run, edits, changes>>

-----------------------------------------------------------------------------
(* The connectors.                                                         *)
VendorOrder == <<"bitdefender", "carbonblack", "sentinelone">>
Capable == {"carbonblack", "sentinelone"}           \* supports_remote_execution
ExportPriority(v) == IF v = "sentinelone" THEN 0 ELSE 1

(* A unit is a domain controller, or a site of a vendor by its index.      *)
Domain(target) == [source |-> "ad", target |-> target, index |-> 0]
VendorSite(v, i) == [source |-> v, target |-> NoName, index |-> i]
Waiting == [at |-> "queued", key |-> <<NoName, NoName>>, console |-> NoName,
            ids |-> {}, narrowed |-> FALSE, page |-> 0, last |-> 0, got |-> {},
            steady |-> {}, shrunk |-> FALSE]
NotRun == [at |-> "none", status |-> <<>>, exports |-> {}, agents |-> {}]
Ended == {"ok", "error", "raised"}

-----------------------------------------------------------------------------
(* config.yaml.  A site has a label or none, an account (for a per_client   *)
(* vendor, the console of its own credentials) or none, and a filter.      *)

\* A file caught in the middle of an edit does not parse, and an undeclared
\* vendor is refused.  Accounts are not looked at.
Loads(cfg) == cfg.parses /\ DOMAIN cfg.sites \subseteq DOMAIN cfg.vendors

\* The consoles a site's credentials may be those of: exactly one, or
\* ConfigError.
Accounts(vendor, site) ==
    CASE vendor.scope = "per_client" -> {site.account}
      [] vendor.accounts = {} -> {NoName}
      [] site.account = NoName -> vendor.accounts
      [] OTHER -> vendor.accounts \cap {site.account}
SoleAccount(vendor, site) == CHOOSE a \in Accounts(vendor, site) : TRUE

\* One site that does not resolve is the error of all of its vendor's.
SitesFor(cfg, v) ==
    IF /\ cfg.known /\ v \in DOMAIN cfg.vendors /\ v \in DOMAIN cfg.sites
       /\ \A i \in DOMAIN cfg.sites[v] :
             Cardinality(Accounts(cfg.vendors[v], cfg.sites[v][i])) = 1
    THEN cfg.sites[v] ELSE <<>>

\* A connector is live when every secret its credentials refer to is set.
IsLive(cfg, v, i) == SoleAccount(cfg.vendors[v], SitesFor(cfg, v)[i]) \in Secrets

Carriers(cfg) == DOMAIN cfg.sites \cap Capable
PickADExportVendor(cfg) ==
    CHOOSE v \in Carriers(cfg) :
        \A w \in Carriers(cfg) : ExportPriority(v) =< ExportPriority(w)

\* Whether the script can be run at all: what collect_ad_csv raises for is
\* the domain's error.
CanExport(cfg) ==
    /\ cfg.known /\ Carriers(cfg) # {}
    /\ LET v == PickADExportVendor(cfg)
       IN  SitesFor(cfg, v) # <<>> /\ (IsLive(cfg, v, 1) => cfg.storage)

\* Variant: a key without the index.
SiteStatusKeyUnnumbered(v, site, index, total) == <<v, site.label>>
SiteStatusKey(v, site, index, total) ==
    <<v, IF site.label = NoName /\ total > 1 THEN <<"0", "1", "2">>[index] ELSE site.label>>

-----------------------------------------------------------------------------
(* A console's answer to the request for a page.  A console may ignore the  *)
(* filter it is given (BitDefender's is unverified).  SentinelOne goes on   *)
(* from the machine it listed last, the others from a count.               *)
Listed(u) ==
    {d \in enrolled : Home[d] = u.console /\ (u.narrowed => Site[d] \in u.ids)}
From(list, k) == {d \in list : Cardinality({e \in list : e < d}) >= k}
Remaining(v, u) ==
    IF v = "sentinelone" THEN {d \in Listed(u) : d > u.last} ELSE From(Listed(u), u.page * Rows)
PageOf(v, u) == Remaining(v, u) \ From(Remaining(v, u), Rows)
Latest(u, page) == CHOOSE d \in page \cup {u.last} : \A e \in page : e =< d

\* nextCursor, num_found, pagesCount.  Variant: the last page is forgotten.
LastPageButOne(v, u) == Cardinality(From(Remaining(v, u), Rows)) =< Rows
LastPage(v, u) == From(Remaining(v, u), Rows) = {}

\* Variant: what the console sends is believed.
ParseInventoryUnfiltered(v, ids, items) == items
ParseInventory(v, ids, items) ==
    {d \in items : v # "carbonblack" /\ ids # {} => Site[d] \in ids}

-----------------------------------------------------------------------------
(* The units.                                                              *)

Init ==
    /\ config \in Configs /\ loaded = config /\ enrolled = Enrolled
    /\ path \in {"chord", "loop"}
    /\ header = <<>> /\ unit = <<>> /\ run = NotRun
    /\ edits = 0 /\ changes = 0

\* Sites in the order of the configuration, vendors in that of their names.
SiteUnits(cfg, v) ==
    IF v \in DOMAIN cfg.sites
    THEN [i \in 1..Len(cfg.sites[v]) |-> VendorSite(v, i)] ELSE <<>>
Header(cfg) ==
    [i \in DOMAIN cfg.domains |-> Domain(cfg.domains[i])]
        \o SiteUnits(cfg, VendorOrder[1]) \o SiteUnits(cfg, VendorOrder[2])
        \o SiteUnits(cfg, VendorOrder[3])

\* start_client_run, or the loop; the units come from the loaded file.  (For a
\* vendor that has no connector, and so no task, the chord's start raises once
\* the run is inserted: RunLifecycle's dispatch that fails.)
Start ==
    /\ run.at = "none" /\ Loads(config) /\ config.known
    /\ loaded' = config
    /\ header' = Header(config)
    /\ unit' = [n \in DOMAIN Header(config) |-> Waiting]
    /\ run' = [NotRun EXCEPT !.at = "collecting"]
    /\ UNCHANGED <<config, enrolled, path, edits, changes>>

\* A task loads the file again; the loop keeps what it was given.
Current == IF path = "chord" THEN config ELSE loaded

Ready(n) ==
    /\ run.at = "collecting" /\ unit[n].at = "queued"
    /\ path = "loop" => \A m \in 1..(n - 1) : unit[m].at \in {"ok", "error"}
Ends(n, ending) ==
    /\ unit' = [unit EXCEPT ![n] = ending]
    /\ UNCHANGED <<config, enrolled, path, loaded, header, run, edits, changes>>

HasSite(cfg, n) == header[n].index \in DOMAIN SitesFor(cfg, header[n].source)

\* What is outside the units' own try: loading the file, the vendor's sites,
\* and the site of that index.
UnitRaises(n) ==
    /\ Ready(n)
    /\ ~Loads(Current) \/ (header[n].source # "ad" /\ ~HasSite(Current, n))
    /\ Ends(n, [unit[n] EXCEPT !.at = "raised"])

CollectDomain(n) ==
    /\ Ready(n) /\ Loads(Current) /\ header[n].source = "ad"
    /\ \E at \in {"ok", "error"} :
          /\ at = "ok" => CanExport(Current)
          /\ Ends(n, [unit[n] EXCEPT !.at = at, !.key = <<"ad", header[n].target>>])

\* The unit of a vendor's site, up to its connector.
SiteUnit(n, v, sites) ==
    LET i == header[n].index
    IN  [unit[n] EXCEPT !.key = SiteStatusKey(v, sites[i], i, Len(sites)),
                        !.console = SoleAccount(Current.vendors[v], sites[i]),
                        !.ids = sites[i].ids]
IsSite(n) ==
    Ready(n) /\ header[n].source # "ad" /\ Loads(Current) /\ HasSite(Current, n)

\* Without credentials the inventory is a file of the vendor, and of the label.
CollectFixture(n) ==
    LET v == header[n].source
        u == SiteUnit(n, v, SitesFor(Current, v))
        file == <<v, SitesFor(Current, v)[header[n].index].label>>
    IN  /\ IsSite(n) /\ ~IsLive(Current, v, header[n].index)
        /\ Ends(n, IF file \in DOMAIN Fixtures
                   THEN [u EXCEPT !.at = "ok", !.got = ParseInventory(v, u.ids, Fixtures[file])]
                   ELSE [u EXCEPT !.at = "error"])

InScope(v, u) ==
    {d \in enrolled : Home[d] = u.console /\
                      (v # "carbonblack" /\ u.ids # {} => Site[d] \in u.ids)}
OpenInventory(n) ==
    LET v == header[n].source
        u == SiteUnit(n, v, SitesFor(Current, v))
    IN  /\ IsSite(n) /\ IsLive(Current, v, header[n].index)
        /\ \E narrowed \in BOOLEAN :
              /\ narrowed => v # "carbonblack" /\ u.ids # {}
              /\ v = "sentinelone" /\ u.ids # {} => narrowed
              /\ Ends(n, [u EXCEPT !.at = "paging", !.narrowed = narrowed,
                                   !.steady = InScope(v, u)])

\* Variant: the request is for the first page again.
FetchPageAgain(n) ==
    LET v == header[n].source
        u == unit[n]
        got == u.got \cup ParseInventory(v, u.ids, PageOf(v, u))
    IN  /\ run.at = "collecting" /\ u.at = "paging"
        /\ Ends(n, IF LastPage(v, u) THEN [u EXCEPT !.at = "ok", !.got = got]
                                     ELSE [u EXCEPT !.got = got])
\* `got` is the machines that were sent; the code's list has a machine that was
\* on two pages twice.
FetchPage(n) ==
    LET v == header[n].source
        u == unit[n]
        got == u.got \cup ParseInventory(v, u.ids, PageOf(v, u))
    IN  /\ run.at = "collecting" /\ u.at = "paging"
        /\ Ends(n, IF LastPage(v, u)
                   THEN [u EXCEPT !.at = "ok", !.got = got]
                   ELSE [u EXCEPT !.got = got, !.page = u.page + 1,
                                  !.last = Latest(u, PageOf(v, u))])

\* Variants: the pages fetched so far are kept; the failure is not caught.
RequestFailsKeepingPages(n) ==
    run.at = "collecting" /\ unit[n].at = "paging" /\ Ends(n, [unit[n] EXCEPT !.at = "error"])
RequestFailsUncaught(n) ==
    /\ run.at = "collecting" /\ unit[n].at = "paging"
    /\ Ends(n, [unit[n] EXCEPT !.at = "raised", !.got = {}])
RequestFails(n) ==
    /\ run.at = "collecting" /\ unit[n].at = "paging"
    /\ Ends(n, [unit[n] EXCEPT !.at = "error", !.got = {}])

-----------------------------------------------------------------------------
(* The fan-in.                                                             *)
AllEnded == \A n \in DOMAIN unit : unit[n].at \in Ended
NoneRaised == \A n \in DOMAIN unit : unit[n].at # "raised"
OkUnits == {n \in DOMAIN unit : unit[n].at = "ok"}
FanIn(at) ==
    /\ run' = at
    /\ UNCHANGED <<config, enrolled, path, loaded, header, unit, edits, changes>>

\* The statuses by key, of which the last stands, and what was delivered.
Ingested ==
    [at |-> "returned",
     status |-> [k \in {unit[n].key : n \in DOMAIN unit} |->
                    unit[CHOOSE n \in DOMAIN unit :
                            /\ unit[n].key = k
                            /\ \A m \in (n + 1)..Len(unit) : unit[m].key # k].at],
     exports |-> {header[n].target : n \in {m \in OkUnits : header[m].source = "ad"}},
     agents |-> UNION {unit[n].got : n \in OkUnits}]

\* The callback, which loads config.yaml for Splunk's settings; finalize_run
\* fails a run without any domain's export.
Callback ==
    /\ path = "chord" /\ run.at = "collecting" /\ AllEnded /\ NoneRaised /\ Loads(config)
    /\ FanIn([Ingested EXCEPT !.at =
                 IF Ingested.exports = {} THEN "failed"
                 ELSE IF \A k \in DOMAIN Ingested.status : Ingested.status[k] = "ok"
                 THEN "complete" ELSE "partial"])

\* mark_run_failed, the callback's error callback, when a unit raised or the
\* callback could not load the file.  (That it may not come, and that correlate
\* may raise, is RunLifecycle's.)
ChordFails ==
    /\ path = "chord" /\ run.at = "collecting" /\ AllEnded /\ ~(NoneRaised /\ Loads(config))
    /\ FanIn([NotRun EXCEPT !.at = "failed"])

LoopReturns ==
    /\ path = "loop" /\ run.at = "collecting" /\ AllEnded /\ NoneRaised
    /\ FanIn(Ingested)
LoopRaises ==
    /\ path = "loop" /\ run.at = "collecting" /\ ~NoneRaised
    /\ FanIn([NotRun EXCEPT !.at = "raised"])

-----------------------------------------------------------------------------
(* Around the collection.  The loop never looks at config.yaml again.       *)
Edit ==
    /\ path = "chord" /\ run.at = "collecting" /\ edits < Editions
    /\ config' \in Configs \ {config} /\ edits' = edits + 1
    /\ UNCHANGED <<enrolled, path, loaded, header, unit, run, changes>>

Change(machines) ==
    /\ run.at = "collecting" /\ changes < Changes
    /\ enrolled' = machines /\ changes' = changes + 1
    /\ UNCHANGED <<config, path, loaded, header, run, edits>>
Enrol(d) == d \notin enrolled /\ Change(enrolled \cup {d}) /\ UNCHANGED unit
Remove(d) ==
    /\ d \in enrolled /\ Change(enrolled \ {d})
    /\ unit' = [n \in DOMAIN unit |->
                   [unit[n] EXCEPT !.steady = @ \ {d},
                                   !.shrunk = @ \/ (/\ unit[n].at = "paging" /\ unit[n].page > 0
                                                    /\ Home[d] = unit[n].console)]]

UnitStep ==
    \E n \in DOMAIN unit :
        \/ UnitRaises(n) \/ CollectDomain(n) \/ CollectFixture(n)
        \/ OpenInventory(n) \/ FetchPage(n)
FanInStep == Callback \/ ChordFails \/ LoopReturns \/ LoopRaises
Next ==
    \/ Start \/ UnitStep \/ FanInStep \/ Edit
    \/ \E n \in DOMAIN unit : RequestFails(n)
    \/ \E d \in Machines : Enrol(d) \/ Remove(d)

\* Celery's workers take what is queued, and a request that does not fail is
\* answered: requests time out, so none is waited for without end.
Spec == Init /\ [][Next]_vars /\ WF_vars(UnitStep) /\ WF_vars(FanInStep)

-----------------------------------------------------------------------------
(* Properties.                                                             *)

\* Types, and that a unit that failed carries no inventory.
TypeOK ==
    /\ config \in Configs /\ loaded \in Configs /\ enrolled \subseteq Machines
    /\ path \in {"chord", "loop"} /\ edits \in 0..Editions /\ changes \in 0..Changes
    /\ DOMAIN unit = DOMAIN header
    /\ \A n \in DOMAIN unit :
          /\ unit[n].at \in {"queued", "paging"} \cup Ended /\ unit[n].got \subseteq Machines
          /\ unit[n].at \in {"queued", "error", "raised"} => unit[n].got = {}
    /\ run.at \in {"none", "collecting", "complete", "partial", "failed", "returned", "raised"}
    /\ run.agents \subseteq Machines

\* Labels that tell the sites of a vendor apart, and are not an index.
LabelsDiffer(cfg) ==
    /\ \A v \in DOMAIN cfg.sites : \A i, j \in DOMAIN cfg.sites[v] :
          LET l == cfg.sites[v][i].label
          IN  l # NoName => l \notin {"0", "1", "2"} /\ (i # j => l # cfg.sites[v][j].label)
    /\ \A i, j \in DOMAIN cfg.domains : i # j => cfg.domains[i] # cfg.domains[j]

\* Nothing is dropped silently (collect_vendor_site, correlate_client): what
\* every source sent is in the run, a source that failed is an error among the
\* statuses, and the run of such a source is not complete.  It takes labels
\* that tell the sites apart, and a chord whose config.yaml is not edited
\* before its tasks have loaded it: a site is known to them by its index.
Accounted ==
    (/\ run.at \in {"complete", "partial", "returned"}
     /\ LabelsDiffer(loaded) /\ (path = "loop" \/ edits = 0)) =>
        \A n \in DOMAIN unit :
            IF unit[n].at = "ok"
            THEN /\ run.status[unit[n].key] = "ok" /\ unit[n].got \subseteq run.agents
                 /\ header[n].source = "ad" => header[n].target \in run.exports
            ELSE run.status[unit[n].key] = "error" /\ run.at # "complete"

\* An inventory misses no machine that was in its console from the first page
\* to the last (_live_fetch_inventory), unless the vendor pages by counting
\* and the console lost a machine meanwhile.
InventoryComplete ==
    \A n \in DOMAIN unit :
        unit[n].at = "ok" /\ (header[n].source = "sentinelone" \/ ~unit[n].shrunk) =>
            unit[n].steady \subseteq unit[n].got

\* A site's inventory has machines of its own console and of the sites it is
\* limited to, whether or not the console obeys the filter: clients share a
\* console (sites_for, _in_scoped_sites, _in_scoped_company).
OnlyOwnMachines ==
    \A n \in DOMAIN unit : \A d \in unit[n].got :
        /\ unit[n].console \in Secrets => Home[d] = unit[n].console
        /\ header[n].source # "carbonblack" /\ unit[n].ids # {} => Site[d] \in unit[n].ids

\* An outage of some of the sources is never what fails a run (the docstrings'
\* "one domain, one site down must not sink the others"): a run fails when no
\* domain at all could be exported, of which an outage of all may be the
\* reason, when a configuration its tasks loaded was unusable, or when an edit
\* took a site away that was still to be collected.
Usable(cfg) ==
    Loads(cfg) /\ cfg.known /\ \A v \in DOMAIN cfg.sites : cfg.sites[v] # <<>> => SitesFor(cfg, v) # <<>>
OutagesAreTolerated ==
    run.at \in {"failed", "raised"} =>
        \/ \A n \in DOMAIN unit : header[n].source = "ad" => unit[n].at # "ok"
        \/ ~Usable(loaded) \/ ~Usable(config) \/ edits > 1
        \/ \E n \in DOMAIN unit :
              header[n].source # "ad" /\ header[n] \notin {Header(config)[m] : m \in DOMAIN Header(config)}

\* A collection ends, whatever fails and although the consoles change.
CollectionEnds == run.at = "collecting" ~> run.at # "collecting"
=============================================================================
