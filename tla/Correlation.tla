---------------------------- MODULE Correlation ----------------------------
(***************************************************************************)
(* The correlation engine (correlation.py): the outer merge of the AD       *)
(* inventory with the agent inventories on a short hostname, the handling  *)
(* of hostnames that several AD domains use, and the classification.       *)
(*                                                                         *)
(* A client's domains hold `objects`, its vendor consoles hold `agents`;   *)
(* some sources do not answer (`down`).  The frame of those that do is then *)
(* computed by the stages of `correlate`, one action each.                 *)
(*                                                                         *)
(* A frame is a set of rows.  Strings are members of small sets: an agent's *)
(* hostname is its join key and, when it reported a full DNS name, that     *)
(* name (`fqdn`, else blank); `pos` is the row's place in its input.       *)
(***************************************************************************)
EXTENDS OsEol, FiniteSets

CONSTANTS
    ADObjects,      \* AD objects the domains may hold
    AgentRecords,   \* agent records the vendors may hold
    NoObject,       \* a row's AD side when there is none (right_only)
    NoAgent,        \* a row's agent side when there is none (left_only)
    Tables,         \* the OS lifecycle tables
    Today,          \* as_of
    WarningDays     \* eol_warning_days

ASSUME SidesAssumption ==
    /\ NoObject \notin ADObjects /\ NoAgent \notin AgentRecords
    /\ IsFiniteSet(ADObjects) /\ IsFiniteSet(AgentRecords)
    /\ \A o \in ADObjects : o.key \in Int /\ o.pos \in Int
    /\ \A a \in AgentRecords : a.key \in Int /\ a.pos \in Int
    /\ \A o, p \in ADObjects : o.pos = p.pos => o = p
    /\ \A a, b \in AgentRecords : a.pos = b.pos => a = b
    \* an agent with a full name has that of its own machine
    /\ \A a \in AgentRecords, o \in ADObjects :
          a.fqdn # Blank /\ o.pos = a.home => o.dns = a.fqdn

Domains == {o.domain : o \in ADObjects}
Vendors == {a.vendor : a \in AgentRecords}

VARIABLES
    objects,    \* the computer objects of the client's domains
    agents,     \* the agents of the client's vendors
    down,       \* sources that did not answer
    stage,      \* the last stage of `correlate` that was done
    frame       \* its result

vars == <<objects, agents, down, stage, frame>>

-----------------------------------------------------------------------------
\* Rows.

NoKey == 0      \* the join key of a blank hostname

Row(o, a) ==
    [key |-> IF o # NoObject THEN o.key ELSE a.key, ad |-> o, agent |-> a,
     index |-> <<IF o # NoObject THEN o.pos ELSE 0, IF a # NoAgent THEN a.pos ELSE 0>>,
     ambiguous |-> FALSE, method |-> "none", status |-> Blank,
     machineType |-> IF a # NoAgent THEN a.machineType ELSE Blank,
     build |-> NoBuild, eol |-> Blank]

Both(r) == r.ad # NoObject /\ r.agent # NoAgent

\* An AD object is known by its DNS name, else by its distinguished name; an
\* agent by its vendor and id.
AdId(o) == IF o.dns # Blank THEN o.dns ELSE o.dn
AgentId(a) == <<a.vendor, a.id>>

\* The order of the merged frame: join keys, then the inputs' orders.  `index`
\* is a row's place in it and stays with the row.
Before(r, s) ==
    \/ r.key < s.key
    \/ r.key = s.key /\ r.index[1] < s.index[1]
    \/ r.key = s.key /\ r.index[1] = s.index[1] /\ r.index[2] < s.index[2]

WithoutAgent(r) == [Row(r.ad, NoAgent) EXCEPT !.index = r.index]
WithoutAD(r) == [Row(NoObject, r.agent) EXCEPT !.index = r.index]

-----------------------------------------------------------------------------
\* Variants: steps as a plausible mistake would have written them.  No
\* specification uses them; putting one in the place of the step it varies
\* shows which property notices.

\* Blank hostnames are a join group of their own.
AddJoinKeyToAll(rows) == rows

\* A name is ambiguous when more than one agent reports it as well.
AmbiguousWhenAgentsDiffer(rows, k) ==
    /\ Cardinality({AdId(r.ad) : r \in {r \in rows : r.key = k /\ r.ad # NoObject}}) > 1
    /\ Cardinality({r.agent : r \in {r \in rows : r.key = k}}) > 1

-----------------------------------------------------------------------------
\* The stages.

AddJoinKey(rows) == {x \in rows : x.key # NoKey}

MergeWithAgents(ad, ag) ==
    {Row(p[1], p[2]) : p \in {q \in ad \X ag : q[1].key = q[2].key}}
        \cup {Row(o, NoAgent) : o \in {o \in ad : \A a \in ag : a.key # o.key}}
        \cup {Row(NoObject, a) : a \in {a \in ag : \A o \in ad : o.key # a.key}}

Identities(rows, k) ==
    {AdId(r.ad) : r \in {r \in rows : r.key = k /\ r.ad # NoObject}} \ {Blank}

AmbiguousKey(rows, k) == Cardinality(Identities(rows, k)) > 1

Paired(rows, r) == AmbiguousKey(rows, r.key) /\ Both(r)
ByFqdn(rows, r) == Paired(rows, r) /\ r.agent.fqdn # Blank
Keep(rows, r) == ByFqdn(rows, r) /\ r.agent.fqdn = r.ad.dns
Drop(rows, r) == ByFqdn(rows, r) /\ r.agent.fqdn # r.ad.dns

\* Variants: an agent left unmatched by several objects has a row for each; an
\* agent without its full name is not flagged; an agent is known by its hostname.
FirstPerRow(rows) == rows
KeptUnflagged(rows) ==
    {[r EXCEPT !.method = IF Keep(rows, r) THEN "fqdn_exact" ELSE @] :
        r \in {r \in rows : ~Drop(rows, r)}}
UnmatchedHosts(rows) ==
    LET matched == {r.key : r \in {r \in rows : Keep(rows, r)}}
    IN {r \in rows : Drop(rows, r) /\ r.key \notin matched}

\* duplicated(): the first row of each identity stays.
FirstPerObject(rows) ==
    {r \in rows : \A s \in rows : AdId(s.ad) = AdId(r.ad) => ~Before(s, r)}
FirstPerAgent(rows) ==
    {r \in rows : \A s \in rows : AgentId(s.agent) = AgentId(r.agent) => ~Before(s, r)}

Kept(rows) ==
    {[r EXCEPT !.method = IF Keep(rows, r) THEN "fqdn_exact" ELSE @,
               !.ambiguous = Paired(rows, r) /\ ~ByFqdn(rows, r)] :
        r \in {r \in rows : ~Drop(rows, r)}}

\* Dropped pairings whose AD object has no other row left, in the whole frame.
UnpairedAD(rows) ==
    LET stillPaired == {AdId(r.ad) : r \in {r \in rows : ~Drop(rows, r) /\ r.ad # NoObject}}
    IN {r \in rows : Drop(rows, r) /\ AdId(r.ad) \notin stillPaired}

UnmatchedAgents(rows) ==
    LET matched == {AgentId(r.agent) : r \in {r \in rows : Keep(rows, r)}}
    IN {r \in rows : Drop(rows, r) /\ AgentId(r.agent) \notin matched}

ResolveAmbiguousJoinKeys(rows) ==
    Kept(rows)
        \cup {WithoutAgent(r) : r \in FirstPerObject(UnpairedAD(rows))}
        \cup {WithoutAD(r) : r \in FirstPerAgent(UnmatchedAgents(rows))}

StatusOf(r) ==
    IF r.agent = NoAgent THEN "missing_agent"
    ELSE IF r.ad = NoObject THEN "orphaned_agent"
    ELSE IF r.agent.seen = "recent" THEN "covered" ELSE "stale_coverage"

ClassifyCoverage(rows) ==
    {[r EXCEPT !.status = StatusOf(r),
               !.method = IF ~Both(r) THEN "none"
                          ELSE IF @ = "none" THEN "hostname_exact" ELSE @] : r \in rows}

InferMachineType(text) == IF IsServerOs(text) THEN "server" ELSE "desktop"

BackfillMachineType(rows) ==
    {[r EXCEPT !.machineType = IF @ # Blank \/ r.ad = NoObject THEN @
                               ELSE InferMachineType(r.ad.text)] : r \in rows}

\* The agent's value if it has one, else AD's.  A blank text is a gap only in a
\* column of dtype object: pandas 2 makes such a column of strings, pandas 3 only
\* where the tiebreak put missing values among them.
CoalesceBuild(r) ==
    IF r.agent # NoAgent /\ r.agent.build # NoBuild THEN r.agent.build
    ELSE IF r.ad # NoObject THEN r.ad.build ELSE NoBuild
CoalesceText(r, blankIsGap) ==
    IF r.agent # NoAgent /\ (blankIsGap => r.agent.text # {}) THEN r.agent.text
    ELSE IF r.ad # NoObject THEN r.ad.text ELSE {}

ClassifyEolStatus(rows, blankIsGap) ==
    {[r EXCEPT !.build = CoalesceBuild(r),
               !.eol = EolStatusForDevice(Tables, CoalesceText(r, blankIsGap),
                                          CoalesceBuild(r), Today, WarningDays)] :
        r \in rows}

\* Variant: the summary counts flagged rows.
SummarizeFlaggedRows(rows) ==
    [ambiguousJoinKeys |-> Cardinality({r \in rows : r.ambiguous})]

\* summarize: the counts of a classified frame.  coverage_pct is in tenths of
\* a percent; a tie is rounded up, while round() goes by the float's last bit.
Count(rows, status) == Cardinality({r \in rows : r.status = status})
CoveragePct(rows) ==
    LET covered == Count(rows, "covered")
        known == covered + Count(rows, "stale_coverage") + Count(rows, "missing_agent")
    IN IF known = 0 THEN 0 ELSE (2000 * covered + known) \div (2 * known)
Summarize(rows) ==
    [totalRows |-> Cardinality(rows),
     uniqueDevices |-> Cardinality({r.key : r \in rows}),
     coverage |-> CoveragePct(rows),
     serverCoverage |-> CoveragePct({r \in rows : r.machineType = "server"}),
     atRisk |-> Cardinality({r \in rows : r.eol \in {"end_of_life", "eol_soon"}}),
     ambiguousJoinKeys |-> Cardinality({r.key : r \in {r \in rows : r.ambiguous}})]

-----------------------------------------------------------------------------
\* The machine.

ADFrame == {o \in objects : o.domain \notin down}
AgentsFrame == {a \in agents : a.vendor \notin down}

TypeOK ==
    /\ objects \subseteq ADObjects
    /\ agents \subseteq AgentRecords
    /\ down \subseteq Domains \cup Vendors
    /\ stage \in {"collect", "merged", "resolved", "classified", "backfilled", "done"}
    /\ \A r \in frame :
        /\ r.ad \in ADObjects \cup {NoObject} /\ r.agent \in AgentRecords \cup {NoAgent}
        /\ r.ad # NoObject \/ r.agent # NoAgent
        /\ r.key # NoKey
        /\ r.status \in {Blank, "covered", "missing_agent", "orphaned_agent", "stale_coverage"}
        /\ r.method \in {"none", "hostname_exact", "fqdn_exact"}
        /\ stage = "done" => r.eol \in LifecycleStatus

Init ==
    /\ objects \in SUBSET ADObjects
    /\ agents \in SUBSET AgentRecords
    /\ down = {}
    /\ stage = "collect"
    /\ frame = {}

\* A domain's export or a vendor's inventory fails.
SourceDown(s) ==
    /\ stage = "collect"
    /\ s \notin down
    /\ down' = down \cup {s}
    /\ UNCHANGED <<objects, agents, stage, frame>>

\* A run needs the AD inventory of one domain at least.
Merge ==
    /\ stage = "collect"
    /\ \E d \in Domains : d \notin down
    /\ frame' = MergeWithAgents(AddJoinKey(ADFrame), AddJoinKey(AgentsFrame))
    /\ stage' = "merged"
    /\ UNCHANGED <<objects, agents, down>>

Stage(from, to, result) ==
    /\ stage = from
    /\ frame' = result
    /\ stage' = to
    /\ UNCHANGED <<objects, agents, down>>

Resolve == Stage("merged", "resolved", ResolveAmbiguousJoinKeys(frame))
ClassifyRows == Stage("resolved", "classified", ClassifyCoverage(frame))
Backfill == Stage("classified", "backfilled", BackfillMachineType(frame))
ClassifyEol ==
    \E blankIsGap \in BOOLEAN :
        Stage("backfilled", "done", ClassifyEolStatus(frame, blankIsGap))

Next ==
    \/ \E s \in Domains \cup Vendors : SourceDown(s)
    \/ Merge \/ Resolve \/ ClassifyRows \/ Backfill \/ ClassifyEol

Spec == Init /\ [][Next]_vars

-----------------------------------------------------------------------------
\* Properties.

Classified == stage \in {"classified", "backfilled", "done"}
CollectedAD == AddJoinKey(ADFrame)
CollectedAgents == AddJoinKey(AgentsFrame)

UniqueObjects(os) ==
    /\ \A o \in os : AdId(o) # Blank
    /\ \A o, p \in os : AdId(o) = AdId(p) => o = p
UniqueAgents(as) == \A a, b \in as : AgentId(a) = AgentId(b) => a = b

\* What the frame should say, object by object: an agent belongs to an object
\* of its hostname unless its full name says that it is another's.
SharedKey(k) == \E o, p \in CollectedAD : o.key = k /\ p.key = k /\ AdId(o) # AdId(p)
Belongs(a, o) ==
    a.key = o.key /\ (SharedKey(o.key) /\ a.fqdn # Blank => a.fqdn = o.dns)
Reference ==
    {p \in CollectedAD \X CollectedAgents : Belongs(p[2], p[1])}
        \cup {<<o, NoAgent>> : o \in {o \in CollectedAD :
                                  \A a \in CollectedAgents : ~Belongs(a, o)}}
        \cup {<<NoObject, a>> : a \in {a \in CollectedAgents :
                                  \A o \in CollectedAD : ~Belongs(a, o)}}

\* Where identities are unique the merge, the tiebreak and the two
\* deduplications together give exactly the pairs above, one row for every object
\* without an agent and one for every agent without an object
\* (resolve_ambiguous_join_keys).
FrameIsReference ==
    Classified /\ UniqueObjects(CollectedAD) /\ UniqueAgents(CollectedAgents) =>
        /\ {<<r.ad, r.agent>> : r \in frame} = Reference
        /\ Cardinality(frame) = Cardinality(Reference)

\* Whatever identities repeat or are blank, every identity that was collected
\* is in the frame, and no other is: the tiebreak's drops and deduplications
\* lose no DNS or distinguished name and no pair of vendor and id.  (Agents with
\* one id between them, or with none, are one to the tiebreak, and of these it
\* may lose all but one.)
NothingVanishes ==
    stage # "collect" =>
        /\ {AdId(r.ad) : r \in {r \in frame : r.ad # NoObject}} = {AdId(o) : o \in CollectedAD}
        /\ {AgentId(r.agent) : r \in {r \in frame : r.agent # NoAgent}}
                = {AgentId(a) : a \in CollectedAgents}

\* An agent that is credited to a machine without a flag is that machine's, or
\* its own machine was not exported under this hostname (its domain did not
\* answer, or it is in none of them).  Where several exported machines share the
\* hostname, only its full name, letter for letter, credits it to another's.
RightMachine ==
    Classified /\ UniqueObjects(CollectedAD) =>
        \A r \in {r \in frame : Both(r) /\ ~r.ambiguous} :
            \/ r.ad.pos = r.agent.home
            \/ /\ \A o \in CollectedAD : o.key = r.key => o.pos # r.agent.home
               /\ SharedKey(r.key) => r.agent.fqdn # Blank /\ r.agent.fqdn = r.ad.dns

\* The frame had every vendor answered.
FullFrame ==
    ClassifyCoverage(ResolveAmbiguousJoinKeys(
        MergeWithAgents(CollectedAD, AddJoinKey(agents))))
With(rows, status) == {AdId(r.ad) : r \in {r \in rows : r.status = status}}

\* A vendor that did not answer makes the picture worse, never better: no
\* machine is covered that would not be with all the agents, and every machine
\* that would be missing is.
PartialUnderstates ==
    Classified =>
        /\ With(frame, "covered") \subseteq With(FullFrame, "covered")
        /\ With(FullFrame, "missing_agent") \subseteq With(frame, "missing_agent")

\* The summary's ambiguous_join_keys counts exactly the hostnames that several
\* objects share and some agent reported without a domain.
AmbiguousKeysCounted ==
    stage = "done" =>
        Summarize(frame).ambiguousJoinKeys =
            Cardinality({a.key : a \in {a \in CollectedAgents :
                a.fqdn = Blank /\ Cardinality({AdId(o) : o \in
                    {o \in CollectedAD : o.key = a.key}} \ {Blank}) > 1}})
=============================================================================
