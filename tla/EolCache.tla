------------------------------ MODULE EolCache ------------------------------
(***************************************************************************)
(* The OS end-of-life data (os_eol_live.py, os_eol.py): deriving the lookup *)
(* tables from endoflife.date's cycles, the cache file that the beat's     *)
(* daily task and every `run` command refresh, and the tables that each    *)
(* process keeps by the file's modification time.                          *)
(*                                                                         *)
(* The file is replaced whole (atomic_write), by a temporary file that     *)
(* keeps the time of its own writing: of two refreshes the later may set   *)
(* the file's time back.  A lookup reads the time and then, in another     *)
(* step, the content.  Time is the file system's: files written in one     *)
(* tick have the same modification time.                                   *)
(***************************************************************************)
EXTENDS Integers, FiniteSets

CONSTANTS
    Processes,  \* who refreshes the file
    Lookers,    \* and who looks dates up
    Answers,    \* what endoflife.date may answer: the cycles of both products
    Bundled,    \* os_eol_data.json's tables
    MaxAge,     \* ticks a file is fresh for
    LastTick,   \* bound: the clock
    NoBuild, NoDate,
    NoFile

ASSUME EolCacheAssumption == MaxAge \in Nat /\ LastTick \in Nat

VARIABLES
    clock,
    file,       \* the cache file: its tables and modification time
    used,       \* history: the modification times it has had
    clashed,    \* history: it was given one of them again
    refresh,    \* a process's refresh_cache
    lookup      \* a process's _tables: what it keeps, by which key

cache == <<clock, file, used, clashed, refresh, lookup>>

-----------------------------------------------------------------------------
(* The tables.  A cycle has a name (a server's release, a client's major    *)
(* release), its latest update and the build of that (old ones have none),  *)
(* its release and its end-of-life dates; `eol` may be no date at all       *)
(* (endoflife.date has booleans there).                                    *)
Earliest(dates) == CHOOSE d \in dates : \A e \in dates : d =< e
LatestOf(dates) == CHOOSE d \in dates : \A e \in dates : e =< d
Dates(cycles) == {c.eol : c \in cycles} \ {NoDate}

Builds(product, cycles) ==
    [entry \in {<<product, c.build>> : c \in {d \in cycles : d.build # NoBuild /\ d.eol # NoDate}} |->
        Earliest(Dates({c \in cycles : c.build = entry[2]}))]
ServerNames(cycles) ==
    [name \in {c.name : c \in {d \in cycles : d.eol # NoDate}} |->
        LatestOf(Dates({c \in cycles : c.name = name}))]

\* The editions of a client's final release; a date among them that is none
\* cannot be compared with one that is.
FinalEditions(cycles, name) ==
    LET family == {c \in cycles : c.name = name}
        final == CHOOSE c \in family : \A d \in family : d.released =< c.released
    IN  {c \in family : c.latest = final.latest}
Comparable(cycles) ==
    \A c \in cycles :
        LET eols == {d.eol : d \in FinalEditions(cycles, c.name)}
        IN  NoDate \in eols => eols = {NoDate}
ClientNames(cycles) ==
    [name \in {c.name : c \in cycles} |->
        LET dates == Dates(FinalEditions(cycles, name))
        IN  IF dates = {} THEN NoDate ELSE Earliest(dates)]

Both(f, g) == [x \in DOMAIN f \cup DOMAIN g |-> IF x \in DOMAIN f THEN f[x] ELSE g[x]]
DeriveLifecycleData(answer) ==
    [freeText |-> Both(ServerNames(answer.server), ClientNames(answer.windows)),
     builds |-> Both(Builds("windows", answer.windows), Builds("windows-server", answer.server))]

Derived ==
    [answer \in {a \in Answers : Comparable(a.windows)} |-> DeriveLifecycleData(answer)]

\* Every date parses.
Valid(data) == \A name \in DOMAIN data.freeText : data.freeText[name] # NoDate

\* The package's own tables are valid, and no file is none.
ASSUME TablesAssumption ==
    /\ Valid(Bundled) /\ NoFile \notin Nat
    /\ \A answer \in DOMAIN Derived : \A t \in 0..LastTick :
          [data |-> Derived[answer], mtime |-> t] # NoFile

\* Variant: the cache is trusted as it is.
LoadCurrentUnvalidated == IF file = NoFile THEN Bundled ELSE file.data
LoadCurrent == IF file # NoFile /\ Valid(file.data) THEN file.data ELSE Bundled

\* Variant: the tables are kept by the file's path alone.
KeyByPath(f) == IF f = NoFile THEN NoFile ELSE 0
KeyOf(f) == IF f = NoFile THEN NoFile ELSE f.mtime

-----------------------------------------------------------------------------
(* A refresh.                                                              *)
NotRefreshing == [at |-> "idle", data |-> Bundled, mtime |-> 0, result |-> "none"]
NoLookup == [key |-> NoFile, tables |-> Bundled, asked |-> FALSE, seen |-> NoFile]

InitCache ==
    /\ clock = 0 /\ file = NoFile /\ used = {} /\ clashed = FALSE
    /\ refresh = [p \in Processes |-> NotRefreshing]
    /\ lookup = [p \in Lookers |-> NoLookup]

Refreshes(p, at, data, result) ==
    /\ refresh' = [refresh EXCEPT ![p] =
                       [at |-> at, data |-> data, mtime |-> 0, result |-> result]]
    /\ UNCHANGED <<clock, lookup>>

\* `aged`: a fresh file is left alone (the beat's task gives no max_age).
StartRefresh(p, aged) ==
    /\ refresh[p].at = "idle"
    /\ IF aged /\ file # NoFile /\ clock - file.mtime < MaxAge
       THEN Refreshes(p, "ended", Bundled, "fresh")
       ELSE Refreshes(p, "fetching", Bundled, "none")
    /\ UNCHANGED <<file, used, clashed>>

Fetch(p) ==
    /\ refresh[p].at = "fetching"
    /\ \E answer \in Answers :
          IF answer \in DOMAIN Derived
          THEN Refreshes(p, "fetched", Derived[answer], "none")
          ELSE Refreshes(p, "ended", Bundled, "failed")
    /\ UNCHANGED <<file, used, clashed>>
FetchFails(p) ==
    /\ refresh[p].at = "fetching"
    /\ Refreshes(p, "ended", Bundled, "failed")
    /\ UNCHANGED <<file, used, clashed>>

\* Compared with the data in use, then written beside the file.
WriteTemp(p) ==
    /\ refresh[p].at = "fetched"
    /\ refresh' = [refresh EXCEPT ![p] =
                       [@ EXCEPT !.at = "written", !.mtime = clock,
                                 !.result = IF LoadCurrent = refresh[p].data THEN "unchanged" ELSE "updated"]]
    /\ UNCHANGED <<clock, lookup, file, used, clashed>>
ReplaceFile(p) ==
    /\ refresh[p].at = "written"
    /\ file' = [data |-> refresh[p].data, mtime |-> refresh[p].mtime]
    /\ used' = used \cup {refresh[p].mtime}
    /\ clashed' = (clashed \/ refresh[p].mtime \in used)
    /\ Refreshes(p, "ended", Bundled, refresh[p].result)

\* The directory cannot be written, or the temporary file not be moved: the
\* file stays, the error is the caller's.
WriteFails(p) ==
    /\ refresh[p].at \in {"fetched", "written"}
    /\ Refreshes(p, "ended", Bundled, "raised")
    /\ UNCHANGED <<file, used, clashed>>

EndRefresh(p) ==
    /\ refresh[p].at = "ended"
    /\ Refreshes(p, "idle", Bundled, "none")
    /\ UNCHANGED <<file, used, clashed>>

-----------------------------------------------------------------------------
(* A lookup.                                                               *)
Looks(p, kept) ==
    /\ lookup' = [lookup EXCEPT ![p] = kept]
    /\ UNCHANGED <<clock, file, used, clashed, refresh>>

StatFile(p) ==
    /\ ~lookup[p].asked
    /\ Looks(p, [lookup[p] EXCEPT !.asked = TRUE, !.seen = KeyOf(file)])
LoadTables(p) ==
    /\ lookup[p].asked
    /\ Looks(p, [key |-> lookup[p].seen, asked |-> FALSE, seen |-> NoFile,
                 tables |-> IF lookup[p].seen = lookup[p].key THEN lookup[p].tables
                            ELSE IF lookup[p].seen = NoFile THEN Bundled ELSE LoadCurrent])

Tick ==
    /\ clock < LastTick /\ clock' = clock + 1
    /\ UNCHANGED <<file, used, clashed, refresh, lookup>>

-----------------------------------------------------------------------------
\* A lookup uses the data there is (os_eol._tables): the tables a process
\* keeps under the file's present modification time are the file's, or the
\* bundled ones if the file is missing or not valid, whichever process
\* replaced it, between whichever of the lookup's two reads, and also when its
\* time was set back; unless it was given a time that it had had before (two
\* files written in one tick).  Tables in use are always whole and valid.
FreshTables ==
    \A p \in Lookers :
        /\ Valid(lookup[p].tables)
        /\ lookup[p].tables \in {Bundled} \cup {Derived[a] : a \in DOMAIN Derived}
        /\ lookup[p].key = KeyOf(file) /\ ~clashed => lookup[p].tables = LoadCurrent
=============================================================================
