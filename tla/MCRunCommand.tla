---------------------------- MODULE MCRunCommand ----------------------------
(* Two clients, a worker process beside the command, and answers of         *)
(* endoflife.date with the cases of its derivation: an update that shares   *)
(* its build with a longer-lived edition, a service pack, a cycle without a *)
(* date, one whose absence of a date cannot be compared, and a client       *)
(* release with two old updates, neither of which has a build.             *)
EXTENDS RunCommand

Cycle(name, latest, build, eol, released) ==
    [name |-> name, latest |-> latest, build |-> build, eol |-> eol, released |-> released]
Ten(eol, ltsc) ==
    {Cycle("windows 10", "10.0.19044", 19044, 3, 1),
     Cycle("windows 10", "10.0.19045", 19045, eol, 2),
     Cycle("windows 10", "10.0.19045", 19045, ltsc, 2)}
Seven ==
    {Cycle("windows 7", "6.1.7600", NoBuild, 0, 0), Cycle("windows 7", "6.1.7601", NoBuild, 1, 1)}
Server ==
    {Cycle("windows server 2012", "6.2.9200", NoBuild, 1, 1),
     Cycle("windows server 2012", "6.2.9200", NoBuild, 2, 1),
     Cycle("windows server 2025", "10.0.26100", 26100, 9, 2),
     Cycle("windows server 2028", "none", NoBuild, NoDate, 3)}
Answer(windows) == [windows |-> windows, server |-> Server]
MCClients == <<"acme", "globex">>
MCAnswers ==
    {Answer(Ten(4, 8)), Answer(Ten(NoDate, NoDate)), Answer(Ten(NoDate, 8))}
MCBundled == DeriveLifecycleData(Answer(Ten(4, 6) \cup Seven))

\* Bound.  After its own refresh the command neither reads nor writes the
\* cache, so the others' work on it is explored beside the refresh (which no
\* option changes: one choice of them will do), and the rest of the command
\* from the caches that its refresh alone can leave.
Apart ==
    \/ cmd.at \in {"refresh", "refreshing"} /\ options.timeout /\ options.all /\ options.csv
    \/ /\ clock = 0 /\ \A p \in Lookers : lookup[p] = NoLookup
       /\ \A p \in Processes \ {Cli} : refresh[p] = NotRefreshing
MCNext == Next /\ Apart'
MCSpec ==
    /\ Init /\ [][MCNext]_vars
    /\ WF_vars(CommandStep) /\ WF_vars(RefreshStep(Cli)) /\ WF_vars(Elapses)
=============================================================================
