---------------------------- MODULE MCCollection ----------------------------
(* Configurations for TLC, one for each case of config.py, and the consoles *)
(* they refer to.                                                          *)
EXTENDS Collection

Entry(label, account, ids) == [label |-> label, account |-> account, ids |-> ids]
Shared(accounts) == [scope |-> "global", accounts |-> accounts]
PerClient == [scope |-> "per_client", accounts |-> {}]
Config(vendors, domains, sites, storage) ==
    [parses |-> TRUE, known |-> TRUE, vendors |-> vendors, domains |-> domains,
     sites |-> sites, storage |-> storage]

S1Sites ==
    [v \in {"sentinelone"} |->
        <<Entry(NoName, NoName, {"east"}), Entry(NoName, NoName, {"west"})>>]
Declared(accounts) ==
    [v \in {"sentinelone", "bitdefender", "carbonblack"} |->
        CASE v = "sentinelone" -> Shared(accounts)
          [] v = "bitdefender" -> Shared({"bd"})
          [] OTHER -> PerClient]

\* Two sites of one console and two domains; then a second account, of which
\* the sites do not say which; then the sites in the other order, labelled.
TwoSites == Config(Declared({"s1"}), <<"dc1", "dc2">>, S1Sites, TRUE)
TwoAccounts ==
    [TwoSites EXCEPT !.vendors = Declared({"s1", "dfir"}), !.domains = <<"dc1">>]
Labelled ==
    [TwoAccounts EXCEPT !.sites = [v \in {"sentinelone"} |->
        <<Entry("west", "s1", {"west"}), Entry("east", "dfir", {})>>]]
\* Two tenants, one without its secrets, beside BitDefender.
Tenants ==
    Config(Declared({}), <<"dc1">>,
           [v \in {"carbonblack", "bitdefender"} |->
               IF v = "bitdefender" THEN <<Entry(NoName, NoName, {"east"})>>
               ELSE <<Entry("lab", "unset", {}), Entry("cb", "cb", {})>>], TRUE)
\* No vendor that can carry the export; no storage for it; no credentials.
NoCarrier ==
    [Tenants EXCEPT !.sites = [v \in {"bitdefender"} |-> <<Entry(NoName, NoName, {})>>]]
NoStorage == [Labelled EXCEPT !.storage = FALSE]
Demo ==
    [TwoAccounts EXCEPT !.vendors = Declared({}), !.storage = FALSE]
\* A file half written, a client taken out, a vendor not declared.
HalfWritten == [TwoSites EXCEPT !.parses = FALSE]
TakenOut == [TwoSites EXCEPT !.known = FALSE]
Undeclared == [TwoSites EXCEPT !.vendors = [v \in {"bitdefender"} |-> Shared({"bd"})]]

MCConfigs ==
    {TwoSites, TwoAccounts, Labelled, Tenants, NoCarrier, NoStorage, Demo, HalfWritten,
     TakenOut, Undeclared}
MCHome ==
    [d \in 1..9 |-> IF d =< 4 THEN "s1" ELSE IF d =< 7 THEN "bd" ELSE "cb"]
MCSite == [d \in 1..9 |-> IF d \in {1, 2, 3, 5, 6} THEN "east" ELSE "west"]
MCFixtures ==
    [f \in {<<"carbonblack", "lab">>, <<"sentinelone", NoName>>} |->
        IF f[2] = NoName THEN {1, 4} ELSE {8}]
=============================================================================
