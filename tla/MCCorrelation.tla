--------------------------- MODULE MCCorrelation ---------------------------
(* Small inventories for TLC: a hostname (1) that two domains share, with a  *)
(* stale object that has no DNS name, an object that is exported twice, and  *)
(* a hostname (2) of one object; agents with full and short names, of wrong  *)
(* names, with repeated and blank ids, and one without a hostname.           *)
EXTENDS Correlation

Object(pos, key, dns, dn, domain, text, build) ==
    [pos |-> pos, key |-> key, dns |-> dns, dn |-> dn, domain |-> domain,
     text |-> text, build |-> build]
Agent(pos, key, fqdn, vendor, id, seen, machineType, text, build, home) ==
    [pos |-> pos, key |-> key, fqdn |-> fqdn, vendor |-> vendor, id |-> id,
     seen |-> seen, machineType |-> machineType, text |-> text, build |-> build,
     home |-> home]

Client10 == {"windows 10"}
Server2012 == {"server", "windows server 2012"}
Server2012R2 == {"server", "windows server 2012", "windows server 2012 r2"}

MCObjects ==
    {Object(1, 1, "ws.corp", "cn=ws,corp", "corp", Client10, 19045),
     Object(2, 1, "ws.branch", "cn=ws,branch", "branch", Server2012R2, NoBuild),
     Object(3, 1, Blank, "cn=ws,old", "branch", {}, NoBuild),
     Object(4, 1, "ws.corp", "cn=ws,copy", "corp", Client10, 19045),
     Object(5, 2, Blank, Blank, "corp", Server2012, NoBuild)}

MCAgents ==
    {Agent(1, 1, "ws.corp", "sentinelone", "s1", "recent", "desktop", {}, 22631, 1),
     Agent(2, 1, Blank, "carbonblack", "c1", "old", Blank, Client10, NoBuild, 2),
     Agent(3, 1, "ws.branch", "carbonblack", Blank, "never", "server", Server2012R2, NoBuild, 2),
     Agent(4, 1, "ws.corp", "carbonblack", Blank, "recent", Blank, Client10, NoBuild, 1),
     Agent(5, 1, "ws.home", "sentinelone", "s2", "recent", "desktop", {}, 22631, 0),
     Agent(6, 2, Blank, "sentinelone", "s3", "recent", "server", {}, NoBuild, 5),
     Agent(7, NoKey, Blank, "sentinelone", "s4", "recent", "desktop", {}, NoBuild, 0)}

MCLength ==
    [w \in {"windows 10", "windows server 2012", "windows server 2012 r2"} |->
        IF w = "windows 10" THEN 10 ELSE IF w = "windows server 2012" THEN 19 ELSE 22]
MCTables ==
    [freeText |-> [w \in DOMAIN MCLength |->
        IF w = "windows 10" THEN 3 ELSE IF w = "windows server 2012" THEN 1 ELSE 5],
     builds |-> [e \in {<<"windows", 19045>>, <<"windows", 22631>>} |->
        IF e[2] = 19045 THEN 3 ELSE 9]]
=============================================================================
