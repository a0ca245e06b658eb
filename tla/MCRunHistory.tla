---------------------------- MODULE MCRunHistory ----------------------------
(* A small history for TLC: a device with an agent of an unknown OS beside   *)
(* its end-of-life AD row, a server without an agent, an orphan.           *)
EXTENDS RunHistory

Says(host, status_, eol, server) ==
    [host |-> host, status |-> status_, eol |-> eol, server |-> server]
MCRow ==
    [k \in {"w1", "w2", "w3"} |->
        CASE k = "w1" -> Says("ws", "covered", "unknown", FALSE)
          [] k = "w2" -> Says("ws", "stale_coverage", "end_of_life", FALSE)
          [] OTHER -> Says("srv", "missing_agent", "end_of_life", TRUE)]
MCResults ==
    {[outcome |-> "complete", frame |-> {"w1", "w2", "w3"}],
     [outcome |-> "partial", frame |-> {"w3"}]}
OnlyTheFirst == [r \in Runs |-> r = 1]
=============================================================================
