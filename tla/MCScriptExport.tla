-------------------------- MODULE MCScriptExport --------------------------
(* Small instances of ScriptExport for TLC: a call of any connector, beside *)
(* one of SentinelOne whose requests happen once.                          *)
EXTENDS ScriptExport

AnyAndSentinelOne ==
    [c \in Calls |-> IF c = 1 THEN Mode
                     ELSE {[vendor |-> "sentinelone", live |-> TRUE, storage |-> TRUE]}]
TwiceAndOnce == [c \in Calls |-> IF c = 1 THEN 2 ELSE 1]
=============================================================================
