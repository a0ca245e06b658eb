------------------------------ MODULE RunLedger ------------------------------
(***************************************************************************)
(* What the run history promises its readers (the report, the dashboard):  *)
(* a run is opened once and finished once.  A finished run has the whole   *)
(* table of its frame, each row once, or, when it failed, no table.        *)
(***************************************************************************)
EXTENDS Naturals

CONSTANTS Runs, Keys

VARIABLES status, table

ledger == <<status, table>>

Empty == [k \in Keys |-> 0]

Init ==
    /\ status = [r \in Runs |-> "absent"]
    /\ table = [r \in Runs |-> Empty]

Open(r) ==
    /\ status[r] = "absent"
    /\ status' = [status EXCEPT ![r] = "pending"]
    /\ UNCHANGED table

\* A run is finished with the rows of its frame.
Settle(r, outcome, rows) ==
    /\ status[r] = "pending"
    /\ status' = [status EXCEPT ![r] = outcome]
    /\ table' = [table EXCEPT ![r] = [k \in Keys |-> IF k \in rows THEN 1 ELSE 0]]

\* One sweep may fail several runs.
Fail(lost) ==
    /\ \A r \in lost : status[r] = "pending"
    /\ status' = [r \in Runs |-> IF r \in lost THEN "failed" ELSE status[r]]
    /\ UNCHANGED table

Next ==
    \/ \E r \in Runs : Open(r)
    \/ \E r \in Runs, outcome \in {"complete", "partial"}, rows \in SUBSET Keys :
            Settle(r, outcome, rows)
    \/ \E lost \in SUBSET Runs : Fail(lost)

Spec == Init /\ [][Next]_ledger

=============================================================================
