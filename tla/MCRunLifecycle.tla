--------------------------- MODULE MCRunLifecycle ---------------------------
(* Small instances of RunLifecycle for TLC. *)
EXTENDS RunLifecycle, TLC

CONSTANTS p1, p2, r1, r2

OneClient == [r \in Runs |-> 1]
TwoClients == (r1 :> 1) @@ (r2 :> 2)

\* Bounds for liveness, of what the schedule does not depend on.  A callback
\* gets nothing or a whole frame, and there are hourly ticks only, so that a
\* client is not collected because somebody forced it.
Few ==
    /\ \A r \in Runs : payload[r] \in
            {NoPayload, [ad |-> TRUE, allOk |-> TRUE, rows |-> Keys]}
    /\ NobodyForces
HourlySpec == Init /\ [][Next /\ Few']_vars /\ Fairness

Symmetry == Permutations(Procs) \cup Permutations(Runs)
=============================================================================
