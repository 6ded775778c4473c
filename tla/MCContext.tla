----------------------------- MODULE MCContext -----------------------------
(***************************************************************************)
(* Context for TLC: small clusters and what a health check may find in     *)
(* them.                                                                   *)
(***************************************************************************)
EXTENDS Context, TLC

\* A WAL location of PostgreSQL, two hexadecimal numbers; here the first is 0.
Found(o, ro, p) == [ok |-> o, role |-> ro, pos |-> [hi |-> <<0>>, lo |-> p]]

\* A slave that is up to date, one that is behind, and a master.
MCLagProbes == {Found("OK", "SLAVE", <<1>>), Found("OK", "SLAVE", <<0>>), Found("OK", "MASTER", <<1>>)}
\* A slave, a master, a backend that cannot be reached.
MCProbes == {Found("OK", "SLAVE", <<1>>), Found("OK", "MASTER", <<1>>), Found("FAILED", "kept", <<>>)}
\* The least that leads to a choice of backends, and to none.
MCTwoProbes == {Found("OK", "SLAVE", <<0>>), Found("OK", "MASTER", <<0>>)}
\* Positions that do not fit into an int.
MCFarProbes == {Found("OK", "MASTER", <<5>>), Found("OK", "SLAVE", <<5>>), Found("FAILED", "kept", <<>>)}

\* Positions F and 10.
MCHexProbes == {Found("OK", "MASTER", <<1, 0>>), Found("OK", "SLAVE", <<15>>)}

MCWeight    == [i \in Backend |-> i]
MCWeight1   == [i \in Backend |-> 1]
MCThreshold == [i \in Backend |-> 1]

Workers == Permutations(Worker)
=============================================================================
