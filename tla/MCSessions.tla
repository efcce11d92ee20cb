------------------------------ MODULE MCSessions ------------------------------
(***************************************************************************)
(* Instances of Sessions for TLC: connections of processes of one module.  *)
(***************************************************************************)
EXTENDS Sessions, TLC

CONSTANTS i1, i2, n1

\* Two processes of one module, as when a supervisor restarts it.
MCInstance == {i1, i2}
MCName     == {n1}
MCNameOf   == [i \in MCInstance |-> n1]

\* No run names an individual connection.
Symmetry == Permutations(Socket)
===============================================================================
