----------------------------- MODULE MCRegistry -----------------------------
(* Registry on small instances; see the configurations MCRegistry*.cfg. *)
EXTENDS Registry, TLC

CONSTANTS ed, other, short, long, p1, p2, t1, t2

\* An entry no peer could have made the node accept: a local caller vouches.
MCTrusted == {[pk |-> other, rev |-> 1, data |-> short, signed |-> FALSE]}

TaskSymmetry == Permutations(Task)
=============================================================================
