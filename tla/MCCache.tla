------------------------------- MODULE MCCache -------------------------------
(* Reads of two processes, writes that race with them.                         *)
EXTENDS Cache, TLC

Alike == Permutations(Reader) \cup Permutations(Process)

=============================================================================
