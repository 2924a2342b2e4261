----------------------------- MODULE MCRateLimit -----------------------------
(* Requests of one caller in three windows.                                    *)
EXTENDS RateLimit, TLC

Alike == Permutations(Request)

=============================================================================
