-------------------------- MODULE MCSessionPromise --------------------------
(* The digests are interchangeable: the promise never compares two of them.  *)
EXTENDS SessionPromise, TLC

TokensAreAlike == Permutations(Token) \cup Permutations(Code)
=============================================================================
