--------------------------- MODULE MCSessionRoutes ---------------------------
(* Digests are interchangeable, and so are the requests the worker serves.     *)
EXTENDS SessionRoutes, TLC

Alike == Permutations(Token) \cup Permutations(Caller)

=============================================================================
