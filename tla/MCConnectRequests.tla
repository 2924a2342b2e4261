-------------------------- MODULE MCConnectRequests --------------------------
(* Requests, accounts, connections and callers are interchangeable.           *)
EXTENDS ConnectRequests, TLC

Alike == Permutations(Request) \cup Permutations(Account)
             \cup Permutations(Connection) \cup Permutations(Caller)

=============================================================================
