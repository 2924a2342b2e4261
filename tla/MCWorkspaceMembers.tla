------------------------- MODULE MCWorkspaceMembers -------------------------
(* Two accounts and one workspace, two calls at a time.                      *)
EXTENDS WorkspaceMembers, TLC

AllAreAlike == Permutations(Account) \cup Permutations(Caller)

Used(m) == table[m] # NoRow \/ \E c \in Caller : draft[c][m] # Untouched

\* With two accounts, the last id is taken only while a member who is gone is still
\* known to a call: somebody comes again.  It is explored with the acceptances and
\* the deletions of an account, under one administrator.
Parts ==
    Used(Max(Membership)) =>
        /\ \A a \in Accounts(table) : ~table[a].banned /\ (table[a].admin => Admins(table) = {a})
        /\ \A c \in Caller : calls[c] # Nothing => calls[c].op \in {"join", "erase"}
=============================================================================
