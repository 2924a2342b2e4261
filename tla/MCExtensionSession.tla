------------------------- MODULE MCExtensionSession -------------------------
(* The popup, where a reviewer pairs and logs out, and the background.        *)
EXTENDS ExtensionSession, TLC

Alike == Permutations(Token) \cup Permutations(Code) \cup Permutations(Context)

\* worker.md:2599, extension.md:1618: "One refresh in flight per endpoint": no two
\* callers spend one token, so the extension never holds a token that the worker
\* revoked while the session is open there.
NeverLockedOut ==
    held # NoToken /\ (\E u \in Store!Chain(Root(held)) : Store!Live(u)) => Store!Live(held)
=============================================================================
