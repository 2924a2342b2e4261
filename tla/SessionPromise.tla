--------------------------- MODULE SessionPromise ---------------------------
(***************************************************************************)
(* What the session store of the worker promises to its callers            *)
(* (`SessionStore` in apps/worker/src/session.ts): every operation is one   *)
(* atomic step.  SessionPostgres shows how the store keeps the promise with *)
(* several statements, row locks and the isolation level READ COMMITTED.    *)
(*                                                                          *)
(* A session is a CHAIN of refresh tokens.  Each refresh spends a token and *)
(* issues its successor; every token of a chain names the head of the chain *)
(* as its root.  A token is known by its digest, so a Token here is a       *)
(* digest.  Instants are given by the caller and reach the store in any     *)
(* order: the store never reads a clock.                                    *)
(***************************************************************************)
EXTENDS Integers

CONSTANTS Token,       \* digests of refresh tokens
          Code,        \* digests of pairing codes
          Person,      \* a subject in a workspace
          Scope,       \* whose sessions one call may end or rename
          Name,        \* display names
          Caller,      \* the concurrent calls of the store
          Instant,     \* the instants a caller may give
          SessionTtl,  \* REFRESH_TTL_SECONDS
          PairingTtl,  \* PAIRING_TTL_SECONDS
          Grace,       \* ROTATION_GRACE_SECONDS
          NoRow,       \* no row has this digest
          NoToken,     \* the predecessor of the head of a chain
          Nothing      \* a caller that asked for nothing

NotRotated == -1

\* `code` is the pairing code that bought the chain: no column holds it, the
\* promise of endSessionsOf and renameSessionsOf is stated with it.
SessionRow == [subject: Person, name: Name, expires: Int, revoked: BOOLEAN,
               rotated: Int, pred: Token \cup {NoToken}, root: Token, code: Code]

PairingRow == [subject: Person, name: Name, expires: Int, redeemed: BOOLEAN]

\* What a call found when it started: the chains of these persons and their codes.
EndCall == [who: Scope, chains: SUBSET Token, codes: SUBSET Code]
RenameCall == [who: Scope, chains: SUBSET Token, codes: SUBSET Code,
               name: Name, at: Instant]

\* A call that names nobody throws, so no scope is empty.
ASSUME ScopeAssumption == Scope \subseteq (SUBSET Person) \ {{}}
ASSUME TimeAssumption == /\ Instant \subseteq Nat
                         /\ SessionTtl \in Nat
                         /\ PairingTtl \in Nat
                         /\ Grace \in Nat
ASSUME NoTokenAssumption == NoToken \notin Token
ASSUME NoRowAssumption == NoRow \notin SessionRow /\ NoRow \notin PairingRow
ASSUME NothingAssumption == Nothing \notin EndCall /\ Nothing \notin RenameCall

VARIABLES sessions,  \* the table of sessions, by digest
          pairings,  \* the table of pairing codes, by digest
          issued,    \* every digest drawn so far: no draw repeats one
          ending,    \* the calls of endSessionsOf under way
          renaming   \* the calls of renameSessionsOf under way

tables == <<sessions, pairings>>
asked == <<ending, renaming>>
vars == <<sessions, pairings, issued, ending, renaming>>

TypeOK ==
    /\ sessions \in [Token -> SessionRow \cup {NoRow}]
    /\ pairings \in [Code -> PairingRow \cup {NoRow}]
    /\ issued \subseteq Token \cup Code
    /\ ending \in [Caller -> EndCall \cup {Nothing}]
    /\ renaming \in [Caller -> RenameCall \cup {Nothing}]

-----------------------------------------------------------------------------
Live(t) == sessions[t] # NoRow /\ ~sessions[t].revoked

Chain(r) == {t \in Token : sessions[t] # NoRow /\ sessions[t].root = r}

SessionsOf(who) == {t \in Token : sessions[t] # NoRow /\ sessions[t].subject \in who}

ChainsOf(who) == {sessions[t].root : t \in SessionsOf(who)}

CodesOf(who) == {k \in Code : pairings[k] # NoRow /\ pairings[k].subject \in who}

\* The table once every row of `gone` is marked revoked.  A row is marked, never
\* deleted, so that a later replay of it still ends its chain.
Revoking(gone) ==
    [t \in Token |-> IF t \in gone THEN [sessions[t] EXCEPT !.revoked = TRUE]
                                   ELSE sessions[t]]

Spending(gone) ==
    [k \in Code |-> IF k \in gone THEN [pairings[k] EXCEPT !.redeemed = TRUE]
                                  ELSE pairings[k]]

Init ==
    /\ sessions = [t \in Token |-> NoRow]
    /\ pairings = [k \in Code |-> NoRow]
    /\ issued = {}
    /\ ending = [c \in Caller |-> Nothing]
    /\ renaming = [c \in Caller |-> Nothing]

-----------------------------------------------------------------------------
CreatePairing(k, p, n, at) ==
    /\ k \notin issued
    /\ pairings' = [pairings EXCEPT ![k] =
            [subject |-> p, name |-> n, expires |-> at + PairingTtl, redeemed |-> FALSE]]
    /\ issued' = issued \cup {k}
    /\ UNCHANGED <<sessions, asked>>

\* Spends the code and opens the session it buys: a chain of one token.
RedeemPairing(k, t, at) ==
    /\ pairings[k] # NoRow
    /\ ~pairings[k].redeemed
    /\ at < pairings[k].expires
    /\ t \notin issued
    /\ pairings' = Spending({k})
    /\ sessions' = [sessions EXCEPT ![t] =
            [subject |-> pairings[k].subject, name |-> pairings[k].name,
             expires |-> at + SessionTtl, revoked |-> FALSE,
             rotated |-> NotRotated, pred |-> NoToken, root |-> t,
             code |-> k]]
    /\ issued' = issued \cup {t}
    /\ UNCHANGED asked

\* Mutant of Successor: a column left out.
SuccessorOfNoChain(t) ==
    [sessions[t] EXCEPT !.pred = t, !.rotated = NotRotated, !.revoked = FALSE, !.root = NoToken]

\* The successor takes the expiry of its predecessor: a rotation extends nothing.
Successor(t) ==
    [sessions[t] EXCEPT !.pred = t, !.rotated = NotRotated, !.revoked = FALSE]

\* Mutant of RotateFirst: `revoked_at` is not read.
RotateRevoked(t, s, at) ==
    /\ sessions[t] # NoRow
    /\ at < sessions[t].expires
    /\ sessions[t].rotated = NotRotated
    /\ s \notin issued
    /\ sessions' = [sessions EXCEPT ![s] = Successor(t), ![t].rotated = at]
    /\ issued' = issued \cup {s}
    /\ UNCHANGED <<pairings, asked>>

\* Mutant of RotateFirst: the token itself is retired, before anybody has its successor.
RotateFirstAtOnce(t, s, at) ==
    /\ Live(t)
    /\ at < sessions[t].expires
    /\ sessions[t].rotated = NotRotated
    /\ s \notin issued
    /\ sessions' = [sessions EXCEPT ![s] = Successor(t),
                                   ![t] = [@ EXCEPT !.rotated = at, !.revoked = TRUE]]
    /\ issued' = issued \cup {s}
    /\ UNCHANGED <<pairings, asked>>

\* A token used for the first time: its use is the proof that its client has it,
\* so the token it replaced is retired.
RotateFirst(t, s, at) ==
    /\ Live(t)
    /\ at < sessions[t].expires
    /\ sessions[t].rotated = NotRotated
    /\ s \notin issued
    /\ sessions' = [u \in Token |->
            IF u = s THEN Successor(t)
            ELSE IF u = t THEN [sessions[t] EXCEPT !.rotated = at]
            ELSE IF u = sessions[t].pred /\ sessions[u] # NoRow
                 THEN [sessions[u] EXCEPT !.revoked = TRUE]
            ELSE sessions[u]]
    /\ issued' = issued \cup {s}
    /\ UNCHANGED <<pairings, asked>>

\* Mutants of RotateAgain: the successor nobody received stays, and the retry
\* writes its own instant over the first one.
RotateAgainKeepingBoth(t, s, at) ==
    /\ Live(t)
    /\ at < sessions[t].expires
    /\ sessions[t].rotated # NotRotated
    /\ at <= sessions[t].rotated + Grace
    /\ s \notin issued
    /\ sessions' = [sessions EXCEPT ![s] = Successor(t)]
    /\ issued' = issued \cup {s}
    /\ UNCHANGED <<pairings, asked>>

RotateAgainFromNow(t, s, at) ==
    /\ Live(t)
    /\ at < sessions[t].expires
    /\ sessions[t].rotated # NotRotated
    /\ at <= sessions[t].rotated + Grace
    /\ s \notin issued
    /\ sessions' = [sessions EXCEPT ![s] = Successor(t), ![t].rotated = at]
    /\ issued' = issued \cup {s}
    /\ UNCHANGED <<pairings, asked>>

\* The answer of the first rotation was lost: inside the grace, the successor
\* that nobody received is dropped and another is issued.
RotateAgain(t, s, at) ==
    /\ Live(t)
    /\ at < sessions[t].expires
    /\ sessions[t].rotated # NotRotated
    /\ at <= sessions[t].rotated + Grace
    /\ s \notin issued
    /\ sessions' = [u \in Token |->
            IF u = s THEN Successor(t)
            ELSE IF u \in Chain(sessions[t].root) \ {t}
                 THEN [sessions[u] EXCEPT !.revoked = TRUE]
            ELSE sessions[u]]
    /\ issued' = issued \cup {s}
    /\ UNCHANGED <<pairings, asked>>

\* Past the grace the client gave up, and so does the store.
RotateLate(t, at) ==
    /\ Live(t)
    /\ at < sessions[t].expires
    /\ sessions[t].rotated # NotRotated
    /\ at > sessions[t].rotated + Grace
    /\ sessions' = Revoking(Chain(sessions[t].root))
    /\ UNCHANGED <<pairings, issued, asked>>

\* A revoked token whose chain still has a live one: two parties hold tokens of
\* one chain, and the chain goes.
RotateReplay(t, at) ==
    /\ sessions[t] # NoRow
    /\ sessions[t].revoked
    /\ at < sessions[t].expires
    /\ \E u \in Chain(sessions[t].root) : Live(u)
    /\ sessions' = Revoking(Chain(sessions[t].root))
    /\ UNCHANGED <<pairings, issued, asked>>

\* A log out ends the whole chain, from any of its tokens.
RevokeSession(t) ==
    /\ sessions[t] # NoRow
    /\ sessions' = Revoking(Chain(sessions[t].root))
    /\ UNCHANGED <<pairings, issued, asked>>

\* endSessionsOf takes time.  What it finds when it starts is what it must end.
EndSessionsCalled(c, who) ==
    /\ ending[c] = Nothing
    /\ ending' = [ending EXCEPT ![c] =
            [who |-> who, chains |-> ChainsOf(who), codes |-> CodesOf(who)]]
    /\ UNCHANGED <<tables, issued, renaming>>

\* Mutant of EndSessionsOf: the heads alone are ended.
EndHeadsOf(c) ==
    /\ ending[c] # Nothing
    /\ sessions' = Revoking(SessionsOf(ending[c].who) \cap ending[c].chains)
    /\ pairings' = Spending(ending[c].codes \cap CodesOf(ending[c].who))
    /\ ending' = [ending EXCEPT ![c] = Nothing]
    /\ UNCHANGED <<issued, renaming>>

\* It ends every chain it found, spends every code it found, and may end what
\* opened meanwhile: a session bought meanwhile with a code it found may stay.
EndSessionsOf(c) ==
    /\ ending[c] # Nothing
    /\ \E gone \in SUBSET SessionsOf(ending[c].who) :
          \E spent \in SUBSET CodesOf(ending[c].who) :
            /\ {t \in SessionsOf(ending[c].who) : sessions[t].root \in ending[c].chains}
                  \subseteq gone
            /\ ending[c].codes \cap CodesOf(ending[c].who) \subseteq spent
            /\ sessions' = Revoking(gone)
            /\ pairings' = Spending(spent)
    /\ ending' = [ending EXCEPT ![c] = Nothing]
    /\ UNCHANGED <<issued, renaming>>

\* The database refused the transaction: nothing was ended, and the caller is told.
EndSessionsFailed(c) ==
    /\ ending[c] # Nothing
    /\ ending' = [ending EXCEPT ![c] = Nothing]
    /\ UNCHANGED <<tables, issued, renaming>>

\* What a rename writes: what lives at its instant, sessions and codes.
Renamable(call) ==
    {t \in SessionsOf(call.who) : ~sessions[t].revoked /\ call.at < sessions[t].expires}

Waiting(call) ==
    {k \in CodesOf(call.who) : ~pairings[k].redeemed /\ call.at < pairings[k].expires}

\* The session was there when the call started, or its code was.
Found(t, call) == sessions[t].root \in call.chains \/ sessions[t].code \in call.codes

RenameSessionsCalled(c, who, n, at) ==
    /\ renaming[c] = Nothing
    /\ renaming' = [renaming EXCEPT ![c] =
            [who |-> who, chains |-> ChainsOf(who), codes |-> CodesOf(who),
             name |-> n, at |-> at]]
    /\ UNCHANGED <<tables, issued, ending>>

\* The name goes on every live session of the chains it found, on every session
\* bought with a code it found, and on every code it found that still waits.
RenameSessionsOf(c) ==
    /\ renaming[c] # Nothing
    /\ \E named \in SUBSET Renamable(renaming[c]) :
          \E written \in SUBSET Waiting(renaming[c]) :
            /\ {t \in Renamable(renaming[c]) : Found(t, renaming[c])} \subseteq named
            /\ renaming[c].codes \cap Waiting(renaming[c]) \subseteq written
            /\ sessions' = [t \in Token |->
                    IF t \in named THEN [sessions[t] EXCEPT !.name = renaming[c].name]
                                   ELSE sessions[t]]
            /\ pairings' = [k \in Code |->
                    IF k \in written THEN [pairings[k] EXCEPT !.name = renaming[c].name]
                                     ELSE pairings[k]]
    /\ renaming' = [renaming EXCEPT ![c] = Nothing]
    /\ UNCHANGED <<issued, ending>>

RenameSessionsFailed(c) ==
    /\ renaming[c] # Nothing
    /\ renaming' = [renaming EXCEPT ![c] = Nothing]
    /\ UNCHANGED <<tables, issued, ending>>

\* Drops rows that are expired, and no other.  Revoked rows stay until then.
Purge(at) ==
    /\ \E gone \in SUBSET {t \in Token : sessions[t] # NoRow /\ sessions[t].expires <= at} :
          sessions' = [t \in Token |-> IF t \in gone THEN NoRow ELSE sessions[t]]
    /\ \E gone \in SUBSET {k \in Code : pairings[k] # NoRow /\ pairings[k].expires <= at} :
          pairings' = [k \in Code |-> IF k \in gone THEN NoRow ELSE pairings[k]]
    /\ UNCHANGED <<issued, asked>>

Next ==
    \/ \E k \in Code, p \in Person, n \in Name, at \in Instant : CreatePairing(k, p, n, at)
    \/ \E k \in Code, t \in Token, at \in Instant : RedeemPairing(k, t, at)
    \/ \E t \in Token, s \in Token, at \in Instant : RotateFirst(t, s, at)
    \/ \E t \in Token, s \in Token, at \in Instant : RotateAgain(t, s, at)
    \/ \E t \in Token, at \in Instant : RotateLate(t, at)
    \/ \E t \in Token, at \in Instant : RotateReplay(t, at)
    \/ \E t \in Token : RevokeSession(t)
    \/ \E c \in Caller, who \in Scope : EndSessionsCalled(c, who)
    \/ \E c \in Caller : EndSessionsOf(c)
    \/ \E c \in Caller : EndSessionsFailed(c)
    \/ \E c \in Caller, who \in Scope, n \in Name, at \in Instant :
          RenameSessionsCalled(c, who, n, at)
    \/ \E c \in Caller : RenameSessionsOf(c)
    \/ \E c \in Caller : RenameSessionsFailed(c)
    \/ \E at \in Instant : Purge(at)

Spec == Init /\ [][Next]_vars

-----------------------------------------------------------------------------
\* The tokens of a chain agree on the person and on the expiry, however many
\* refreshes ago the chain began: endSessionsOf reaches a chain by the person of
\* its head, and no rotation extends a session.
ChainsAgree ==
    \A t, u \in Token :
        sessions[t] # NoRow /\ sessions[u] # NoRow /\ sessions[t].root = sessions[u].root
            => /\ sessions[t].subject = sessions[u].subject
               /\ sessions[t].expires = sessions[u].expires

\* Two live tokens of one chain are a token and the successor it was answered
\* with: a client holds one of the two, whichever answer it received.  There are
\* never two live successors of one token ("so this token never has two live
\* ones"), nor three live tokens.
LiveTokensArePairs ==
    \A t, u \in Token :
        Live(t) /\ Live(u) /\ sessions[t].root = sessions[u].root /\ t # u
            => sessions[t].pred = u \/ sessions[u].pred = t

Ended(r) == \A t \in Token : Live(t) => sessions[t].root # r

\* No refresh, replay or rename revives a session that ended, in any order of
\* calls and of the instants they carry.
EndedStaysEnded == [][\A r \in Token \cap issued : Ended(r) => Ended(r)']_vars

\* The grace is counted from the first rotation: a retry does not restart it.
GraceStartsOnce ==
    [][\A t \in Token :
          sessions[t] # NoRow /\ sessions'[t] # NoRow /\ sessions[t].rotated # NotRotated
              => sessions'[t].rotated = sessions[t].rotated]_vars

\* When endSessionsOf answers, every session it found has ended, the successors
\* that rotations issued while it ran included.
EndingEnds ==
    [][\A c \in Caller : EndSessionsOf(c) => \A r \in ending[c].chains : Ended(r)']_vars
=============================================================================
