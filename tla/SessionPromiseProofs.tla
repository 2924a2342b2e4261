------------------------ MODULE SessionPromiseProofs ------------------------
(***************************************************************************)
(* Proofs about SessionPromise for every set of tokens, codes and calls.   *)
(*                                                                          *)
(* The argument has one idea.  A step KEEPS every digest issued before it:  *)
(* the row may go or be revoked, and its person, expiry, root, predecessor  *)
(* and first rotation never change.  The only other row a step may write is *)
(* one it DRAWS: a new head, or the successor of a live token.              *)
(***************************************************************************)
EXTENDS SessionPromise, TLAPS

Keeps(t) ==
    sessions'[t] # NoRow =>
        /\ sessions[t] # NoRow
        /\ sessions'[t].subject = sessions[t].subject
        /\ sessions'[t].expires = sessions[t].expires
        /\ sessions'[t].root = sessions[t].root
        /\ sessions'[t].pred = sessions[t].pred
        /\ sessions[t].rotated # NotRotated => sessions'[t].rotated = sessions[t].rotated
        /\ sessions[t].revoked => sessions'[t].revoked

KeepsAll == \A t \in Token : Keeps(t)

-----------------------------------------------------------------------------
\* A row that is revoked stays a row.
LEMMA RevokedType ==
    ASSUME TypeOK, NEW t \in Token, sessions[t] # NoRow
    PROVE  [sessions[t] EXCEPT !.revoked = TRUE] \in SessionRow
<1>1. sessions[t] \in SessionRow
  BY DEF TypeOK
<1> QED BY <1>1 DEF SessionRow

\* The successor of a token is a row.
LEMMA SuccessorType ==
    ASSUME TypeOK, NEW t \in Token, sessions[t] # NoRow
    PROVE  Successor(t) \in SessionRow
<1>1. sessions[t] \in SessionRow
  BY DEF TypeOK
<1> DEFINE named == [sessions[t] EXCEPT !.pred = t]
           fresh == [named EXCEPT !.rotated = NotRotated]
<1>2. named \in SessionRow
  BY <1>1 DEF SessionRow
<1>3. NotRotated \in Int
  BY DEF NotRotated
<1>4. Successor(t) = [fresh EXCEPT !.revoked = FALSE]
  BY DEF Successor
<1> HIDE DEF named
<1>5. fresh \in SessionRow
  BY <1>2, <1>3 DEF SessionRow
<1> HIDE DEF fresh
<1> QED BY <1>4, <1>5 DEF SessionRow

\* Marking rows as revoked leaves a table of rows.
LEMMA RevokingType ==
    ASSUME TypeOK, NEW gone \in SUBSET {t \in Token : sessions[t] # NoRow}
    PROVE  Revoking(gone) \in [Token -> SessionRow \cup {NoRow}]
<1> SUFFICES ASSUME NEW t \in Token
             PROVE  Revoking(gone)[t] \in SessionRow \cup {NoRow}
  BY DEF Revoking
<1>1. sessions[t] \in SessionRow \cup {NoRow}
  BY DEF TypeOK
<1>2. CASE t \in gone
  <2>1. sessions[t] \in SessionRow
    BY <1>1, <1>2
  <2>2. [sessions[t] EXCEPT !.revoked = TRUE] \in SessionRow
    BY <2>1 DEF SessionRow
  <2> QED BY <1>2, <2>2 DEF Revoking
<1>3. CASE t \notin gone
  BY <1>1, <1>3 DEF Revoking
<1> QED BY <1>2, <1>3

\* Marking codes as redeemed leaves a table of codes.
LEMMA SpendingType ==
    ASSUME TypeOK, NEW gone \in SUBSET {k \in Code : pairings[k] # NoRow}
    PROVE  Spending(gone) \in [Code -> PairingRow \cup {NoRow}]
  BY DEF Spending, TypeOK, PairingRow

\* A chain is made of rows.
LEMMA ChainType ==
    ASSUME TypeOK, NEW r
    PROVE  Chain(r) \in SUBSET {t \in Token : sessions[t] # NoRow}
  BY DEF Chain

\* The empty tables are tables of rows.
LEMMA TypeInit == Init => TypeOK
  BY NothingAssumption DEF Init, TypeOK

\* The tables stay tables of rows at every step.
LEMMA TypeStep == TypeOK /\ [Next]_vars => TypeOK'
<1> SUFFICES ASSUME TypeOK, [Next]_vars PROVE TypeOK'
  OBVIOUS
<1> USE TimeAssumption, NoRowAssumption, ScopeAssumption, NoTokenAssumption, NothingAssumption
<1>1. ASSUME NEW k \in Code, NEW p \in Person, NEW n \in Name, NEW at \in Instant,
             CreatePairing(k, p, n, at)
      PROVE  TypeOK'
  BY <1>1 DEF CreatePairing, TypeOK, PairingRow, asked
<1>2. ASSUME NEW k \in Code, NEW t \in Token, NEW at \in Instant, RedeemPairing(k, t, at)
      PROVE  TypeOK'
  <2>1. Spending({k}) \in [Code -> PairingRow \cup {NoRow}]
    BY <1>2, SpendingType DEF RedeemPairing
  <2>2. sessions' \in [Token -> SessionRow \cup {NoRow}]
    BY <1>2 DEF RedeemPairing, TypeOK, SessionRow, PairingRow, NotRotated
  <2> QED BY <1>2, <2>1, <2>2 DEF RedeemPairing, TypeOK, asked
<1>3. ASSUME NEW t \in Token, NEW s \in Token, NEW at \in Instant, RotateFirst(t, s, at)
      PROVE  TypeOK'
  <2>1. Successor(t) \in SessionRow
    BY <1>3, SuccessorType DEF RotateFirst, Live
  <2>2. [sessions[t] EXCEPT !.rotated = at] \in SessionRow
    BY <1>3 DEF RotateFirst, Live, TypeOK, SessionRow
  <2>3. sessions' \in [Token -> SessionRow \cup {NoRow}]
    BY <1>3, <2>1, <2>2, RevokedType DEF RotateFirst, TypeOK
  <2> QED BY <1>3, <2>3 DEF RotateFirst, TypeOK, asked
<1>4. ASSUME NEW t \in Token, NEW s \in Token, NEW at \in Instant, RotateAgain(t, s, at)
      PROVE  TypeOK'
  <2>1. Successor(t) \in SessionRow
    BY <1>4, SuccessorType DEF RotateAgain, Live
  <2>2. sessions' \in [Token -> SessionRow \cup {NoRow}]
    BY <1>4, <2>1, RevokedType DEF RotateAgain, Chain, TypeOK
  <2> QED BY <1>4, <2>2 DEF RotateAgain, TypeOK, asked
<1>5. ASSUME NEW t \in Token, NEW at \in Instant, RotateLate(t, at) \/ RotateReplay(t, at)
      PROVE  TypeOK'
  BY <1>5, RevokingType, ChainType DEF RotateLate, RotateReplay, TypeOK, asked
<1>6. ASSUME NEW t \in Token, RevokeSession(t)
      PROVE  TypeOK'
  BY <1>6, RevokingType, ChainType DEF RevokeSession, TypeOK, asked
<1>7. ASSUME NEW c \in Caller, NEW who \in Scope, EndSessionsCalled(c, who)
      PROVE  TypeOK'
  <2>1. ChainsOf(who) \subseteq Token /\ CodesOf(who) \subseteq Code
    BY DEF ChainsOf, CodesOf, SessionsOf, TypeOK, SessionRow
  <2> QED BY <1>7, <2>1 DEF EndSessionsCalled, TypeOK, EndCall, tables
<1>8. ASSUME NEW c \in Caller, EndSessionsOf(c)
      PROVE  TypeOK'
  <2>1. PICK gone \in SUBSET SessionsOf(ending[c].who), spent \in SUBSET CodesOf(ending[c].who) :
            sessions' = Revoking(gone) /\ pairings' = Spending(spent)
    BY <1>8 DEF EndSessionsOf
  <2>2. sessions' \in [Token -> SessionRow \cup {NoRow}]
    BY <2>1, RevokingType DEF SessionsOf
  <2>3. pairings' \in [Code -> PairingRow \cup {NoRow}]
    BY <2>1, SpendingType DEF CodesOf
  <2> QED BY <1>8, <2>2, <2>3 DEF EndSessionsOf, TypeOK
<1>9. ASSUME NEW c \in Caller, EndSessionsFailed(c) \/ RenameSessionsFailed(c)
      PROVE  TypeOK'
  BY <1>9 DEF EndSessionsFailed, RenameSessionsFailed, TypeOK, tables
<1>10. ASSUME NEW c \in Caller, NEW who \in Scope, NEW n \in Name, NEW at \in Instant,
              RenameSessionsCalled(c, who, n, at)
       PROVE  TypeOK'
  <2>1. ChainsOf(who) \subseteq Token /\ CodesOf(who) \subseteq Code
    BY DEF ChainsOf, CodesOf, SessionsOf, TypeOK, SessionRow
  <2> QED BY <1>10, <2>1 DEF RenameSessionsCalled, TypeOK, RenameCall, tables
<1>11. ASSUME NEW c \in Caller, RenameSessionsOf(c)
       PROVE  TypeOK'
  <2> DEFINE n == renaming[c].name
  <2>1. n \in Name
    BY <1>11 DEF RenameSessionsOf, TypeOK, RenameCall
  <2>2. PICK named \in SUBSET Renamable(renaming[c]), written \in SUBSET Waiting(renaming[c]) :
          /\ sessions' = [t \in Token |-> IF t \in named THEN [sessions[t] EXCEPT !.name = n]
                                                          ELSE sessions[t]]
          /\ pairings' = [k \in Code |-> IF k \in written THEN [pairings[k] EXCEPT !.name = n]
                                                           ELSE pairings[k]]
    BY <1>11 DEF RenameSessionsOf
  <2> HIDE DEF n
  <2>3. sessions' \in [Token -> SessionRow \cup {NoRow}]
    BY <2>1, <2>2 DEF Renamable, SessionsOf, TypeOK, SessionRow
  <2>4. pairings' \in [Code -> PairingRow \cup {NoRow}]
    BY <2>1, <2>2 DEF Waiting, CodesOf, TypeOK, PairingRow
  <2> QED BY <1>11, <2>3, <2>4 DEF RenameSessionsOf, TypeOK
<1>12. ASSUME NEW at \in Instant, Purge(at)
       PROVE  TypeOK'
  <2>1. sessions' \in [Token -> SessionRow \cup {NoRow}]
    BY <1>12 DEF Purge, TypeOK
  <2>2. pairings' \in [Code -> PairingRow \cup {NoRow}]
    BY <1>12 DEF Purge, TypeOK
  <2> QED BY <1>12, <2>1, <2>2 DEF Purge, TypeOK, asked
<1>13. CASE UNCHANGED vars
  BY <1>13 DEF vars, TypeOK
<1> QED
  BY <1>1, <1>2, <1>3, <1>4, <1>5, <1>6, <1>7, <1>8, <1>9, <1>10, <1>11, <1>12, <1>13
  DEF Next

\* The type invariant of SessionPromise.
THEOREM TypeCorrect == Spec => []TypeOK
  BY TypeInit, TypeStep, PTL DEF Spec

-----------------------------------------------------------------------------
(* What a step draws.                                                       *)

\* What a new chain or a new successor relies on: no row, no root and no
\* predecessor has a digest that is still to be drawn.
DigestsAreIssued ==
    \A t \in Token : sessions[t] # NoRow =>
        /\ t \in issued
        /\ sessions[t].root \in issued
        /\ sessions[t].pred \in issued \cup {NoToken}

\* A token with a successor was rotated, so the grace on it has started.
SuccessorsFollowRotation ==
    \A t, s \in Token :
        sessions[t] # NoRow /\ sessions[s] # NoRow /\ sessions[s].pred = t
            => sessions[t].rotated # NotRotated

IInv == /\ TypeOK
        /\ DigestsAreIssued
        /\ ChainsAgree
        /\ SuccessorsFollowRotation
        /\ LiveTokensArePairs

DrawsHead(s) ==
    /\ sessions'[s] # NoRow
    /\ sessions'[s].root = s
    /\ sessions'[s].pred = NoToken

\* The successor of t is drawn, and only t and it are live in their chain.
DrawsSuccessor(t, s) ==
    /\ Live(t)
    /\ sessions'[t] # NoRow
    /\ sessions'[t].rotated # NotRotated
    /\ sessions'[s] # NoRow
    /\ sessions'[s].root = sessions[t].root
    /\ sessions'[s].pred = t
    /\ sessions'[s].subject = sessions[t].subject
    /\ sessions'[s].expires = sessions[t].expires
    /\ \A u \in Token : Live(u)' /\ sessions'[u].root = sessions[t].root => u \in {t, s}

Draws(s) ==
    /\ s \notin issued
    /\ \A u \in Token \ {s} : Keeps(u)
    /\ issued' = issued \cup {s}
    /\ DrawsHead(s) \/ \E t \in Token : DrawsSuccessor(t, s)

\* A digest that is still to be drawn has no row.
LEMMA FreshHasNoRow ==
    ASSUME DigestsAreIssued, NEW s \in Token, s \notin issued
    PROVE  sessions[s] = NoRow
  BY DEF DigestsAreIssued

\* Marking rows of any kind keeps every row.
LEMMA RevokingKeeps ==
    ASSUME TypeOK, NEW gone \in SUBSET {t \in Token : sessions[t] # NoRow},
           sessions' = Revoking(gone)
    PROVE  KeepsAll
<1> SUFFICES ASSUME NEW t \in Token, sessions'[t] # NoRow PROVE Keeps(t)
  BY DEF KeepsAll, Keeps
<1>1. CASE t \in gone
  <2>1. sessions[t] \in SessionRow
    BY <1>1 DEF TypeOK
  <2>2. sessions'[t] = [sessions[t] EXCEPT !.revoked = TRUE]
    BY <1>1 DEF Revoking
  <2> QED BY <1>1, <2>1, <2>2 DEF Keeps, SessionRow
<1>2. CASE t \notin gone
  BY <1>2 DEF Revoking, Keeps
<1> QED BY <1>1, <1>2

\* A first rotation leaves the token and its successor live, and nothing else of
\* the chain: a live token paired with t is its predecessor, which is retired,
\* or its successor, and then t was rotated before.
LEMMA RotateFirstDraws ==
    ASSUME IInv, NEW t \in Token, NEW s \in Token, NEW at \in Instant, RotateFirst(t, s, at)
    PROVE  Draws(s)
<1> USE DEF IInv
<1>1. /\ s # t /\ s \notin issued /\ sessions[s] = NoRow
      /\ Live(t) /\ sessions[t] \in SessionRow /\ sessions[t].rotated = NotRotated
  BY FreshHasNoRow DEF RotateFirst, Live, TypeOK
<1>2. sessions'[s] = Successor(t)
  BY DEF RotateFirst
<1>3. sessions'[t] = [sessions[t] EXCEPT !.rotated = at] /\ sessions'[t].rotated # NotRotated
  BY <1>1, TimeAssumption DEF RotateFirst, NotRotated, SessionRow
<1>4. ASSUME NEW u \in Token, u # s, u # t
      PROVE  \/ sessions'[u] = sessions[u] /\ u # sessions[t].pred
             \/ sessions[u] # NoRow /\ sessions'[u] = [sessions[u] EXCEPT !.revoked = TRUE]
             \/ sessions[u] = NoRow /\ sessions'[u] = NoRow
  BY <1>4 DEF RotateFirst
<1>5. ASSUME NEW u \in Token, u # s PROVE Keeps(u)
  <2>1. CASE u = t
    BY <1>1, <1>3, <2>1 DEF Keeps, Live, SessionRow
  <2>2. CASE u # t
    <3>1. sessions[u] # NoRow => sessions[u] \in SessionRow
      BY DEF TypeOK
    <3> QED BY <1>4, <1>5, <2>2, <3>1 DEF Keeps, SessionRow
  <2> QED BY <2>1, <2>2
<1>6. /\ sessions'[s] # NoRow
      /\ sessions'[s].root = sessions[t].root
      /\ sessions'[s].pred = t
      /\ sessions'[s].subject = sessions[t].subject
      /\ sessions'[s].expires = sessions[t].expires
  <2>1. Successor(t) \in SessionRow
    BY <1>1, SuccessorType DEF Live
  <2> QED BY <1>1, <1>2, <2>1, NoRowAssumption DEF Successor, SessionRow
<1>7. ASSUME NEW u \in Token, Live(u)', sessions'[u].root = sessions[t].root, u # t, u # s
      PROVE  FALSE
  <2>1. sessions[u] # NoRow /\ Keeps(u)
    BY <1>4, <1>5, <1>7 DEF Live
  <2>2. sessions[u] \in SessionRow
    BY <2>1 DEF TypeOK
  <2>3. Live(u) /\ sessions[u].root = sessions[t].root
    BY <1>7, <2>1, <2>2 DEF Live, Keeps, SessionRow
  <2>4. sessions[u].pred # t
    BY <1>1, <2>1 DEF SuccessorsFollowRotation, RotateFirst, Live
  <2>5. sessions[t].pred = u
    BY <1>1, <1>7, <2>3, <2>4 DEF LiveTokensArePairs
  <2>6. sessions'[u] = [sessions[u] EXCEPT !.revoked = TRUE]
    BY <1>4, <1>7, <2>1, <2>5
  <2> QED BY <1>7, <2>2, <2>6 DEF Live, SessionRow
<1>8. sessions'[t] # NoRow
  <2>1. [sessions[t] EXCEPT !.rotated = at] \in SessionRow
    BY <1>1, TimeAssumption DEF SessionRow
  <2> QED BY <1>3, <2>1, NoRowAssumption
<1> QED
  BY <1>1, <1>3, <1>5, <1>6, <1>7, <1>8 DEF Draws, DrawsSuccessor, RotateFirst

\* A retry inside the grace revokes the rest of the chain before it draws.
LEMMA RotateAgainDraws ==
    ASSUME IInv, NEW t \in Token, NEW s \in Token, NEW at \in Instant, RotateAgain(t, s, at)
    PROVE  Draws(s)
<1> USE DEF IInv
<1>1. /\ s # t /\ s \notin issued /\ sessions[s] = NoRow
      /\ Live(t) /\ sessions[t] \in SessionRow /\ sessions[t].rotated # NotRotated
  BY FreshHasNoRow DEF RotateAgain, Live, TypeOK
<1>2. sessions'[s] = Successor(t)
  BY DEF RotateAgain
<1>3. sessions'[t] = sessions[t]
  BY <1>1 DEF RotateAgain
<1>4. ASSUME NEW u \in Token, u # s, u # t
      PROVE  \/ sessions'[u] = sessions[u] /\ u \notin Chain(sessions[t].root)
             \/ sessions[u] # NoRow /\ sessions'[u] = [sessions[u] EXCEPT !.revoked = TRUE]
  BY <1>4 DEF RotateAgain, Chain
<1>5. ASSUME NEW u \in Token, u # s PROVE Keeps(u)
  <2>1. CASE u = t
    BY <1>3, <2>1 DEF Keeps
  <2>2. CASE u # t
    <3>1. sessions[u] # NoRow => sessions[u] \in SessionRow
      BY DEF TypeOK
    <3> QED BY <1>4, <1>5, <2>2, <3>1 DEF Keeps, SessionRow
  <2> QED BY <2>1, <2>2
<1>6. /\ sessions'[s] # NoRow
      /\ sessions'[s].root = sessions[t].root
      /\ sessions'[s].pred = t
      /\ sessions'[s].subject = sessions[t].subject
      /\ sessions'[s].expires = sessions[t].expires
  <2>1. Successor(t) \in SessionRow
    BY <1>1, SuccessorType DEF Live
  <2> QED BY <1>1, <1>2, <2>1, NoRowAssumption DEF Successor, SessionRow
<1>7. ASSUME NEW u \in Token, Live(u)', sessions'[u].root = sessions[t].root, u # t, u # s
      PROVE  FALSE
  <2>1. sessions[u] # NoRow /\ Keeps(u)
    BY <1>5, <1>7 DEF Live, Keeps
  <2>2. sessions[u] \in SessionRow
    BY <2>1 DEF TypeOK
  <2>3. u \in Chain(sessions[t].root)
    BY <1>7, <2>1 DEF Live, Keeps, Chain
  <2>4. sessions'[u] = [sessions[u] EXCEPT !.revoked = TRUE]
    BY <1>4, <1>7, <2>3
  <2> QED BY <1>7, <2>2, <2>4 DEF Live, SessionRow
<1> QED
  BY <1>1, <1>3, <1>5, <1>6, <1>7 DEF Draws, DrawsSuccessor, RotateAgain, Live

\* A redemption draws the head of a new chain.
LEMMA RedeemDraws ==
    ASSUME IInv, NEW k \in Code, NEW t \in Token, NEW at \in Instant, RedeemPairing(k, t, at)
    PROVE  Draws(t)
<1> DEFINE head == [subject |-> pairings[k].subject, name |-> pairings[k].name,
                    expires |-> at + SessionTtl, revoked |-> FALSE,
                    rotated |-> NotRotated, pred |-> NoToken, root |-> t, code |-> k]
<1>1. head \in SessionRow
  BY TimeAssumption DEF RedeemPairing, IInv, TypeOK, SessionRow, PairingRow, NotRotated
<1>2. sessions'[t] = head /\ \A u \in Token \ {t} : sessions'[u] = sessions[u]
  BY DEF RedeemPairing, IInv, TypeOK
<1>3. head.root = t /\ head.pred = NoToken
  OBVIOUS
<1>4. \A u \in Token \ {t} : Keeps(u)
  BY <1>2 DEF Keeps
<1> HIDE DEF head
<1>5. DrawsHead(t)
  BY <1>1, <1>2, <1>3, NoRowAssumption DEF DrawsHead
<1> QED BY <1>4, <1>5 DEF RedeemPairing, Draws

\* Every step keeps the rows there are, and draws at most one.
LEMMA StepDraws ==
    ASSUME IInv, [Next]_vars
    PROVE  \/ KeepsAll /\ issued \subseteq issued'
           \/ \E s \in Token : Draws(s)
<1> USE DEF IInv
<1> DEFINE Kept == KeepsAll /\ issued \subseteq issued'
           Drawn == \E s \in Token : Draws(s)
<1>0. ASSUME sessions' = sessions PROVE KeepsAll
  BY <1>0 DEF KeepsAll, Keeps
<1>1. ASSUME NEW k \in Code, NEW p \in Person, NEW n \in Name, NEW at \in Instant,
             CreatePairing(k, p, n, at)
      PROVE  Kept
  BY <1>0, <1>1 DEF CreatePairing
<1>2. ASSUME NEW k \in Code, NEW t \in Token, NEW at \in Instant, RedeemPairing(k, t, at)
      PROVE  Drawn
  BY <1>2, RedeemDraws
<1>3. ASSUME NEW t \in Token, NEW s \in Token, NEW at \in Instant,
             RotateFirst(t, s, at) \/ RotateAgain(t, s, at)
      PROVE  Drawn
  BY <1>3, RotateFirstDraws, RotateAgainDraws
<1>4. ASSUME NEW t \in Token, NEW at \in Instant,
             RotateLate(t, at) \/ RotateReplay(t, at)
      PROVE  Kept
  BY <1>4, RevokingKeeps, ChainType DEF RotateLate, RotateReplay
<1>5. ASSUME NEW c \in Caller, EndSessionsOf(c)
      PROVE  Kept
  <2>1. PICK gone \in SUBSET SessionsOf(ending[c].who) : sessions' = Revoking(gone)
    BY <1>5 DEF EndSessionsOf
  <2> QED BY <1>5, <2>1, RevokingKeeps DEF EndSessionsOf, SessionsOf
<1>6. ASSUME NEW c \in Caller, RenameSessionsOf(c)
      PROVE  Kept
  <2>1. PICK named \in SUBSET Renamable(renaming[c]) :
          sessions' = [t \in Token |->
                IF t \in named THEN [sessions[t] EXCEPT !.name = renaming[c].name]
                               ELSE sessions[t]]
    BY <1>6 DEF RenameSessionsOf
  <2>2. ASSUME NEW t \in Token PROVE Keeps(t)
    <3>1. CASE t \in named
      <4>1. sessions[t] \in SessionRow /\ sessions[t] # NoRow
        BY <3>1 DEF Renamable, SessionsOf, TypeOK
      <4> DEFINE n == renaming[c].name
      <4>2. sessions'[t] = [sessions[t] EXCEPT !.name = n]
        BY <2>1, <3>1
      <4> HIDE DEF n
      <4> QED BY <4>1, <4>2 DEF Keeps, SessionRow
    <3>2. CASE t \notin named
      BY <2>1, <3>2 DEF Keeps
    <3> QED BY <3>1, <3>2
  <2> QED BY <1>6, <2>2 DEF RenameSessionsOf, KeepsAll
<1>7. ASSUME NEW at \in Instant, Purge(at)
      PROVE  Kept
  BY <1>7 DEF Purge, KeepsAll, Keeps
<1>8. ASSUME NEW c \in Caller,
             EndSessionsFailed(c) \/ RenameSessionsFailed(c)
      PROVE  Kept
  BY <1>0, <1>8 DEF EndSessionsFailed, RenameSessionsFailed, tables
<1>9. ASSUME NEW c \in Caller, NEW who \in Scope, EndSessionsCalled(c, who)
       PROVE  Kept
  BY <1>0, <1>9 DEF EndSessionsCalled, tables
<1>10. ASSUME NEW c \in Caller, NEW who \in Scope, NEW n \in Name, NEW at \in Instant,
              RenameSessionsCalled(c, who, n, at)
       PROVE  Kept
  BY <1>0, <1>10 DEF RenameSessionsCalled, tables
<1>11. ASSUME UNCHANGED vars
      PROVE  Kept
  BY <1>0, <1>11 DEF vars
<1>12. ASSUME NEW t \in Token, RevokeSession(t)
       PROVE  Kept
  BY <1>12, RevokingKeeps, ChainType DEF RevokeSession
<1> DEFINE Goal == Kept \/ Drawn
<1> HIDE DEF Kept, Drawn
<1>13. ASSUME \/ \E k \in Code, p \in Person, n \in Name, at \in Instant :
                    CreatePairing(k, p, n, at)
              \/ \E k \in Code, t \in Token, at \in Instant : RedeemPairing(k, t, at)
              \/ \E at \in Instant : Purge(at)
       PROVE  Goal
  BY <1>1, <1>2, <1>7, <1>13
<1>14. ASSUME \/ \E t \in Token, s \in Token, at \in Instant :
                    RotateFirst(t, s, at) \/ RotateAgain(t, s, at)
              \/ \E t \in Token, at \in Instant : RotateLate(t, at) \/ RotateReplay(t, at)
              \/ \E t \in Token : RevokeSession(t)
       PROVE  Goal
  BY <1>3, <1>4, <1>12, <1>14
<1>15. ASSUME NEW c \in Caller,
              \/ EndSessionsOf(c) \/ EndSessionsFailed(c)
              \/ RenameSessionsOf(c) \/ RenameSessionsFailed(c)
              \/ \E who \in Scope : EndSessionsCalled(c, who)
              \/ \E who \in Scope, n \in Name, at \in Instant :
                    RenameSessionsCalled(c, who, n, at)
       PROVE  Goal
  BY <1>5, <1>6, <1>8, <1>9, <1>10, <1>15
<1> HIDE DEF Goal
<1>16. ASSUME Next PROVE Goal
  BY <1>13, <1>14, <1>15, <1>16 DEF Next
<1>17. Goal
  BY <1>11, <1>16 DEF Goal
<1> QED BY <1>17 DEF Goal, Kept, Drawn

-----------------------------------------------------------------------------
(* The inductive invariant, one part at a time.                             *)

\* A row is only ever under a digest that was drawn.
LEMMA DigestsStep ==
    ASSUME IInv, TypeOK', [Next]_vars
    PROVE  DigestsAreIssued'
<1> USE DEF IInv
<1>1. SUFFICES ASSUME NEW u \in Token, sessions'[u] # NoRow
               PROVE  /\ u \in issued'
                      /\ sessions'[u].root \in issued'
                      /\ sessions'[u].pred \in issued' \cup {NoToken}
  BY DEF DigestsAreIssued
<1>2. ASSUME Keeps(u), issued \subseteq issued'
      PROVE  /\ u \in issued'
             /\ sessions'[u].root \in issued'
             /\ sessions'[u].pred \in issued' \cup {NoToken}
  BY <1>1, <1>2 DEF Keeps, DigestsAreIssued
<1>3. ASSUME NEW s \in Token, Draws(s)
      PROVE  /\ u \in issued'
             /\ sessions'[u].root \in issued'
             /\ sessions'[u].pred \in issued' \cup {NoToken}
  <2>1. issued' = issued \cup {s}
    BY <1>3 DEF Draws
  <2>2. CASE u # s
    BY <1>2, <1>3, <2>1, <2>2 DEF Draws
  <2>3. CASE u = s /\ DrawsHead(s)
    BY <2>1, <2>3 DEF DrawsHead
  <2>4. CASE u = s /\ \E t \in Token : DrawsSuccessor(t, s)
    BY <2>1, <2>4 DEF DrawsSuccessor, Live, DigestsAreIssued
  <2> QED BY <1>3, <2>2, <2>3, <2>4 DEF Draws
<1> QED BY <1>2, <1>3, StepDraws DEF KeepsAll

\* A step that keeps rows and draws one keeps the chains in agreement.
LEMMA ChainsAgreeStep ==
    ASSUME IInv, [Next]_vars
    PROVE  ChainsAgree'
<1> USE DEF IInv
<1> DEFINE Same(t, u) == /\ sessions'[t].subject = sessions'[u].subject
                         /\ sessions'[t].expires = sessions'[u].expires
           Both(t, u) == /\ sessions'[t] # NoRow /\ sessions'[u] # NoRow
                         /\ sessions'[t].root = sessions'[u].root
<1>1. ASSUME NEW t \in Token, NEW u \in Token, Both(t, u), Keeps(t), Keeps(u)
      PROVE  Same(t, u)
  BY <1>1 DEF Keeps, ChainsAgree
<1>2. ASSUME NEW s \in Token, Draws(s), NEW u \in Token, Both(s, u), u # s
      PROVE  Same(s, u)
  <2>1. Keeps(u) /\ s \notin issued
    BY <1>2 DEF Draws
  <2>2. sessions'[u].root # s
    BY <1>2, <2>1 DEF Keeps, DigestsAreIssued
  <2>3. PICK t \in Token : DrawsSuccessor(t, s)
    BY <1>2, <2>2 DEF Draws, DrawsHead
  <2> QED BY <1>2, <2>1, <2>3 DEF DrawsSuccessor, Live, Keeps, ChainsAgree
<1>3. ASSUME NEW t \in Token, NEW u \in Token, Both(t, u)
      PROVE  Same(t, u)
  <2>1. CASE KeepsAll
    BY <1>1, <1>3, <2>1 DEF KeepsAll
  <2>2. ASSUME NEW s \in Token, Draws(s) PROVE Same(t, u)
    <3>1. CASE t # s /\ u # s
      BY <1>1, <1>3, <2>2, <3>1 DEF Draws
    <3>2. CASE t = s /\ u # s
      BY <1>2, <1>3, <2>2, <3>2
    <3>3. CASE t # s /\ u = s
      BY <1>2, <1>3, <2>2, <3>3
    <3> QED BY <3>1, <3>2, <3>3
  <2> QED BY <2>1, <2>2, StepDraws
<1> QED BY <1>3 DEF ChainsAgree

\* Only a token that was rotated has successors, whatever the step.
LEMMA SuccessorsStep ==
    ASSUME IInv, [Next]_vars
    PROVE  SuccessorsFollowRotation'
<1> USE DEF IInv
<1>1. SUFFICES ASSUME NEW t \in Token, NEW u \in Token, sessions'[t] # NoRow,
                      sessions'[u] # NoRow, sessions'[u].pred = t
               PROVE  sessions'[t].rotated # NotRotated
  BY DEF SuccessorsFollowRotation
<1>2. ASSUME Keeps(t), Keeps(u)
      PROVE  sessions'[t].rotated # NotRotated
  BY <1>1, <1>2 DEF Keeps, SuccessorsFollowRotation
<1>3. ASSUME NEW s \in Token, Draws(s)
      PROVE  sessions'[t].rotated # NotRotated
  <2>1. CASE t # s /\ u # s
    BY <1>2, <1>3, <2>1 DEF Draws
  <2>2. CASE u = s
    BY <1>1, <1>3, <2>2, NoTokenAssumption DEF Draws, DrawsHead, DrawsSuccessor
  <2>3. CASE t = s /\ u # s
    <3>1. s \notin issued /\ sessions[u] # NoRow /\ sessions[u].pred = s
      BY <1>1, <1>3, <2>3 DEF Draws, Keeps
    <3> QED BY <3>1, NoTokenAssumption DEF DigestsAreIssued
  <2> QED BY <2>1, <2>2, <2>3
<1> QED BY <1>2, <1>3, StepDraws DEF KeepsAll

\* A token is drawn for a chain that has one live token, or none.
LEMMA PairsStep ==
    ASSUME IInv, [Next]_vars
    PROVE  LiveTokensArePairs'
<1> USE DEF IInv
<1>1. SUFFICES ASSUME NEW t \in Token, NEW u \in Token, Live(t)', Live(u)',
                      sessions'[t].root = sessions'[u].root, t # u
               PROVE  sessions'[t].pred = u \/ sessions'[u].pred = t
  BY DEF LiveTokensArePairs
<1>2. ASSUME NEW v \in Token, Live(v)', Keeps(v)
      PROVE  /\ Live(v)
             /\ sessions'[v].root = sessions[v].root
             /\ sessions'[v].pred = sessions[v].pred
  <2>1. sessions'[v] # NoRow /\ ~sessions'[v].revoked /\ sessions[v] # NoRow
    BY <1>2 DEF Live, Keeps
  <2>2. sessions[v] \in SessionRow
    BY <2>1 DEF TypeOK
  <2> QED BY <1>2, <2>1, <2>2 DEF Live, Keeps, SessionRow
<1>3. ASSUME Keeps(t), Keeps(u)
      PROVE  sessions'[t].pred = u \/ sessions'[u].pred = t
  BY <1>1, <1>2, <1>3 DEF LiveTokensArePairs
<1>4. ASSUME NEW s \in Token, Draws(s)
      PROVE  sessions'[t].pred = u \/ sessions'[u].pred = t
  <2>1. CASE t # s /\ u # s
    BY <1>3, <1>4, <2>1 DEF Draws
  <2>2. CASE (t = s \/ u = s) /\ DrawsHead(s)
    <3>1. PICK v \in {t, u} : v # s /\ Live(v)' /\ sessions'[v].root = s
      BY <1>1, <2>2 DEF DrawsHead
    <3>2. Live(v) /\ sessions[v].root = s /\ s \notin issued
      BY <1>2, <1>4, <3>1 DEF Draws
    <3> QED BY <3>2 DEF DigestsAreIssued, Live
  <2>3. CASE t = s \/ u = s
    <3>1. ASSUME NEW v \in Token, DrawsSuccessor(v, s)
          PROVE  sessions'[t].pred = u \/ sessions'[u].pred = t
      <4>1. t \in {v, s} /\ u \in {v, s} /\ sessions'[s].pred = v
        BY <1>1, <2>3, <3>1 DEF DrawsSuccessor
      <4> QED BY <1>1, <4>1
    <3> QED BY <1>4, <2>2, <2>3, <3>1 DEF Draws
  <2> QED BY <2>1, <2>3
<1> QED BY <1>3, <1>4, StepDraws DEF KeepsAll

\* The inductive invariant holds of the empty store.
LEMMA IInvInit == Init => IInv
  BY TypeInit DEF Init, IInv, DigestsAreIssued, ChainsAgree, SuccessorsFollowRotation,
                  LiveTokensArePairs, Live

\* Each operation of the store keeps the inductive invariant.
LEMMA IInvStep == IInv /\ [Next]_vars => IInv'
  BY TypeStep, DigestsStep, ChainsAgreeStep, SuccessorsStep, PairsStep DEF IInv

\* The inductive invariant holds in every state of the store.
LEMMA Inductive == Spec => []IInv
  BY IInvInit, IInvStep, PTL DEF Spec

\* The store keeps a pair of live tokens at most, a token and its successor.
THEOREM PairsOfLiveTokens == Spec => []LiveTokensArePairs
<1>1. IInv => LiveTokensArePairs
  BY DEF IInv
<1> QED BY <1>1, Inductive, PTL

\* Every token of a chain carries the person and the expiry of its head.
THEOREM ChainsAgreeAlways == Spec => []ChainsAgree
<1>1. IInv => ChainsAgree
  BY DEF IInv
<1> QED BY <1>1, Inductive, PTL

\* No step revives a session that ended.
LEMMA EndedStep ==
    ASSUME IInv, [Next]_vars, NEW r \in Token \cap issued, Ended(r)
    PROVE  Ended(r)'
<1> USE DEF IInv
<1>1. SUFFICES ASSUME NEW t \in Token, Live(t)', sessions'[t].root = r
               PROVE  FALSE
  BY DEF Ended
<1>2. ASSUME Keeps(t) PROVE FALSE
  <2>1. sessions'[t] # NoRow /\ ~sessions'[t].revoked /\ sessions[t] # NoRow
    BY <1>1, <1>2 DEF Live, Keeps
  <2>2. sessions[t] \in SessionRow
    BY <2>1 DEF TypeOK
  <2> QED BY <1>1, <1>2, <2>1, <2>2 DEF Live, Keeps, Ended, SessionRow
<1>3. ASSUME NEW s \in Token, Draws(s) PROVE FALSE
  <2>1. t = s /\ r # s
    BY <1>1, <1>2, <1>3 DEF Draws
  <2> QED BY <1>1, <1>3, <2>1 DEF Draws, DrawsHead, DrawsSuccessor, Ended
<1> QED BY <1>2, <1>3, StepDraws DEF KeepsAll

\* Nothing revives a session that ended.
THEOREM EndedForGood == Spec => EndedStaysEnded
<1> DEFINE Stays == \A r \in Token \cap issued : Ended(r) => Ended(r)'
<1>1. ASSUME IInv, [Next]_vars PROVE Stays
  BY <1>1, EndedStep
<1>2. IInv /\ [Next]_vars => [Stays]_vars
  BY <1>1
<1> HIDE DEF Stays
<1>3. Spec => [][Stays]_vars
  BY <1>2, Inductive, PTL DEF Spec
<1> QED BY <1>3 DEF Stays, EndedStaysEnded

\* A retry does not restart the grace.
THEOREM GraceStartsOnceAlways == Spec => GraceStartsOnce
<1> DEFINE Fixed == \A t \in Token :
        sessions[t] # NoRow /\ sessions'[t] # NoRow /\ sessions[t].rotated # NotRotated
            => sessions'[t].rotated = sessions[t].rotated
<1>1. ASSUME IInv, [Next]_vars PROVE Fixed
  <2>1. CASE KeepsAll
    BY <2>1 DEF KeepsAll, Keeps
  <2>2. ASSUME NEW s \in Token, Draws(s) PROVE Fixed
    <3>1. sessions[s] = NoRow /\ \A t \in Token \ {s} : Keeps(t)
      BY <1>1, <2>2, FreshHasNoRow DEF Draws, IInv
    <3> QED BY <3>1 DEF Keeps
  <2> QED BY <1>1, <2>1, <2>2, StepDraws
<1>2. IInv /\ [Next]_vars => [Fixed]_vars
  BY <1>1
<1> HIDE DEF Fixed
<1>3. Spec => [][Fixed]_vars
  BY <1>2, Inductive, PTL DEF Spec
<1> QED BY <1>3 DEF Fixed, GraceStartsOnce

-----------------------------------------------------------------------------
(* What endSessionsOf found stays the business of the persons it names.     *)

\* Every chain a call of endSessionsOf found belongs to the persons it names.
EndingOwnsItsChains ==
    \A c \in Caller : ending[c] # Nothing =>
        /\ ending[c].chains \subseteq issued
        /\ \A t \in Token : sessions[t] # NoRow /\ sessions[t].root \in ending[c].chains
                => sessions[t].subject \in ending[c].who

\* A call of endSessionsOf goes on as it was, is over, or has just started.
LEMMA EndingMoves ==
    ASSUME TypeOK, [Next]_vars, NEW c \in Caller
    PROVE  \/ ending'[c] \in {ending[c], Nothing}
           \/ \E who \in Scope : EndSessionsCalled(c, who)
<1> DEFINE Moves == \/ ending'[c] \in {ending[c], Nothing}
                    \/ \E who \in Scope : EndSessionsCalled(c, who)
<1>1. ASSUME ending' = ending PROVE Moves
  BY <1>1
<1>2. ASSUME NEW d \in Caller, ending' = [ending EXCEPT ![d] = Nothing] PROVE Moves
  BY <1>2 DEF TypeOK
<1>3. ASSUME NEW d \in Caller, NEW who \in Scope, EndSessionsCalled(d, who) PROVE Moves
  BY <1>3 DEF EndSessionsCalled, TypeOK
<1> HIDE DEF Moves
<1>4. ASSUME \/ \E k \in Code, p \in Person, n \in Name, at \in Instant :
                    CreatePairing(k, p, n, at)
             \/ \E k \in Code, t \in Token, at \in Instant : RedeemPairing(k, t, at)
             \/ \E at \in Instant : Purge(at)
      PROVE  Moves
  BY <1>1, <1>4 DEF CreatePairing, RedeemPairing, Purge, asked
<1>5. ASSUME \/ \E t \in Token, s \in Token, at \in Instant :
                    RotateFirst(t, s, at) \/ RotateAgain(t, s, at)
             \/ \E t \in Token, at \in Instant : RotateLate(t, at) \/ RotateReplay(t, at)
             \/ \E t \in Token : RevokeSession(t)
      PROVE  Moves
  BY <1>1, <1>5 DEF RotateFirst, RotateAgain, RotateLate, RotateReplay, RevokeSession, asked
<1>6. ASSUME NEW d \in Caller, EndSessionsOf(d) \/ EndSessionsFailed(d)
      PROVE  Moves
  BY <1>2, <1>6 DEF EndSessionsOf, EndSessionsFailed
<1>7. ASSUME NEW d \in Caller,
             \/ RenameSessionsOf(d) \/ RenameSessionsFailed(d)
             \/ \E who \in Scope, n \in Name, at \in Instant : RenameSessionsCalled(d, who, n, at)
      PROVE  Moves
  BY <1>1, <1>7 DEF RenameSessionsOf, RenameSessionsFailed, RenameSessionsCalled
<1>8. ASSUME Next PROVE Moves
  BY <1>3, <1>4, <1>5, <1>6, <1>7, <1>8 DEF Next
<1>9. ASSUME UNCHANGED vars PROVE Moves
  BY <1>1, <1>9 DEF vars
<1>10. Moves
  BY <1>8, <1>9
<1> QED BY <1>10 DEF Moves

\* A call of endSessionsOf keeps the chains it found under its persons.
LEMMA EndingOwnsStep ==
    ASSUME IInv, EndingOwnsItsChains, [Next]_vars
    PROVE  EndingOwnsItsChains'
<1> USE DEF IInv
<1>1. SUFFICES ASSUME NEW c \in Caller, ending'[c] # Nothing
               PROVE  /\ ending'[c].chains \subseteq issued'
                      /\ \A t \in Token :
                            sessions'[t] # NoRow /\ sessions'[t].root \in ending'[c].chains
                                => sessions'[t].subject \in ending'[c].who
  BY DEF EndingOwnsItsChains
<1>2. ASSUME NEW who \in Scope, EndSessionsCalled(c, who)
      PROVE  /\ ending'[c].chains \subseteq issued'
             /\ \A t \in Token :
                   sessions'[t] # NoRow /\ sessions'[t].root \in ending'[c].chains
                       => sessions'[t].subject \in ending'[c].who
  <2>1. /\ ending'[c].who = who /\ ending'[c].chains = ChainsOf(who)
        /\ sessions' = sessions /\ issued' = issued
    BY <1>2 DEF EndSessionsCalled, TypeOK, tables
  <2>2. ChainsOf(who) \subseteq issued
    BY DEF ChainsOf, SessionsOf, DigestsAreIssued
  <2>3. ASSUME NEW t \in Token, sessions[t] # NoRow, sessions[t].root \in ChainsOf(who)
        PROVE  sessions[t].subject \in who
    <3>1. PICK u \in SessionsOf(who) : sessions[t].root = sessions[u].root
      BY <2>3 DEF ChainsOf
    <3> QED BY <2>3, <3>1 DEF SessionsOf, ChainsAgree
  <2> QED BY <2>1, <2>2, <2>3
<1>3. ASSUME ending'[c] = ending[c]
      PROVE  /\ ending'[c].chains \subseteq issued'
             /\ \A t \in Token :
                   sessions'[t] # NoRow /\ sessions'[t].root \in ending'[c].chains
                       => sessions'[t].subject \in ending'[c].who
  <2>1. /\ ending[c] # Nothing
        /\ ending[c].chains \subseteq issued
        /\ \A t \in Token : sessions[t] # NoRow /\ sessions[t].root \in ending[c].chains
              => sessions[t].subject \in ending[c].who
    BY <1>1, <1>3 DEF EndingOwnsItsChains
  <2>2. issued \subseteq issued'
    BY StepDraws DEF Draws
  <2>3. ASSUME NEW t \in Token, Keeps(t), sessions'[t] # NoRow,
               sessions'[t].root \in ending[c].chains
        PROVE  sessions'[t].subject \in ending[c].who
    BY <2>1, <2>3 DEF Keeps
  <2>4. ASSUME NEW s \in Token, Draws(s), sessions'[s].root \in ending[c].chains
        PROVE  sessions'[s].subject \in ending[c].who
    BY <2>1, <2>4 DEF Draws, DrawsHead, DrawsSuccessor, Live
  <2>5. ASSUME NEW t \in Token, sessions'[t] # NoRow, sessions'[t].root \in ending[c].chains
        PROVE  sessions'[t].subject \in ending[c].who
    BY <2>3, <2>4, <2>5, StepDraws DEF Draws, KeepsAll
  <2> QED BY <1>3, <2>1, <2>2, <2>5
<1> QED BY <1>1, <1>2, <1>3, EndingMoves

\* It keeps them for as long as it runs.
LEMMA EndingOwns == Spec => [](IInv /\ EndingOwnsItsChains)
<1>1. Init => EndingOwnsItsChains
  BY DEF Init, EndingOwnsItsChains
<1>2. EndingOwnsItsChains /\ IInv /\ [Next]_vars => EndingOwnsItsChains'
  BY EndingOwnsStep
<1> QED BY <1>1, <1>2, Inductive, PTL DEF Spec

\* The step of endSessionsOf leaves no live token in a session it found.
LEMMA EndingStepEnds ==
    ASSUME IInv, EndingOwnsItsChains, NEW c \in Caller, EndSessionsOf(c), NEW r \in ending[c].chains
    PROVE  Ended(r)'
<1>1. SUFFICES ASSUME NEW t \in Token, Live(t)', sessions'[t].root = r
               PROVE  FALSE
  BY DEF Ended
<1>2. PICK gone \in SUBSET SessionsOf(ending[c].who) :
        /\ {u \in SessionsOf(ending[c].who) : sessions[u].root \in ending[c].chains} \subseteq gone
        /\ sessions' = Revoking(gone)
  BY DEF EndSessionsOf
<1>3. Keeps(t) /\ sessions'[t] # NoRow /\ ~sessions'[t].revoked
  BY <1>1, <1>2, RevokingKeeps DEF IInv, KeepsAll, SessionsOf, Live
<1>4. sessions[t] \in SessionRow /\ sessions[t] # NoRow
  BY <1>3 DEF Keeps, IInv, TypeOK
<1>5. t \in gone
  BY <1>1, <1>2, <1>3, <1>4 DEF Keeps, EndingOwnsItsChains, EndSessionsOf, SessionsOf
<1> QED BY <1>2, <1>3, <1>4, <1>5 DEF Revoking, SessionRow

\* Whatever refreshes run meanwhile, endSessionsOf leaves no live token in a
\* session it found.
THEOREM EndingEndsAlways == Spec => EndingEnds
<1> DEFINE Ends == \A c \in Caller : EndSessionsOf(c) => \A r \in ending[c].chains : Ended(r)'
<1>1. ASSUME IInv, EndingOwnsItsChains PROVE Ends
  BY <1>1, EndingStepEnds
<1>2. IInv /\ EndingOwnsItsChains => [Ends]_vars
  BY <1>1
<1> HIDE DEF Ends
<1>3. Spec => [][Ends]_vars
  BY <1>2, EndingOwns, PTL
<1> QED BY <1>3 DEF Ends, EndingEnds

-----------------------------------------------------------------------------
(* What a client of the store relies on.                                     *)

\* Pairing, refreshing and logging out delete no row, and no token changes chain.
LEMMA RowsStay ==
    ASSUME IInv,
           \/ \E k \in Code, p \in Person, n \in Name, at \in Instant : CreatePairing(k, p, n, at)
           \/ \E k \in Code, t \in Token, at \in Instant : RedeemPairing(k, t, at)
           \/ \E t, s \in Token, at \in Instant : RotateFirst(t, s, at) \/ RotateAgain(t, s, at)
           \/ \E t \in Token, at \in Instant : RotateLate(t, at) \/ RotateReplay(t, at)
           \/ \E t \in Token : RevokeSession(t)
    PROVE  /\ IInv'
           /\ \A u \in Token : sessions[u] # NoRow =>
                sessions'[u] # NoRow /\ sessions'[u].root = sessions[u].root
<1> DEFINE Stays(u) == sessions[u] # NoRow => sessions'[u] # NoRow /\ sessions'[u].root = sessions[u].root
<1>0. [Next]_vars
  BY DEF Next
<1>1. IInv' /\ TypeOK /\ DigestsAreIssued
  BY <1>0, IInvStep DEF IInv
<1>2. ASSUME NEW gone \in SUBSET {t \in Token : sessions[t] # NoRow}, sessions' = Revoking(gone)
      PROVE  \A u \in Token : Stays(u)
  <2> SUFFICES ASSUME NEW u \in Token, sessions[u] # NoRow PROVE Stays(u)
    OBVIOUS
  <2>1. sessions[u] \in SessionRow
    BY <1>1 DEF TypeOK
  <2>2. sessions'[u] \in {sessions[u], [sessions[u] EXCEPT !.revoked = TRUE]}
    BY <1>2 DEF Revoking
  <2>3. sessions'[u].root = sessions[u].root /\ sessions'[u] \in SessionRow
    BY <2>1, <2>2 DEF SessionRow
  <2> QED BY <2>3, NoRowAssumption
<1>3. ASSUME NEW t \in Token, NEW s \in Token, NEW at \in Instant,
             RotateFirst(t, s, at) \/ RotateAgain(t, s, at)
      PROVE  \A u \in Token : Stays(u)
  <2> SUFFICES ASSUME NEW u \in Token, sessions[u] # NoRow PROVE Stays(u)
    OBVIOUS
  <2>1. u # s /\ sessions[u] \in SessionRow
    BY <1>1, <1>3 DEF DigestsAreIssued, RotateFirst, RotateAgain, TypeOK
  <2>2. \/ sessions'[u] = sessions[u]
        \/ sessions'[u] = [sessions[u] EXCEPT !.rotated = at]
        \/ sessions'[u] = [sessions[u] EXCEPT !.revoked = TRUE]
    <3>1. CASE RotateFirst(t, s, at)
      BY <2>1, <3>1 DEF RotateFirst
    <3>2. CASE RotateAgain(t, s, at)
      BY <2>1, <3>2 DEF RotateAgain
    <3> QED BY <1>3, <3>1, <3>2
  <2>3. sessions'[u].root = sessions[u].root
    BY <2>1, <2>2 DEF SessionRow
  <2>4. sessions'[u] \in SessionRow
    <3>1. CASE sessions'[u] = [sessions[u] EXCEPT !.rotated = at]
      BY <2>1, <3>1, TimeAssumption DEF SessionRow
    <3>2. CASE sessions'[u] = [sessions[u] EXCEPT !.revoked = TRUE]
      BY <2>1, <3>2 DEF SessionRow
    <3> QED BY <2>1, <2>2, <3>1, <3>2
  <2> QED BY <2>3, <2>4, NoRowAssumption
<1>4. ASSUME NEW k \in Code, NEW t \in Token, NEW at \in Instant, RedeemPairing(k, t, at)
      PROVE  \A u \in Token : Stays(u)
  BY <1>1, <1>4 DEF RedeemPairing, DigestsAreIssued, TypeOK
<1>5. ASSUME NEW t \in Token, NEW at \in Instant,
             RotateLate(t, at) \/ RotateReplay(t, at)
      PROVE  \A u \in Token : Stays(u)
  BY <1>1, <1>2, <1>5, ChainType DEF RotateLate, RotateReplay
<1>6. CASE \E k \in Code, p \in Person, n \in Name, at \in Instant : CreatePairing(k, p, n, at)
  BY <1>1, <1>6 DEF CreatePairing
<1>7. \A u \in Token : sessions[u] # NoRow =>
            sessions'[u] # NoRow /\ sessions'[u].root = sessions[u].root
  <2>1. CASE \E t, s \in Token, at \in Instant : RotateFirst(t, s, at) \/ RotateAgain(t, s, at)
    BY <1>3, <2>1
  <2>2. CASE \E k \in Code, t \in Token, at \in Instant : RedeemPairing(k, t, at)
    BY <1>4, <2>2
  <2>3. CASE \E t \in Token, at \in Instant : RotateLate(t, at) \/ RotateReplay(t, at)
    BY <1>5, <2>3
  <2>4. CASE \E t \in Token : RevokeSession(t)
    <3>1. PICK t \in Token : RevokeSession(t)
      BY <2>4
    <3>2. Chain(sessions[t].root) \in SUBSET {u \in Token : sessions[u] # NoRow}
      BY <1>1, ChainType
    <3> QED BY <1>2, <3>1, <3>2 DEF RevokeSession
  <2> QED BY <1>6, <2>1, <2>2, <2>3, <2>4
<1> QED BY <1>1, <1>7

\* The successor of a token is of its chain.
LEMMA SuccessorOfItsChain ==
    ASSUME IInv, NEW t \in Token, NEW s \in Token, NEW at \in Instant,
           RotateFirst(t, s, at) \/ RotateAgain(t, s, at)
    PROVE  sessions[t] # NoRow /\ sessions'[s] # NoRow /\ sessions'[s].root = sessions[t].root
<1>1. TypeOK /\ sessions[t] # NoRow /\ sessions'[s] = Successor(t)
  BY DEF IInv, TypeOK, RotateFirst, RotateAgain, Live
<1>2. Successor(t) \in SessionRow /\ Successor(t).root = sessions[t].root
  BY <1>1, SuccessorType DEF Successor, TypeOK, SessionRow
<1> QED BY <1>1, <1>2, NoRowAssumption

\* A pairing opens a chain of its own.
LEMMA HeadOfItsChain ==
    ASSUME IInv, NEW k \in Code, NEW t \in Token, NEW at \in Instant, RedeemPairing(k, t, at)
    PROVE  sessions'[t] # NoRow /\ sessions'[t].root = t
<1> DEFINE head == [subject |-> pairings[k].subject, name |-> pairings[k].name,
                    expires |-> at + SessionTtl, revoked |-> FALSE,
                    rotated |-> NotRotated, pred |-> NoToken, root |-> t, code |-> k]
<1>1. head \in SessionRow /\ head.root = t
  BY TimeAssumption DEF RedeemPairing, IInv, TypeOK, SessionRow, PairingRow, NotRotated
<1>2. sessions'[t] = head
  BY DEF RedeemPairing, IInv, TypeOK
<1> HIDE DEF head
<1> QED BY <1>1, <1>2, NoRowAssumption
=============================================================================
