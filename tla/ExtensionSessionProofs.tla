----------------------- MODULE ExtensionSessionProofs -----------------------
(***************************************************************************)
(* Proofs about ExtensionSession for any number of contexts, pages, tokens   *)
(* and epochs, and any number of calls at once.                               *)
(*                                                                           *)
(* The argument: whatever is about to be written carries the epoch of its     *)
(* read, and while that epoch counts, what is about to be written is of the   *)
(* chain of the last pairing.  A new epoch is beyond every epoch carried, so  *)
(* it makes all of them harmless at once, and an epoch never comes back.      *)
(* The second part adds that one answer is written for one token (SpentOnce), *)
(* and the third that what a refused refresh removes has ended (Leaving).     *)
(***************************************************************************)
EXTENDS ExtensionSession, TLAPS

P == INSTANCE SessionPromiseProofs WITH
        Caller <- {}, Scope <- {}, ending <- <<>>, renaming <- <<>>

Row(t) == sessions[t] # NoRow

\* A refresh that carries the epoch that counts is of the last chain, and so is what
\* it is about to write.
RefreshOK(r) ==
    /\ Row(r.spent)
    /\ r.at <= epoch
    /\ r.at = epoch => Root(r.spent) = last
    /\ r.step \in {"issued", "put"} =>
            r.token \in Token /\ Row(r.token) /\ Root(r.token) = Root(r.spent)

ClickOK(c) ==
    /\ c.step = "pair" => c.code \in Code
    /\ c.step = "revoke" => c.token \in Token
    /\ c.step \in {"adopt", "grant", "put"} =>
            c.token \in Token /\ Row(c.token) /\ Root(c.token) = c.token
    /\ c.step \in {"grant", "put"} => c.at <= epoch /\ (c.at = epoch => c.token = last)

RunOK(e, t) == t # NoToken => Row(t) /\ e <= epoch /\ (e = epoch => Root(t) = last)

Calls ==
    /\ \A x \in Context : refreshing[x] # Nothing => RefreshOK(refreshing[x])
    /\ \A p \in Page : clicks[p] # Nothing => ClickOK(clicks[p])

Runs == \A e \in Epoch : RunOK(e, runs[e])

IInv == P!IInv /\ TypeOK /\ Calls /\ Runs

RowsStay == \A u \in Token : Row(u) => Row(u)' /\ Root(u)' = Root(u)

-----------------------------------------------------------------------------
(* The worker.                                                               *)

\* The operations of the store that the module uses.
UsesStore ==
    \/ \E k \in Code, p \in Person, n \in Name, at \in Instant : Store!CreatePairing(k, p, n, at)
    \/ \E k \in Code, t \in Token, at \in Instant : Store!RedeemPairing(k, t, at)
    \/ \E t, s \in Token, at \in Instant : Store!RotateFirst(t, s, at) \/ Store!RotateAgain(t, s, at)
    \/ \E t \in Token, at \in Instant : Store!RotateLate(t, at) \/ Store!RotateReplay(t, at)
    \/ \E t \in Token : Store!RevokeSession(t)

\* What the proofs of the store assume of its constants.
LEMMA StoreAssumptions ==
    /\ P!ScopeAssumption /\ P!TimeAssumption /\ P!NoTokenAssumption
    /\ P!NoRowAssumption /\ P!NothingAssumption
<1>1. P!ScopeAssumption /\ P!TimeAssumption /\ P!NoTokenAssumption
  BY TimeAssumption, NullAssumption
  DEF P!ScopeAssumption, P!TimeAssumption, P!NoTokenAssumption
<1>2. P!NoRowAssumption
  BY NothingAssumption
  DEF P!NoRowAssumption, P!SessionRow, Store!SessionRow, P!PairingRow, Store!PairingRow
<1>3. P!NothingAssumption
  BY DEF P!NothingAssumption, P!EndCall, P!RenameCall
<1> QED BY <1>1, <1>2, <1>3

\* The store of this module is the one its proofs are about.
LEMMA SameStore ==
    /\ \A k, p, n, at : Store!CreatePairing(k, p, n, at) = P!CreatePairing(k, p, n, at)
    /\ \A k, t, at : Store!RedeemPairing(k, t, at) = P!RedeemPairing(k, t, at)
    /\ \A t, s, at : Store!RotateFirst(t, s, at) = P!RotateFirst(t, s, at)
    /\ \A t, s, at : Store!RotateAgain(t, s, at) = P!RotateAgain(t, s, at)
    /\ \A t, at : Store!RotateLate(t, at) = P!RotateLate(t, at)
    /\ \A t, at : Store!RotateReplay(t, at) = P!RotateReplay(t, at)
    /\ \A t : Store!RevokeSession(t) = P!RevokeSession(t)
<1>1. \A k, p, n, at : Store!CreatePairing(k, p, n, at) = P!CreatePairing(k, p, n, at)
  BY DEF Store!CreatePairing, P!CreatePairing, Store!asked, P!asked
<1>2. \A k, t, at : Store!RedeemPairing(k, t, at) = P!RedeemPairing(k, t, at)
  BY DEF Store!RedeemPairing, P!RedeemPairing, Store!asked, P!asked, Store!Spending, P!Spending,
         Store!NotRotated, P!NotRotated
<1>3. \A t, s, at : Store!RotateFirst(t, s, at) = P!RotateFirst(t, s, at)
  BY DEF Store!RotateFirst, P!RotateFirst, Store!asked, P!asked, Store!Live, P!Live,
         Store!Successor, P!Successor, Store!NotRotated, P!NotRotated
<1>4. \A t, s, at : Store!RotateAgain(t, s, at) = P!RotateAgain(t, s, at)
  BY DEF Store!RotateAgain, P!RotateAgain, Store!asked, P!asked, Store!Live, P!Live,
         Store!Successor, P!Successor, Store!NotRotated, P!NotRotated, Store!Chain, P!Chain
<1>5. \A t, at : Store!RotateLate(t, at) = P!RotateLate(t, at)
  BY DEF Store!RotateLate, P!RotateLate, Store!asked, P!asked, Store!Live, P!Live, Store!Chain,
         P!Chain, Store!NotRotated, P!NotRotated, Store!Revoking, P!Revoking
<1>6. \A t, at : Store!RotateReplay(t, at) = P!RotateReplay(t, at)
  BY DEF Store!RotateReplay, P!RotateReplay, Store!asked, P!asked, Store!Live, P!Live,
         Store!Chain, P!Chain, Store!Revoking, P!Revoking
<1>7. \A t : Store!RevokeSession(t) = P!RevokeSession(t)
  BY DEF Store!RevokeSession, P!RevokeSession, Store!asked, P!asked, Store!Chain, P!Chain,
         Store!Revoking, P!Revoking
<1> QED BY <1>1, <1>2, <1>3, <1>4, <1>5, <1>6, <1>7

\* The store stays in its invariant, and keeps every row and its chain.
LEMMA StoreSteps ==
    ASSUME P!IInv, UsesStore \/ UNCHANGED store
    PROVE  P!IInv' /\ RowsStay
<1>1. CASE UsesStore
  <2>1. \/ \E k \in Code, p \in Person, n \in Name, at \in Instant : P!CreatePairing(k, p, n, at)
        \/ \E k \in Code, t \in Token, at \in Instant : P!RedeemPairing(k, t, at)
        \/ \E t, s \in Token, at \in Instant : P!RotateFirst(t, s, at) \/ P!RotateAgain(t, s, at)
        \/ \E t \in Token, at \in Instant : P!RotateLate(t, at) \/ P!RotateReplay(t, at)
        \/ \E t \in Token : P!RevokeSession(t)
    BY <1>1, SameStore DEF UsesStore
  <2>2. P!IInv' /\ \A u \in Token : sessions[u] # NoRow =>
            sessions'[u] # NoRow /\ sessions'[u].root = sessions[u].root
    BY <2>1, P!RowsStay, StoreAssumptions
  <2> QED BY <2>2 DEF RowsStay, Row, Root
<1>2. CASE UNCHANGED store
  <2>1. UNCHANGED P!vars
    BY <1>2 DEF store, P!vars
  <2>2. P!IInv'
    BY <2>1, P!IInvStep, StoreAssumptions
  <2> QED BY <1>2, <2>2 DEF store, RowsStay, Row, Root
<1> QED BY <1>1, <1>2

\* The worker starts with an empty store.
LEMMA StoreInit == Init => P!IInv
<1>1. Init => P!Init
  BY DEF Init, Store!Init, P!Init
<1> QED BY <1>1, P!IInvInit, StoreAssumptions

-----------------------------------------------------------------------------
(* What a step leaves alone stays as it was.                                 *)

EpochMoves == UNCHANGED <<epoch, last>> \/ epoch' = epoch + 1

LEMMA Stay ==
    ASSUME epoch \in Epoch, RowsStay, EpochMoves
    PROVE  /\ \A r \in Refresh : RefreshOK(r) => RefreshOK(r)'
           /\ \A c \in Click : ClickOK(c) => ClickOK(c)'
           /\ \A e \in Epoch, t \in Tokens : RunOK(e, t) => RunOK(e, t)'
<1>0. epoch \in Nat /\ Epoch \subseteq Nat
  BY BoundAssumption DEF Epoch
<1>1. ASSUME NEW r \in Refresh, RefreshOK(r)
      PROVE  RefreshOK(r)'
  <2>1. r.spent \in Token /\ r.at \in Nat
    BY <1>0 DEF Refresh
  <2>2. (r.at <= epoch)' /\ (r.at = epoch => Root(r.spent) = last)'
    BY <1>0, <1>1, <2>1 DEF RefreshOK, RowsStay, Root, EpochMoves
  <2>3. (r.step \in {"issued", "put"} =>
            r.token \in Token /\ Row(r.token) /\ Root(r.token) = Root(r.spent))'
    BY <1>1, <2>1 DEF RefreshOK, RowsStay, Row, Root
  <2> QED BY <1>1, <2>1, <2>2, <2>3 DEF RefreshOK, RowsStay
<1>2. ASSUME NEW c \in Click, ClickOK(c)
      PROVE  ClickOK(c)'
  <2>1. c.at \in Nat
    BY <1>0 DEF Click
  <2>2. (c.step \in {"adopt", "grant", "put"} =>
            c.token \in Token /\ Row(c.token) /\ Root(c.token) = c.token)'
    BY <1>2 DEF ClickOK, RowsStay, Row, Root
  <2>3. (c.step \in {"grant", "put"} => c.at <= epoch /\ (c.at = epoch => c.token = last))'
    BY <1>0, <1>2, <2>1 DEF ClickOK, EpochMoves
  <2> QED BY <1>2, <2>2, <2>3 DEF ClickOK
<1>3. ASSUME NEW e \in Epoch, NEW t \in Tokens, RunOK(e, t)
      PROVE  RunOK(e, t)'
  <2>1. CASE t = NoToken
    BY <2>1 DEF RunOK
  <2>2. CASE t \in Token
    <3>1. e \in Nat /\ t # NoToken
      BY <1>0, <2>2, NullAssumption
    <3> QED BY <1>0, <1>3, <2>2, <3>1 DEF RunOK, RowsStay, Root, EpochMoves
  <2> QED BY <2>1, <2>2 DEF Tokens
<1> QED BY <1>1, <1>2, <1>3

RefreshesOK == refreshing \in [Context -> Refresh \cup {Nothing}]
               /\ \A x \in Context : refreshing[x] # Nothing => RefreshOK(refreshing[x])

ClicksOK == clicks \in [Page -> Click \cup {Nothing}]
            /\ \A p \in Page : clicks[p] # Nothing => ClickOK(clicks[p])

LEMMA RefreshMoves ==
    ASSUME TypeOK, RefreshesOK, RowsStay, EpochMoves, NEW x \in Context, NEW r,
           r = Nothing \/ (r \in Refresh /\ RefreshOK(r)'),
           RefreshGoes(x, r)
    PROVE  RefreshesOK'
<1>1. refreshing' \in [Context -> Refresh \cup {Nothing}]
  BY DEF RefreshesOK, RefreshGoes
<1>2. ASSUME NEW y \in Context, refreshing'[y] # Nothing
      PROVE  RefreshOK(refreshing[y])'
  <2>1. PICK q : q = refreshing'[y]
    OBVIOUS
  <2>2. CASE y = x
    <3>1. RefreshOK(r)' /\ refreshing'[y] = r
      BY <1>2, <2>2 DEF RefreshGoes, RefreshesOK
    <3> QED BY <3>1 DEF RefreshOK, Row, Root
  <2>3. CASE y # x
    <3>1. q = refreshing[y] /\ q \in Refresh /\ RefreshOK(q)
      BY <1>2, <2>1, <2>3 DEF RefreshGoes, RefreshesOK, RefreshOK
    <3>2. RefreshOK(q)'
      BY <3>1, Stay DEF TypeOK
    <3> QED BY <3>2, <2>1 DEF RefreshOK, Row, Root
  <2> QED BY <2>2, <2>3
<1> QED BY <1>1, <1>2 DEF RefreshesOK

LEMMA ClickMoves ==
    ASSUME TypeOK, ClicksOK, RowsStay, EpochMoves, NEW p \in Page, NEW c,
           c = Nothing \/ (c \in Click /\ ClickOK(c)'),
           ClickGoes(p, c)
    PROVE  ClicksOK'
<1>1. clicks' \in [Page -> Click \cup {Nothing}]
  BY DEF ClicksOK, ClickGoes
<1>2. ASSUME NEW q \in Page, clicks'[q] # Nothing
      PROVE  ClickOK(clicks[q])'
  <2>1. PICK d : d = clicks'[q]
    OBVIOUS
  <2>2. CASE q = p
    <3>1. ClickOK(c)' /\ clicks'[q] = c
      BY <1>2, <2>2 DEF ClickGoes, ClicksOK
    <3> QED BY <3>1 DEF ClickOK, Row, Root
  <2>3. CASE q # p
    <3>1. d = clicks[q] /\ d \in Click /\ ClickOK(d)
      BY <1>2, <2>1, <2>3 DEF ClickGoes, ClicksOK, ClickOK
    <3>2. ClickOK(d)'
      BY <3>1, Stay DEF TypeOK
    <3> QED BY <3>2, <2>1 DEF ClickOK, Row, Root
  <2> QED BY <2>2, <2>3
<1> QED BY <1>1, <1>2 DEF ClicksOK

\* One key of storage.local is written, and the others are left alone.
LEMMA RunMoves ==
    ASSUME TypeOK, Runs, RowsStay, EpochMoves, NEW e \in Epoch, NEW t \in Tokens,
           RunOK(e, t)', runs' = [runs EXCEPT ![e] = t]
    PROVE  Runs' /\ runs' \in [Epoch -> Tokens]
<1>1. runs' \in [Epoch -> Tokens]
  BY DEF TypeOK
<1>2. ASSUME NEW d \in Epoch
      PROVE  RunOK(d, runs[d])'
  <2>1. PICK u : u = runs'[d]
    OBVIOUS
  <2>2. CASE d = e
    <3>1. runs'[d] = t
      BY <2>2 DEF TypeOK
    <3> QED BY <2>2, <3>1 DEF RunOK, Row, Root
  <2>3. CASE d # e
    <3>1. u = runs[d] /\ u \in Tokens /\ RunOK(d, u)
      BY <2>1, <2>3 DEF TypeOK, Runs, RunOK
    <3>2. RunOK(d, u)'
      BY <3>1, Stay DEF TypeOK
    <3> QED BY <3>2, <2>1 DEF RunOK, Row, Root
  <2> QED BY <2>2, <2>3
<1> QED BY <1>1, <1>2 DEF Runs

LEMMA RunsStay ==
    ASSUME TypeOK, Runs, RowsStay, EpochMoves, UNCHANGED runs
    PROVE  Runs' /\ runs' \in [Epoch -> Tokens]
<1>1. ASSUME NEW d \in Epoch
      PROVE  RunOK(d, runs[d])'
  <2>1. PICK u : u = runs[d] /\ u = runs'[d]
    OBVIOUS
  <2>2. u \in Tokens /\ RunOK(d, u)
    BY <2>1 DEF TypeOK, Runs, RunOK
  <2>3. RunOK(d, u)'
    BY <2>2, Stay DEF TypeOK
  <2> QED BY <2>3, <2>1 DEF RunOK, Row, Root
<1> QED BY <1>1 DEF Runs, TypeOK

\* What nobody touches.
LEMMA RefreshesStay ==
    ASSUME TypeOK, RefreshesOK, RowsStay, EpochMoves, UNCHANGED refreshing
    PROVE  RefreshesOK'
<1>1. ASSUME NEW y \in Context, refreshing'[y] # Nothing
      PROVE  RefreshOK(refreshing[y])'
  <2>1. PICK q : q = refreshing[y] /\ q = refreshing'[y]
    OBVIOUS
  <2>2. q \in Refresh /\ RefreshOK(q)
    BY <1>1, <2>1 DEF RefreshesOK, RefreshOK
  <2>3. RefreshOK(q)'
    BY <2>2, Stay DEF TypeOK
  <2> QED BY <2>3, <2>1 DEF RefreshOK, Row, Root
<1> QED BY <1>1 DEF RefreshesOK

LEMMA ClicksStay ==
    ASSUME TypeOK, ClicksOK, RowsStay, EpochMoves, UNCHANGED clicks
    PROVE  ClicksOK'
<1>1. ASSUME NEW y \in Page, clicks'[y] # Nothing
      PROVE  ClickOK(clicks[y])'
  <2>1. PICK q : q = clicks[y] /\ q = clicks'[y]
    OBVIOUS
  <2>2. q \in Click /\ ClickOK(q)
    BY <1>1, <2>1 DEF ClicksOK, ClickOK
  <2>3. ClickOK(q)'
    BY <2>2, Stay DEF TypeOK
  <2> QED BY <2>3, <2>1 DEF ClickOK, Row, Root
<1> QED BY <1>1 DEF ClicksOK

\* What a step owes to the invariant beyond the worker, the calls and the runs.
RestOK == epoch \in Epoch /\ grant \in Tokens /\ adrift \subseteq Request
          /\ last \in Tokens /\ doubled \in BOOLEAN

LEMMA Parts ==
    /\ IInv <=> P!IInv /\ RefreshesOK /\ ClicksOK /\ Runs /\ runs \in [Epoch -> Tokens] /\ RestOK
    /\ IInv => TypeOK
  BY DEF IInv, TypeOK, RefreshesOK, ClicksOK, Calls, RestOK, P!IInv, P!TypeOK, Store!TypeOK,
         P!SessionRow, Store!SessionRow, P!PairingRow, Store!PairingRow, P!EndCall, Store!EndCall,
         P!RenameCall, Store!RenameCall

RunGoes == \/ UNCHANGED runs
           \/ \E e \in Epoch, t \in Tokens : RunOK(e, t)' /\ runs' = [runs EXCEPT ![e] = t]

\* A step that moves one refresh, and writes one run at most, keeps the invariant.
LEMMA RefreshActs ==
    ASSUME IInv, UsesStore \/ UNCHANGED store, UNCHANGED <<epoch, last, clicks>>, RunGoes,
           NEW x \in Context, NEW r, r = Nothing \/ (r \in Refresh /\ RefreshOK(r)'),
           RefreshGoes(x, r),
           grant' \in Tokens, adrift' \subseteq Request, doubled' \in BOOLEAN
    PROVE  IInv'
<1>1. P!IInv' /\ RowsStay
  BY StoreSteps DEF IInv
<1>2. EpochMoves /\ TypeOK /\ RefreshesOK /\ ClicksOK /\ Runs
  BY Parts DEF EpochMoves
<1>3. RefreshesOK'
  BY <1>1, <1>2, RefreshMoves
<1>4. ClicksOK'
  BY <1>1, <1>2, ClicksStay
<1>5. Runs' /\ runs' \in [Epoch -> Tokens]
  BY <1>1, <1>2, RunMoves, RunsStay DEF RunGoes
<1>6. RestOK'
  BY <1>2 DEF TypeOK, RestOK
<1>7. Store!TypeOK'
  BY <1>1 DEF P!IInv, P!TypeOK, Store!TypeOK, P!SessionRow, Store!SessionRow, P!PairingRow,
         Store!PairingRow, P!EndCall, Store!EndCall, P!RenameCall, Store!RenameCall
<1> QED BY <1>1, <1>3, <1>4, <1>5, <1>6, <1>7
        DEF IInv, TypeOK, RefreshesOK, ClicksOK, Calls, RestOK

\* The same for a step that moves one pairing or one log out, and may draw an epoch.
LEMMA ClickActs ==
    ASSUME IInv, UsesStore \/ UNCHANGED store, UNCHANGED refreshing, RunGoes,
           EpochMoves, epoch' \in Epoch, last' \in Tokens,
           NEW p \in Page, NEW c, c = Nothing \/ (c \in Click /\ ClickOK(c)'),
           ClickGoes(p, c),
           grant' \in Tokens, adrift' \subseteq Request, doubled' \in BOOLEAN
    PROVE  IInv'
<1>1. P!IInv' /\ RowsStay
  BY StoreSteps DEF IInv
<1>2. TypeOK /\ RefreshesOK /\ ClicksOK /\ Runs
  BY Parts
<1>3. RefreshesOK'
  BY <1>1, <1>2, RefreshesStay
<1>4. ClicksOK'
  BY <1>1, <1>2, ClickMoves
<1>5. Runs' /\ runs' \in [Epoch -> Tokens]
  BY <1>1, <1>2, RunMoves, RunsStay DEF RunGoes
<1>6. RestOK'
  BY <1>2 DEF TypeOK, RestOK
<1>7. Store!TypeOK'
  BY <1>1 DEF P!IInv, P!TypeOK, Store!TypeOK, P!SessionRow, Store!SessionRow, P!PairingRow,
         Store!PairingRow, P!EndCall, Store!EndCall, P!RenameCall, Store!RenameCall
<1> QED BY <1>1, <1>3, <1>4, <1>5, <1>6, <1>7
        DEF IInv, TypeOK, RefreshesOK, ClicksOK, Calls, RestOK

-----------------------------------------------------------------------------
(* The steps of a refresh.                                                   *)

\* What a refresh under way is, and what it may turn into while storage.local stays.
LEMMA RefreshThere ==
    ASSUME IInv, NEW x \in Context, refreshing[x] # Nothing
    PROVE  refreshing[x] \in Refresh /\ RefreshOK(refreshing[x])
  BY DEF IInv, TypeOK, Calls, RefreshOK

LEMMA StartSteps ==
    ASSUME IInv, NEW x \in Context, RefreshStarts(x)
    PROVE  IInv'
<1>1. PICK r : r = [step |-> "asked", spent |-> held, at |-> epoch,
                    token |-> NoToken, gone |-> {}]
  OBVIOUS
<1>2. held \in Token /\ Row(held) /\ Root(held) = last /\ epoch \in Nat
  BY BoundAssumption DEF IInv, TypeOK, Runs, RunOK, held, Tokens, Epoch, RefreshStarts
<1>3. r \in Refresh
  BY <1>1, <1>2 DEF Refresh, Tokens, IInv, TypeOK
<1>4. RefreshOK(r)'
  BY <1>1, <1>2 DEF RefreshOK, Row, Root, RefreshStarts, store, local
<1>5. RefreshGoes(x, r)
  BY <1>1 DEF RefreshStarts
<1>6. doubled' \in BOOLEAN
  BY DEF RefreshStarts
<1> QED BY <1>3, <1>4, <1>5, <1>6, RefreshActs DEF RefreshStarts, local, IInv, TypeOK, RunGoes

LEMMA RotatedSteps ==
    ASSUME IInv, NEW x \in Context, NEW s \in Token, NEW at \in Instant, Rotated(x, s, at)
    PROVE  IInv'
<1>1. PICK t : t = refreshing[x].spent
  OBVIOUS
<1>2. PICK r : r = [refreshing[x] EXCEPT !.step = "issued", !.token = s]
  OBVIOUS
<1>3. refreshing[x] \in Refresh /\ RefreshOK(refreshing[x]) /\ t \in Token
  BY <1>1, RefreshThere DEF Rotated, Refreshing, Refresh
<1>4. P!RotateFirst(t, s, at) \/ P!RotateAgain(t, s, at)
  BY <1>1, SameStore DEF Rotated
<1>5. UsesStore
  BY <1>1, <1>3 DEF Rotated, UsesStore
<1>6. P!IInv /\ P!IInv' /\ RowsStay
  BY <1>5, StoreSteps DEF IInv
<1>7. Row(s)' /\ Root(s)' = Root(t) /\ Root(t)' = Root(t) /\ Row(t)'
  BY <1>3, <1>4, <1>6, P!SuccessorOfItsChain, StoreAssumptions DEF Row, Root, RowsStay
<1>8. r \in Refresh /\ r.spent = t /\ r.at = refreshing[x].at /\ r.token = s
  BY <1>1, <1>2, <1>3 DEF Refresh, Tokens
<1>9. RefreshOK(r)'
  BY <1>1, <1>3, <1>7, <1>8 DEF RefreshOK, Row, Root, Rotated, local
<1>10. RefreshGoes(x, r)
  BY <1>2 DEF Rotated
<1> QED BY <1>5, <1>8, <1>9, <1>10, RefreshActs DEF Rotated, local, IInv, TypeOK, RunGoes

\* The steps that wait, look or give up: nothing is written but the grant.
LEMMA WaitingSteps ==
    ASSUME IInv, NEW x \in Context,
           \/ KeepIfCurrent(x) \/ PutLooked(x) \/ WriteGrant(x) \/ EndLooked(x)
           \/ AfterSession(x) \/ AfterGrant(x) \/ AfterBoth(x) \/ EndDropped(x)
           \/ \E at \in Instant : Refused(x, at)
    PROVE  IInv'
<1>1. PICK t : t = refreshing[x].spent
  OBVIOUS
<1>2. refreshing[x] \in Refresh /\ RefreshOK(refreshing[x]) /\ t \in Token
  BY <1>1, RefreshThere DEF KeepIfCurrent, PutLooked, WriteGrant, EndLooked, AfterSession, AfterGrant,
     AfterBoth, EndDropped, Refused, Refreshing, Refresh
<1>3. held \in Tokens /\ grant \in Tokens /\ epoch \in Epoch
  BY DEF IInv, TypeOK, held
<1>4. UsesStore \/ UNCHANGED store
  <2>1. CASE \E at \in Instant : Refused(x, at)
    BY <1>1, <1>2, <2>1 DEF Refused, UsesStore
  <2> QED BY <2>1 DEF KeepIfCurrent, PutLooked, WriteGrant, EndLooked, AfterSession, AfterGrant,
                     AfterBoth, EndDropped
<1>5. RowsStay
  BY <1>4, StoreSteps DEF IInv
<1>6. UNCHANGED local /\ UNCHANGED clicks /\ adrift' \subseteq Request
         /\ doubled' \in BOOLEAN /\ grant' \in Tokens
  BY <1>2, <1>3 DEF KeepIfCurrent, PutLooked, WriteGrant, EndLooked, AfterSession, AfterGrant,
     AfterBoth, EndDropped, Refused, IInv, TypeOK, Refresh, Tokens
<1> DEFINE Ok(r) == r = Nothing \/ (r \in Refresh /\ RefreshOK(r)')
           Kept(r) == r \in Refresh /\ r.spent = refreshing[x].spent /\ r.at = refreshing[x].at
                      /\ r.step \notin {"issued", "put"}
<1>7. ASSUME NEW r, Kept(r) PROVE Ok(r)
  BY <1>1, <1>2, <1>5, <1>6, <1>7 DEF RefreshOK, Row, Root, RowsStay, local
<1>8. ASSUME NEW r, Ok(r), RefreshGoes(x, r) PROVE IInv'
  <2>1. UNCHANGED <<epoch, last, clicks>> /\ RunGoes
    BY <1>6 DEF local, RunGoes
  <2> QED BY <1>4, <1>6, <1>8, <2>1, RefreshActs
<1>9. CASE KeepIfCurrent(x)
  <2>1. PICK r : r = IF held = refreshing[x].spent
                     THEN [refreshing[x] EXCEPT !.step = "put", !.at = epoch] ELSE Nothing
    OBVIOUS
  <2>2. RefreshGoes(x, r) /\ refreshing[x].step = "issued"
    BY <1>9, <2>1 DEF KeepIfCurrent, Refreshing
  <2>3. CASE held = refreshing[x].spent
    <3>1. r \in Refresh /\ r.at = epoch /\ r.spent = t /\ r.token = refreshing[x].token
      BY <1>1, <1>2, <1>3, <2>1, <2>3 DEF Refresh
    <3>2. Root(t) = last /\ epoch \in Nat
      BY <1>1, <1>2, <1>3, <2>3, NullAssumption, BoundAssumption DEF IInv, Runs, RunOK, held, Epoch
    <3>3. RefreshOK(r)'
      BY <1>1, <1>2, <1>5, <1>6, <2>2, <3>1, <3>2 DEF RefreshOK, Row, Root, RowsStay, local
    <3> QED BY <1>8, <2>2, <3>1, <3>3
  <2> QED BY <1>8, <2>1, <2>2, <2>3
<1> HIDE DEF Ok
<1>10. CASE PutLooked(x)
  <2>1. PICK r : r = [refreshing[x] EXCEPT !.step = "sweep", !.gone = RunsOver]
    OBVIOUS
  <2>2. RefreshGoes(x, r)
    BY <1>10, <2>1 DEF PutLooked
  <2>3. Kept(r)
    BY <1>2, <2>1 DEF Refresh, RunsOver
  <2> QED BY <1>7, <1>8, <2>2, <2>3
<1>11. CASE AfterSession(x)
  <2>1. PICK r : r = [refreshing[x] EXCEPT !.step = "session", !.token = held]
    OBVIOUS
  <2>2. RefreshGoes(x, r)
    BY <1>11, <2>1 DEF AfterSession
  <2>3. Kept(r)
    BY <1>2, <1>3, <2>1 DEF Refresh
  <2> QED BY <1>7, <1>8, <2>2, <2>3
<1>12. CASE AfterGrant(x)
  <2>1. PICK r : r = [refreshing[x] EXCEPT !.step = "grant", !.token = grant]
    OBVIOUS
  <2>2. RefreshGoes(x, r)
    BY <1>12, <2>1 DEF AfterGrant
  <2>3. Kept(r)
    BY <1>2, <1>3, <2>1 DEF Refresh
  <2> QED BY <1>7, <1>8, <2>2, <2>3
<1>13. ASSUME NEW step \in {"refused", "end", "after", "drop"}, RefreshStep(x, step)
       PROVE  IInv'
  <2>1. PICK r : r = [refreshing[x] EXCEPT !.step = step]
    OBVIOUS
  <2>2. RefreshGoes(x, r)
    BY <1>13, <2>1 DEF RefreshStep
  <2>3. Kept(r)
    BY <1>2, <2>1 DEF Refresh
  <2> QED BY <1>7, <1>8, <2>2, <2>3
<1>14. CASE RefreshGoes(x, Nothing)
  BY <1>8, <1>14 DEF Ok
<1>15. \/ RefreshGoes(x, Nothing)
       \/ \E step \in {"refused", "end", "after", "drop"} : RefreshStep(x, step)
       \/ KeepIfCurrent(x) \/ PutLooked(x) \/ AfterSession(x) \/ AfterGrant(x)
  <2>1. CASE EndLooked(x)
    BY <2>1 DEF EndLooked
  <2>2. CASE AfterBoth(x)
    BY <2>2 DEF AfterBoth
  <2>3. CASE \E at \in Instant : Refused(x, at)
    BY <2>3 DEF Refused
  <2>4. CASE WriteGrant(x) \/ EndDropped(x)
    BY <2>4 DEF WriteGrant, EndDropped
  <2> QED BY <2>1, <2>2, <2>3, <2>4
<1> QED BY <1>9, <1>10, <1>11, <1>12, <1>13, <1>14, <1>15

\* A refresh stops, and the worker may still receive what it asked.
LEMMA StopSteps ==
    ASSUME IInv, NEW x \in Context, RefreshStops(x)
    PROVE  IInv'
<1>1. refreshing[x] \in Refresh
  BY RefreshThere DEF RefreshStops
<1>2. adrift' \subseteq Request
  BY <1>1 DEF RefreshStops, StillReceived, IInv, TypeOK, Request, Refresh
<1>3. PICK r : r = Nothing
  OBVIOUS
<1> QED BY <1>2, <1>3, RefreshActs DEF RefreshStops, local, IInv, TypeOK, RunGoes

\* Put, the loop of its keys, and End write one run.
LEMMA WritingSteps ==
    ASSUME IInv, NEW x \in Context,
           Put(x) \/ End(x) \/ \E e \in Epoch : PutSwept(x, e)
    PROVE  IInv'
<1>1. refreshing[x] \in Refresh /\ RefreshOK(refreshing[x])
  BY RefreshThere DEF Put, End, PutSwept, Refreshing
<1>2. UNCHANGED <<epoch, last, clicks>> /\ UNCHANGED store /\ adrift' \subseteq Request
         /\ doubled' \in BOOLEAN /\ grant' \in Tokens
  BY DEF Put, End, PutSwept, IInv, TypeOK
<1>3. RowsStay
  BY <1>2, StoreSteps DEF IInv
<1>4. ASSUME NEW r \in Refresh, r.spent = refreshing[x].spent, r.at = refreshing[x].at,
             r.step \notin {"issued", "put"}
      PROVE  RefreshOK(r)'
  BY <1>1, <1>2, <1>3, <1>4 DEF RefreshOK, Row, Root, RowsStay, Refresh
<1>5. CASE Put(x)
  <2>1. PICK r : r = [refreshing[x] EXCEPT !.step = "look"]
    OBVIOUS
  <2>2. PICK e, t : e = refreshing[x].at /\ t = refreshing[x].token
    OBVIOUS
  <2>3. r \in Refresh /\ r.spent = refreshing[x].spent /\ r.at = refreshing[x].at
           /\ r.step \notin {"issued", "put"}
    BY <1>1, <2>1 DEF Refresh
  <2>4. e \in Epoch /\ t \in Tokens /\ runs' = [runs EXCEPT ![e] = t] /\ RefreshGoes(x, r)
    BY <1>1, <1>5, <2>1, <2>2 DEF Put, Refresh, RefreshStep
  <2>5. t \in Token /\ Row(t) /\ e <= epoch /\ (e = epoch => Root(t) = last)
    BY <1>1, <1>5, <2>2 DEF RefreshOK, Put, Refreshing
  <2>6. RunOK(e, t)'
    BY <1>2, <1>3, <2>5 DEF RunOK, RowsStay, Row, Root
  <2>7. RunGoes
    BY <2>4, <2>6 DEF RunGoes
  <2> QED BY <1>2, <1>4, <2>3, <2>4, <2>7, RefreshActs
<1>6. ASSUME NEW e \in Epoch, runs' = [runs EXCEPT ![e] = NoToken]
      PROVE  RunGoes
  <2>1. RunOK(e, NoToken)'
    BY DEF RunOK
  <2> QED BY <1>6, <2>1 DEF RunGoes, Tokens
<1>7. CASE End(x)
  <2>1. PICK r : r = [refreshing[x] EXCEPT !.step = "after"]
    OBVIOUS
  <2>2. r \in Refresh /\ r.spent = refreshing[x].spent /\ r.at = refreshing[x].at
           /\ r.step \notin {"issued", "put"}
    BY <1>1, <2>1 DEF Refresh
  <2>3. RunGoes /\ RefreshGoes(x, r)
    BY <1>1, <1>6, <1>7, <2>1 DEF End, Refresh, RefreshStep
  <2> QED BY <1>2, <1>4, <2>2, <2>3, RefreshActs
<1>8. ASSUME NEW e \in Epoch, PutSwept(x, e) PROVE IInv'
  <2>1. PICK r : r = [refreshing[x] EXCEPT !.gone = @ \ {e}]
    OBVIOUS
  <2>2. r \in Refresh /\ r.spent = refreshing[x].spent /\ r.at = refreshing[x].at
           /\ r.step \notin {"issued", "put"}
    BY <1>1, <1>8, <2>1 DEF Refresh, PutSwept, Refreshing
  <2>3. RunGoes /\ RefreshGoes(x, r)
    BY <1>1, <1>6, <1>8, <2>1 DEF PutSwept
  <2> QED BY <1>2, <1>4, <2>2, <2>3, RefreshActs
<1> QED BY <1>5, <1>7, <1>8

-----------------------------------------------------------------------------
(* The steps of a pairing and of a log out.                                  *)

LEMMA ClickThere ==
    ASSUME IInv, NEW p \in Page, clicks[p] # Nothing
    PROVE  clicks[p] \in Click /\ ClickOK(clicks[p])
  BY DEF IInv, TypeOK, Calls, ClickOK

LEMMA PairSteps ==
    ASSUME IInv, NEW p \in Page, NEW k \in Code, Pair(p, k)
    PROVE  IInv'
<1>1. PICK c : c = [step |-> "pair", code |-> k, at |-> 0, token |-> NoToken,
                    gone |-> {}, dropped |-> FALSE]
  OBVIOUS
<1>2. c \in Click /\ c.step = "pair" /\ c.code = k
  <2>1. 0 \in Epoch /\ NoToken \in Tokens
    BY BoundAssumption DEF Tokens, Epoch
  <2> QED BY <1>1, <2>1 DEF Click
<1>3. ClickOK(c)'
  BY <1>2 DEF ClickOK
<1>4. ClickGoes(p, c) /\ UsesStore
  BY <1>1 DEF Pair, UsesStore
<1> QED BY <1>2, <1>3, <1>4, ClickActs DEF Pair, local, IInv, TypeOK, RunGoes, EpochMoves

LEMMA PairedSteps ==
    ASSUME IInv, NEW p \in Page, NEW t \in Token, NEW at \in Instant, Paired(p, t, at)
    PROVE  IInv'
<1>1. PICK c : c = [clicks[p] EXCEPT !.step = "adopt", !.token = t]
  OBVIOUS
<1>2. clicks[p] \in Click
  BY ClickThere DEF Paired, Clicked
<1>3. c \in Click /\ c.step = "adopt" /\ c.token = t
  BY <1>1, <1>2 DEF Click, Tokens
<1>4. PICK k : k = clicks[p].code
  OBVIOUS
<1>5. k \in Code /\ Store!RedeemPairing(k, t, at)
  BY <1>4, ClickThere DEF Paired, Clicked, ClickOK
<1>6. UsesStore
  BY <1>5 DEF UsesStore
<1>7. P!IInv /\ P!RedeemPairing(k, t, at)
  BY <1>5, SameStore DEF IInv
<1>8. Row(t)' /\ Root(t)' = t
  BY <1>5, <1>7, P!HeadOfItsChain, StoreAssumptions DEF Row, Root
<1>9. ClickOK(c)'
  BY <1>3, <1>8 DEF ClickOK, Row, Root
<1>10. ClickGoes(p, c)
  BY <1>1 DEF Paired
<1> QED BY <1>3, <1>6, <1>9, <1>10, ClickActs DEF Paired, local, IInv, TypeOK, RunGoes, EpochMoves

\* A new epoch: for the chain of the pairing, or for none.
LEMMA EpochSteps ==
    ASSUME IInv, NEW p \in Page, Adopt(p) \/ Forget(p)
    PROVE  IInv'
<1>1. clicks[p] \in Click /\ ClickOK(clicks[p])
  BY ClickThere DEF Adopt, Forget, Clicked
<1>2. epoch \in Epoch /\ epoch \in Nat /\ epoch' = epoch + 1 /\ epoch' \in Epoch /\ EpochMoves
  BY BoundAssumption DEF Adopt, Forget, NewEpoch, IInv, TypeOK, Epoch, EpochMoves
<1>3. UNCHANGED <<runs, refreshing>> /\ UNCHANGED store /\ adrift' \subseteq Request
         /\ doubled' \in BOOLEAN /\ grant' \in Tokens
  BY DEF Adopt, Forget, NewEpoch, IInv, TypeOK
<1>4. RowsStay
  BY <1>3, StoreSteps DEF IInv
<1>5. CASE Adopt(p)
  <2>1. PICK c : c = [clicks[p] EXCEPT !.step = "grant", !.at = epoch + 1]
    OBVIOUS
  <2>2. PICK t : t = clicks[p].token
    OBVIOUS
  <2>3. c \in Click /\ c.step = "grant" /\ c.token = t /\ c.at = epoch'
    BY <1>1, <1>2, <2>1, <2>2 DEF Click
  <2>4. t \in Token /\ Row(t) /\ Root(t) = t /\ last' = t
    BY <1>1, <1>5, <2>2 DEF ClickOK, Adopt, Clicked, NewEpoch
  <2>5. ClickOK(c)'
    BY <1>2, <1>4, <2>3, <2>4 DEF ClickOK, RowsStay, Row, Root
  <2>6. ClickGoes(p, c)
    BY <1>5, <2>1 DEF Adopt
  <2> QED BY <1>2, <1>3, <2>3, <2>4, <2>5, <2>6, ClickActs DEF RunGoes, Tokens
<1>6. CASE Forget(p)
  <2>1. PICK c : c = [clicks[p] EXCEPT !.step = "drop"]
    OBVIOUS
  <2>2. c \in Click /\ c.step = "drop"
    BY <1>1, <2>1 DEF Click
  <2>3. ClickOK(c)'
    BY <2>2 DEF ClickOK
  <2>4. ClickGoes(p, c) /\ last' \in Tokens
    BY <1>6, <2>1 DEF Forget, ClickStep, NewEpoch, Tokens
  <2> QED BY <1>2, <1>3, <2>2, <2>3, <2>4, ClickActs DEF RunGoes
<1> QED BY <1>5, <1>6

\* The pairing keeps its session.
LEMMA AdoptSteps ==
    ASSUME IInv, NEW p \in Page, AdoptGrant(p) \/ AdoptSession(p)
    PROVE  IInv'
<1>1. clicks[p] \in Click /\ ClickOK(clicks[p])
  BY ClickThere DEF AdoptGrant, AdoptSession, Clicked
<1>2. UNCHANGED <<epoch, last, refreshing>> /\ UNCHANGED store /\ adrift' \subseteq Request
         /\ doubled' \in BOOLEAN /\ EpochMoves /\ epoch' \in Epoch /\ last' \in Tokens
  BY DEF AdoptGrant, AdoptSession, local, IInv, TypeOK, EpochMoves
<1>3. RowsStay
  BY <1>2, StoreSteps DEF IInv
<1>4. PICK e, t : e = clicks[p].at /\ t = clicks[p].token
  OBVIOUS
<1>5. e \in Epoch /\ t \in Token /\ Row(t) /\ Root(t) = t /\ e <= epoch /\ (e = epoch => t = last)
  BY <1>1, <1>4 DEF AdoptGrant, AdoptSession, Clicked, ClickOK, Click
<1>6. CASE AdoptGrant(p)
  <2>1. PICK c : c = [clicks[p] EXCEPT !.step = "put"]
    OBVIOUS
  <2>2. c \in Click /\ c.step = "put" /\ c.token = t /\ c.at = e
    BY <1>1, <1>4, <2>1 DEF Click
  <2>3. ClickOK(c)'
    BY <1>2, <1>3, <1>5, <2>2 DEF ClickOK, RowsStay, Row, Root
  <2>4. ClickGoes(p, c) /\ grant' \in Tokens /\ RunGoes
    BY <1>4, <1>5, <1>6, <2>1 DEF AdoptGrant, ClickStep, Tokens, local, RunGoes
  <2> QED BY <1>2, <2>2, <2>3, <2>4, ClickActs
<1>7. CASE AdoptSession(p)
  <2>1. PICK c : c = [clicks[p] EXCEPT !.step = "look"]
    OBVIOUS
  <2>2. c \in Click /\ c.step = "look"
    BY <1>1, <2>1 DEF Click
  <2>3. ClickOK(c)'
    BY <2>2 DEF ClickOK
  <2>4. RunOK(e, t)'
    BY <1>2, <1>3, <1>5 DEF RunOK, RowsStay, Row, Root
  <2>5. ClickGoes(p, c) /\ grant' \in Tokens /\ RunGoes
    BY <1>4, <1>5, <1>7, <2>1, <2>4 DEF AdoptSession, ClickStep, Tokens, RunGoes, IInv, TypeOK
  <2> QED BY <1>2, <2>2, <2>3, <2>5, ClickActs
<1> QED BY <1>6, <1>7

\* The steps of a log out and of the loops, and a click that stops.
LEMMA LeavingSteps ==
    ASSUME IInv, NEW p \in Page,
           \/ LogOut(p) \/ Revoked(p) \/ RevokeUnanswered(p) \/ ForgetUnmarked(p)
           \/ DropLooked(p) \/ DropGrant(p) \/ ClickDone(p) \/ ClickStops(p) \/ AdoptLooked(p)
           \/ \E e \in Epoch : ClickSwept(p, e)
    PROVE  IInv'
<1>1. UNCHANGED <<epoch, last, refreshing>> /\ doubled' \in BOOLEAN /\ EpochMoves
         /\ epoch' \in Epoch /\ last' \in Tokens /\ grant' \in Tokens
  BY DEF LogOut, Revoked, RevokeUnanswered, ForgetUnmarked, DropLooked, DropGrant, ClickDone,
     ClickStops, AdoptLooked, ClickSwept, local, IInv, TypeOK, EpochMoves, Tokens
<1>2. clicks[p] # Nothing => clicks[p] \in Click /\ ClickOK(clicks[p])
  BY ClickThere
<1>3. UsesStore \/ UNCHANGED store
  <2>1. CASE Revoked(p)
    BY <1>2, <2>1 DEF Revoked, Clicked, ClickOK, UsesStore
  <2> QED BY <2>1 DEF LogOut, RevokeUnanswered, ForgetUnmarked, DropLooked, DropGrant, ClickDone,
                     ClickStops, AdoptLooked, ClickSwept
<1>4. adrift' \subseteq Request
  <2>1. CASE RevokeUnanswered(p)
    <3>1. clicks[p].token \in Token
      BY <1>2, <2>1 DEF RevokeUnanswered, Clicked, ClickOK
    <3> QED BY <2>1, <3>1 DEF RevokeUnanswered, StillReceived, Request, IInv, TypeOK
  <2>2. CASE ClickStops(p)
    <3>1. clicks[p].step = "revoke" => clicks[p].token \in Token
      BY <1>2, <2>2 DEF ClickStops, ClickOK
    <3> QED BY <2>2, <3>1 DEF ClickStops, StillReceived, Request, IInv, TypeOK
  <2> QED BY <2>1, <2>2 DEF LogOut, Revoked, ForgetUnmarked, DropLooked, DropGrant, ClickDone,
                     AdoptLooked, ClickSwept, IInv, TypeOK
<1>5. RunGoes
  <2>1. ASSUME NEW e \in Epoch, ClickSwept(p, e) PROVE RunGoes
    <3>1. RunOK(e, NoToken)'
      BY DEF RunOK
    <3> QED BY <2>1, <3>1 DEF ClickSwept, RunGoes, Tokens
  <2> QED BY <2>1 DEF LogOut, Revoked, RevokeUnanswered, ForgetUnmarked, DropLooked, DropGrant,
                     ClickDone, ClickStops, AdoptLooked, local, RunGoes
<1> DEFINE Quiet(c) == c.step \in {"forget", "drop", "dropping", "look", "sweep"}
<1>6. ASSUME NEW c, ClickGoes(p, c), c = Nothing \/ (c \in Click /\ Quiet(c))
      PROVE  IInv'
  <2>1. c = Nothing \/ (c \in Click /\ ClickOK(c)')
    BY <1>6 DEF ClickOK
  <2> QED BY <1>1, <1>3, <1>4, <1>5, <1>6, <2>1, ClickActs
<1>7. CASE LogOut(p)
  <2>1. PICK c : c = [step |-> IF held = NoToken THEN "forget" ELSE "revoke", code |-> Nothing,
                      at |-> 0, token |-> held, gone |-> {}, dropped |-> FALSE]
    OBVIOUS
  <2>2. held \in Tokens /\ 0 \in Epoch
    BY BoundAssumption DEF IInv, TypeOK, held, Epoch
  <2>3. c \in Click
    BY <2>1, <2>2 DEF Click
  <2>4. ClickOK(c)'
    BY <2>1, <2>2 DEF ClickOK, Tokens
  <2>5. ClickGoes(p, c)
    BY <1>7, <2>1 DEF LogOut
  <2> QED BY <1>1, <1>3, <1>4, <1>5, <2>3, <2>4, <2>5, ClickActs
<1>8. ASSUME NEW step \in {"forget", "drop"}, ClickStep(p, step), clicks[p] # Nothing
      PROVE  IInv'
  <2>1. PICK c : c = [clicks[p] EXCEPT !.step = step]
    OBVIOUS
  <2>2. ClickGoes(p, c) /\ c \in Click /\ Quiet(c)
    BY <1>2, <1>8, <2>1 DEF ClickStep, Click
  <2> QED BY <1>6, <2>2
<1>9. CASE DropLooked(p) \/ AdoptLooked(p)
  <2>1. PICK c : /\ ClickGoes(p, c)
                 /\ \/ c = [clicks[p] EXCEPT !.step = "dropping", !.gone = RunsHeld]
                    \/ c = [clicks[p] EXCEPT !.step = "sweep", !.gone = RunsOver]
    BY <1>9 DEF DropLooked, AdoptLooked
  <2>2. clicks[p] \in Click
    BY <1>2, <1>9 DEF DropLooked, AdoptLooked, Clicked
  <2>3. PICK gone \in SUBSET Epoch :
            \/ c = [clicks[p] EXCEPT !.step = "dropping", !.gone = gone]
            \/ c = [clicks[p] EXCEPT !.step = "sweep", !.gone = gone]
    BY <2>1 DEF RunsHeld, RunsOver
  <2>4. CASE c = [clicks[p] EXCEPT !.step = "dropping", !.gone = gone]
    BY <1>6, <2>1, <2>2, <2>4 DEF Click
  <2>5. CASE c = [clicks[p] EXCEPT !.step = "sweep", !.gone = gone]
    BY <1>6, <2>1, <2>2, <2>5 DEF Click
  <2> QED BY <2>3, <2>4, <2>5
<1>10. CASE DropGrant(p)
  <2>1. PICK c : c = [clicks[p] EXCEPT !.dropped = TRUE]
    OBVIOUS
  <2>2. ClickGoes(p, c) /\ c \in Click /\ Quiet(c)
    BY <1>2, <1>10, <2>1 DEF DropGrant, Clicked, Click
  <2> QED BY <1>6, <2>2
<1>11. ASSUME NEW e \in Epoch, ClickSwept(p, e) PROVE IInv'
  <2>1. PICK c : c = [clicks[p] EXCEPT !.gone = @ \ {e}]
    OBVIOUS
  <2>2. clicks[p] \in Click /\ clicks[p].step \in {"sweep", "dropping"} /\ ClickGoes(p, c)
    BY <1>2, <1>11, <2>1 DEF ClickSwept, Clicked
  <2>3. c \in Click /\ Quiet(c)
    BY <2>1, <2>2 DEF Click
  <2> QED BY <1>6, <2>2, <2>3
<1>12. CASE ClickDone(p) \/ ClickStops(p)
  <2>1. ClickGoes(p, Nothing)
    BY <1>12 DEF ClickDone, ClickStops
  <2> QED BY <1>6, <2>1
<1>13. CASE Revoked(p) \/ RevokeUnanswered(p) \/ ForgetUnmarked(p)
  BY <1>8, <1>13 DEF Revoked, RevokeUnanswered, ForgetUnmarked, Clicked
<1> QED BY <1>7, <1>9, <1>10, <1>11, <1>12, <1>13

-----------------------------------------------------------------------------
(* The whole.                                                                *)

LEMMA OutsideSteps ==
    ASSUME IInv,
           \/ \E r \in adrift : \E s \in Token, at \in Instant : AdriftHandled(r, s, at)
           \/ BrowserCloses
    PROVE  IInv'
<1>1. UNCHANGED local /\ EpochMoves
  BY DEF AdriftHandled, BrowserCloses, local, EpochMoves
<1>2. UsesStore \/ UNCHANGED store
  <2>1. ASSUME NEW r \in adrift, NEW s \in Token, NEW at \in Instant, AdriftHandled(r, s, at)
        PROVE  UsesStore
    <3>1. r.token \in Token
      BY DEF IInv, TypeOK, Request
    <3> QED BY <2>1, <3>1 DEF AdriftHandled, UsesStore
  <2> QED BY <2>1 DEF BrowserCloses
<1>3. P!IInv' /\ RowsStay
  BY <1>2, StoreSteps DEF IInv
<1>4. Store!TypeOK'
  BY <1>3 DEF P!IInv, P!TypeOK, Store!TypeOK, P!SessionRow, Store!SessionRow, P!PairingRow,
         Store!PairingRow, P!EndCall, Store!EndCall, P!RenameCall, Store!RenameCall
<1>5. TypeOK /\ RefreshesOK /\ ClicksOK /\ Runs
  BY Parts
<1>6. Runs' /\ runs' \in [Epoch -> Tokens]
  BY <1>1, <1>3, <1>5, RunsStay DEF local
<1>7. CASE \E r \in adrift : \E s \in Token, at \in Instant : AdriftHandled(r, s, at)
  <2>1. RestOK' /\ UNCHANGED <<refreshing, clicks>>
    BY <1>1, <1>5, <1>7 DEF AdriftHandled, local, RestOK, TypeOK
  <2>2. RefreshesOK' /\ ClicksOK'
    BY <1>1, <1>3, <1>5, <2>1, RefreshesStay, ClicksStay
  <2> QED BY <1>3, <1>4, <1>6, <2>1, <2>2 DEF IInv, TypeOK, RefreshesOK, ClicksOK, Calls, RestOK
<1>8. CASE BrowserCloses
  <2>1. RefreshesOK' /\ ClicksOK'
    BY <1>8 DEF BrowserCloses, RefreshesOK, ClicksOK
  <2>2. ASSUME NEW x \in Context, Refreshing(x, "asked")
        PROVE  [asks |-> "refresh", token |-> refreshing[x].spent] \in Request
    BY <2>2, RefreshThere DEF Refreshing, Refresh, Request
  <2>3. ASSUME NEW p \in Page, Clicked(p, "revoke")
        PROVE  [asks |-> "revoke", token |-> clicks[p].token] \in Request
    BY <2>3, ClickThere DEF Clicked, ClickOK, Request
  <2>4. adrift' \subseteq Request
    BY <1>5, <1>8, <2>2, <2>3 DEF BrowserCloses, StillReceived, TypeOK
  <2>5. RestOK'
    BY <1>1, <1>5, <1>8, <2>4 DEF BrowserCloses, local, RestOK, TypeOK, Tokens
  <2> QED BY <1>3, <1>4, <1>6, <2>1, <2>5 DEF IInv, TypeOK, RefreshesOK, ClicksOK, Calls, RestOK
<1> QED BY <1>7, <1>8

LEMMA IInvInit == Init => IInv
<1> SUFFICES ASSUME Init PROVE IInv
  OBVIOUS
<1>1. P!IInv
  BY StoreInit
<1>2. RefreshesOK /\ ClicksOK
  BY DEF Init, RefreshesOK, ClicksOK
<1>3. Runs /\ runs \in [Epoch -> Tokens]
  <2>1. \A e \in Epoch : runs[e] = NoToken
    BY DEF Init
  <2> QED BY <2>1 DEF Init, Runs, RunOK, Tokens
<1>4. RestOK
  <2>1. 0 \in Epoch
    BY BoundAssumption DEF Epoch
  <2> QED BY <2>1 DEF Init, RestOK, Tokens
<1> QED BY <1>1, <1>2, <1>3, <1>4, Parts

LEMMA IInvStep == IInv /\ [Next]_vars => IInv'
<1> SUFFICES ASSUME IInv, [Next]_vars PROVE IInv'
  OBVIOUS
<1>1. ASSUME NEW x \in Context,
             \/ RefreshStarts(x) \/ KeepIfCurrent(x) \/ Put(x) \/ PutLooked(x) \/ WriteGrant(x)
             \/ EndLooked(x) \/ End(x) \/ AfterSession(x) \/ AfterGrant(x) \/ AfterBoth(x)
             \/ EndDropped(x) \/ RefreshStops(x)
             \/ \E e \in Epoch : PutSwept(x, e)
             \/ \E at \in Instant : Refused(x, at) \/ \E s \in Token : Rotated(x, s, at)
      PROVE  IInv'
  BY <1>1, StartSteps, RotatedSteps, WaitingSteps, StopSteps, WritingSteps
<1>2. ASSUME NEW p \in Page,
             \/ LogOut(p) \/ Revoked(p) \/ RevokeUnanswered(p) \/ Forget(p) \/ ForgetUnmarked(p)
             \/ DropLooked(p) \/ DropGrant(p) \/ ClickDone(p) \/ ClickStops(p)
             \/ Adopt(p) \/ AdoptGrant(p) \/ AdoptSession(p) \/ AdoptLooked(p)
             \/ \E e \in Epoch : ClickSwept(p, e)
             \/ \E k \in Code : Pair(p, k)
             \/ \E t \in Token, at \in Instant : Paired(p, t, at)
      PROVE  IInv'
  BY <1>2, PairSteps, PairedSteps, EpochSteps, AdoptSteps, LeavingSteps
<1>3. CASE UNCHANGED vars
  <2>1. P!IInv' /\ RowsStay
    BY <1>3, StoreSteps DEF IInv, vars, store
  <2>2. EpochMoves /\ UNCHANGED <<refreshing, clicks, runs>>
    BY <1>3 DEF vars, EpochMoves
  <2>3. TypeOK /\ RefreshesOK /\ ClicksOK /\ Runs
    BY Parts
  <2>4. RefreshesOK' /\ ClicksOK' /\ Runs'
    BY <2>1, <2>2, <2>3, RefreshesStay, ClicksStay, RunsStay
  <2>5. TypeOK'
    BY <1>3, <2>3 DEF vars, TypeOK, Store!TypeOK
  <2> QED BY <2>1, <2>4, <2>5 DEF IInv, RefreshesOK, ClicksOK, Calls
<1> QED BY <1>1, <1>2, <1>3, OutsideSteps DEF Next

LEMMA Inductive == Spec => []IInv
BY IInvInit, IInvStep, PTL DEF Spec

\* TypeOK: what storage, the calls and the network carry is what the code puts there.
THEOREM TypeCorrect == Spec => []TypeOK
<1>1. IInv => TypeOK
  BY DEF IInv
<1> QED BY <1>1, Inductive, PTL

\* HeldIsOfTheLastPairing: whatever two contexts were doing, the session that storage
\* answers is of the last pairing, and nothing is left of it after a log out.
THEOREM HeldIsOfTheLastPairingAlways == Spec => []HeldIsOfTheLastPairing
<1>1. IInv => HeldIsOfTheLastPairing
  BY DEF IInv, TypeOK, Runs, RunOK, HeldIsOfTheLastPairing, held, Matches
<1> QED BY <1>1, Inductive, PTL

-----------------------------------------------------------------------------
(* One answer for one token: why the token that storage answers is live.     *)

\* The worker may still receive a refresh of this token.
Asked(v) ==
    \/ \E x \in Context : Refreshing(x, "asked") /\ refreshing[x].spent = v
    \/ [asks |-> "refresh", token |-> v] \in adrift

\* A refresh that has the successor and did not write it; one that will write the run that counts.
Carrying(x) == Refreshing(x, "issued") \/ Refreshing(x, "put")
Keeping(x) == Refreshing(x, "put") /\ refreshing[x].at = epoch

\* The same for a pairing and the session that its code bought.
Adopting(p) == Clicked(p, "adopt") \/ Clicked(p, "grant") \/ Clicked(p, "put")
Opening(p) == (Clicked(p, "grant") \/ Clicked(p, "put")) /\ clicks[p].at = epoch

LiveIfAny(t) == (\E u \in Store!Chain(Root(t)) : Store!Live(u)) => Store!Live(t)

\* What `doubled` says: two contexts spend two tokens, and a refresh that was answered has no
\* late request of its token behind it.
Apart ==
    \A x \in Context : refreshing[x] # Nothing =>
        /\ Carrying(x) => [asks |-> "refresh", token |-> refreshing[x].spent] \notin adrift
        /\ \A y \in Context : refreshing[y] # Nothing /\ y # x
              => refreshing[y].spent # refreshing[x].spent

\* Nobody held or spent a successor before its refresh writes it.
CarriedIsNew ==
    \A x \in Context : Carrying(x) =>
        /\ held # refreshing[x].token
        /\ \A y \in Context : refreshing[y] # Nothing => refreshing[y].spent # refreshing[x].token
        /\ \A y \in Context : Carrying(y) /\ y # x => refreshing[y].token # refreshing[x].token

\* While a token of the last chain is asked for, storage answers no other.
AskedIsHeld ==
    \A v \in Token : Asked(v) =>
        /\ Row(v)
        /\ Root(v) = last => held \in {v, NoToken} /\ \A x \in Context : ~Keeping(x)

\* One call at most is about to write the run that counts.
WritesAreAlone ==
    /\ \A x \in Context : Keeping(x) =>
          /\ held \in {refreshing[x].spent, NoToken}
          /\ \A y \in Context : Keeping(y) => y = x
    /\ \A p \in Page : Opening(p) =>
          /\ held = NoToken
          /\ \A x \in Context : ~Keeping(x)
          /\ \A q \in Page : Opening(q) => q = p

\* The session that a pairing bought is nobody else's until it is written.
AdoptedIsNew ==
    \A p \in Page : Adopting(p) =>
        /\ LiveIfAny(clicks[p].token)
        /\ ~Opening(p) => clicks[p].token # last
        /\ \A x \in Context : refreshing[x] # Nothing => Root(refreshing[x].spent) # clicks[p].token
        /\ \A v \in Token : Asked(v) => Root(v) # clicks[p].token
        /\ \A q \in Page : Adopting(q) /\ q # p => clicks[q].token # clicks[p].token

WrittenIsLive ==
    \A x \in Context :
        (Refreshing(x, "issued") /\ held = refreshing[x].spent) \/ Keeping(x)
            => LiveIfAny(refreshing[x].token)

HeldIsLive == held # NoToken => LiveIfAny(held)

LastIsRow == last # NoToken => Row(last)

Once ==
    /\ Apart /\ CarriedIsNew /\ AskedIsHeld /\ WritesAreAlone
    /\ AdoptedIsNew /\ WrittenIsLive /\ HeldIsLive /\ LastIsRow

\* A predecessor is of the same chain.
LinksHold ==
    \A t, u \in Token : Row(t) /\ Row(u) /\ sessions[t].pred = u => Root(u) = Root(t)

SpentOnce == LinksHold /\ (~doubled => Once)

-----------------------------------------------------------------------------
(* What the worker does to a chain.                                          *)

LEMMA LinksStep ==
    ASSUME P!IInv, LinksHold, UsesStore \/ UNCHANGED store
    PROVE  LinksHold'
<1>1. CASE UNCHANGED store  BY <1>1 DEF store, LinksHold, Row, Root
<1>2. CASE UsesStore
  <2>1. P!Next  BY <1>2, SameStore DEF UsesStore, P!Next
  <2>2. P!KeepsAll \/ \E s \in Token : P!Draws(s)
    BY <2>1, P!StepDraws, StoreAssumptions
  <2> SUFFICES ASSUME NEW t \in Token, NEW u \in Token, Row(t)', Row(u)', sessions'[t].pred = u
               PROVE  Root(u)' = Root(t)'
    BY DEF LinksHold
  <2>3. ASSUME P!Keeps(t), P!Keeps(u) PROVE Root(u)' = Root(t)'
    BY <2>3 DEF P!Keeps, LinksHold, Row, Root
  <2>4. ASSUME NEW s \in Token, P!Draws(s) PROVE Root(u)' = Root(t)'
    <3>1. CASE t # s /\ u # s  BY <2>3, <2>4, <3>1 DEF P!Draws
    <3>2. CASE t # s /\ u = s
      <4>1. P!Keeps(t) /\ s \notin issued  BY <2>4, <3>2 DEF P!Draws
      <4>2. sessions[t] # NoRow /\ sessions[t].pred = s  BY <3>2, <4>1 DEF P!Keeps, Row
      <4>3. sessions[t].pred \in issued \cup {NoToken}  BY <4>2 DEF P!IInv, P!DigestsAreIssued
      <4> QED  BY <4>1, <4>2, <4>3, NullAssumption
    <3>3. CASE t = s
      <4>1. CASE P!DrawsHead(s)  BY <3>3, <4>1, NullAssumption DEF P!DrawsHead
      <4>2. ASSUME NEW v \in Token, P!DrawsSuccessor(v, s) PROVE Root(u)' = Root(t)'
        <5>1. u = v /\ Root(t)' = Root(v)  BY <3>3, <4>2 DEF P!DrawsSuccessor, Root
        <5>2. v # s /\ P!Keeps(v)
          BY <2>4, <4>2 DEF P!Draws, P!DrawsSuccessor, P!Live, P!IInv, P!DigestsAreIssued
        <5> QED  BY <5>1, <5>2 DEF P!Keeps, Row, Root
      <4> QED  BY <2>4, <4>1, <4>2 DEF P!Draws
    <3> QED  BY <3>1, <3>2, <3>3
  <2> QED  BY <2>2, <2>3, <2>4 DEF P!KeepsAll
<1> QED  BY <1>1, <1>2

Rotates(v, s) == \E at \in Instant : Store!RotateFirst(v, s, at) \/ Store!RotateAgain(v, s, at)

\* A token that is live when its chain is stays so, unless another of its chain is refreshed.
Lasts(v) ==
    \A t \in Token : Row(t) /\ LiveIfAny(t) /\ ~(v \in Token /\ v # t /\ Root(v) = Root(t))
        => LiveIfAny(t)'

\* A chain ends as a whole.
LEMMA RevokedLasts ==
    ASSUME P!IInv, NEW r, sessions' = Store!Revoking(Store!Chain(r))
    PROVE  Lasts(NoToken)
<1> SUFFICES ASSUME NEW t \in Token, Row(t), LiveIfAny(t) PROVE LiveIfAny(t)'
  BY DEF Lasts
<1>0. sessions \in [Token -> P!SessionRow \cup {NoRow}]  BY DEF P!IInv, P!TypeOK
<1>1. ASSUME NEW u \in Token, Row(u)
      PROVE  /\ Root(u) = r => Root(u)' = r /\ sessions'[u].revoked
             /\ Root(u) # r => sessions'[u] = sessions[u]
  <2>1. CASE Root(u) = r
    <3>1. sessions[u] \in P!SessionRow  BY <1>0, <1>1 DEF Row
    <3>2. sessions'[u] = [sessions[u] EXCEPT !.revoked = TRUE]
      BY <1>1, <2>1 DEF Store!Revoking, Store!Chain, Row, Root
    <3> QED  BY <2>1, <3>1, <3>2 DEF P!SessionRow, Root
  <2>2. CASE Root(u) # r  BY <2>2 DEF Store!Revoking, Store!Chain, Root
  <2> QED  BY <2>1, <2>2
<1>2. \A u \in Token : sessions'[u] # NoRow => Row(u)
  BY DEF Store!Revoking, Store!Chain, Row
<1>3. ASSUME NEW u \in Token, Store!Live(u)', Root(u)' = Root(t)'
      PROVE  Store!Live(t)'
  <2>1. Row(u) /\ Root(u) # r /\ sessions'[u] = sessions[u]
    BY <1>1, <1>2, <1>3 DEF Store!Live
  <2>2. Root(t) # r
    BY <1>1, <1>3, <2>1 DEF Root
  <2>3. sessions'[t] = sessions[t]  BY <1>1, <2>2
  <2>4. Store!Live(u) /\ Root(u) = Root(t)  BY <1>3, <2>1, <2>3 DEF Store!Live, Root
  <2>5. Store!Live(t)  BY <2>1, <2>4 DEF LiveIfAny, Store!Chain, Row, Root
  <2> QED  BY <2>3, <2>5 DEF Store!Live
<1> QED  BY <1>3 DEF LiveIfAny, Store!Chain, Root

\* What draws no token and ends no part of a chain.
LEMMA QuietLasts ==
    ASSUME P!IInv,
           \/ UNCHANGED store
           \/ \E k \in Code, p \in Person, n \in Name, at \in Instant : Store!CreatePairing(k, p, n, at)
           \/ \E t \in Token, at \in Instant : Store!RotateLate(t, at) \/ Store!RotateReplay(t, at)
           \/ \E t \in Token : Store!RevokeSession(t)
    PROVE  Lasts(NoToken)
<1>1. CASE sessions' = sessions
  BY <1>1 DEF Lasts, LiveIfAny, Store!Chain, Store!Live, Root
<1>2. ASSUME NEW r, sessions' = Store!Revoking(Store!Chain(r)) PROVE Lasts(NoToken)
  BY <1>2, RevokedLasts
<1> QED  BY <1>1, <1>2 DEF store, Store!CreatePairing, Store!RotateLate, Store!RotateReplay, Store!RevokeSession

\* A code buys a chain of one token.
LEMMA RedeemLasts ==
    ASSUME P!IInv, NEW k \in Code, NEW t \in Token, NEW at \in Instant, Store!RedeemPairing(k, t, at)
    PROVE  t \notin issued /\ Lasts(NoToken) /\ LiveIfAny(t)'
<1>0. P!DigestsAreIssued /\ sessions \in [Token -> P!SessionRow \cup {NoRow}]
  BY DEF P!IInv, P!TypeOK
<1>1. t \notin issued /\ \A u \in Token \ {t} : sessions'[u] = sessions[u]
  BY <1>0 DEF Store!RedeemPairing
<1>2. PICK head : /\ head = [subject |-> pairings[k].subject, name |-> pairings[k].name,
                             expires |-> at + SessionTtl, revoked |-> FALSE,
                             rotated |-> Store!NotRotated, pred |-> NoToken, root |-> t, code |-> k]
                  /\ sessions' = [sessions EXCEPT ![t] = head]
  BY DEF Store!RedeemPairing
<1>3. sessions'[t] = head /\ head.root = t /\ ~head.revoked  BY <1>0, <1>2
<1>4. sessions'[t] # NoRow
  <2>1. Row(t)'
    <3>1. P!RedeemPairing(k, t, at)  BY SameStore
    <3> QED  BY <3>1, P!HeadOfItsChain, StoreAssumptions DEF Row
  <2> QED  BY <2>1 DEF Row
<1>5. LiveIfAny(t)'  BY <1>3, <1>4 DEF LiveIfAny, Store!Live
<1>6. ASSUME NEW u \in Token, Row(u), LiveIfAny(u) PROVE LiveIfAny(u)'
  <2>1. u # t /\ Root(u) # t  BY <1>0, <1>1, <1>6 DEF P!DigestsAreIssued, Row, Root
  <2>2. sessions'[u] = sessions[u]  BY <1>1, <2>1
  <2>3. \A w \in Token : Root(w)' = Root(u)' => w # t
    BY <1>3, <2>1, <2>2 DEF Root
  <2> QED  BY <1>1, <1>6, <2>2, <2>3 DEF LiveIfAny, Store!Chain, Store!Live, Root
<1> QED  BY <1>1, <1>5, <1>6 DEF Lasts

\* A refresh ends no part of another chain, and what it leaves live is its token and the successor.
LEMMA RotationLasts ==
    ASSUME P!IInv, LinksHold, NEW v \in Token, NEW s \in Token, Rotates(v, s)
    PROVE  s \notin issued /\ Row(v) /\ Lasts(v) /\ LiveIfAny(v)' /\ LiveIfAny(s)'
<1>0. P!DigestsAreIssued /\ sessions \in [Token -> P!SessionRow \cup {NoRow}]
  BY DEF P!IInv, P!TypeOK
<1>1. PICK at \in Instant : Store!RotateFirst(v, s, at) \/ Store!RotateAgain(v, s, at)
  BY DEF Rotates
<1>2. P!Draws(s) /\ P!DrawsSuccessor(v, s)
  <2>1. P!RotateFirst(v, s, at) \/ P!RotateAgain(v, s, at)  BY <1>1, SameStore
  <2>2. P!Draws(s)
    BY <2>1, P!RotateFirstDraws, P!RotateAgainDraws, StoreAssumptions
  <2>3. sessions'[s] = P!Successor(v) /\ v # s /\ P!Live(v)
    BY <1>0, <2>1 DEF P!RotateFirst, P!RotateAgain, P!Live, P!DigestsAreIssued
  <2>4. sessions'[s].pred = v
    BY <1>0, <2>3 DEF P!Successor, P!SessionRow, P!Live
  <2>5. v # NoToken /\ sessions'[s].pred # NoToken  BY <2>4, NullAssumption
  <2>6. PICK t \in Token : P!DrawsSuccessor(t, s)  BY <2>2, <2>5 DEF P!Draws, P!DrawsHead
  <2>7. t = v  BY <2>4, <2>6 DEF P!DrawsSuccessor
  <2> QED  BY <2>2, <2>6, <2>7
<1>3. Row(v) /\ Store!Live(v) /\ v # s /\ Root(s)' = Root(v) /\ s \notin issued
  BY <1>0, <1>2 DEF P!Draws, P!DrawsSuccessor, P!Live, Store!Live, P!DigestsAreIssued, Row, Root
<1>4. Store!Live(v)' /\ Root(v)' = Root(v)
  <2>1. sessions[v] \in P!SessionRow  BY <1>0, <1>3 DEF Row
  <2>2. Row(v)' /\ P!Keeps(v)  BY <1>2, <1>3 DEF P!Draws, P!DrawsSuccessor, Row
  <2>3. sessions'[v] = [sessions[v] EXCEPT !.rotated = at] \/ sessions'[v] = sessions[v]
    BY <1>1, <1>3 DEF Store!RotateFirst, Store!RotateAgain, Store!Chain
  <2>4. sessions'[v].revoked = sessions[v].revoked  BY <2>1, <2>3 DEF P!SessionRow
  <2> QED  BY <1>3, <2>2, <2>4 DEF P!Keeps, Store!Live, Row, Root
<1>5. Store!Live(s)'
  <2>1. sessions'[s] = Store!Successor(v) /\ sessions[v] \in P!SessionRow
    BY <1>0, <1>1, <1>3 DEF Store!RotateFirst, Store!RotateAgain, Row
  <2>2. ~sessions'[s].revoked  BY <2>1 DEF Store!Successor, P!SessionRow
  <2>3. Row(s)'  BY <1>2 DEF P!DrawsSuccessor, Row
  <2> QED  BY <2>2, <2>3 DEF Store!Live, Row
<1>6. ASSUME NEW u \in Token, Row(u), Root(u) # Root(v)
      PROVE  sessions'[u] = sessions[u]
  <2>1. u # s /\ u # v  BY <1>0, <1>3, <1>6 DEF P!DigestsAreIssued, Row
  <2>2. u # sessions[v].pred  BY <1>3, <1>6 DEF LinksHold
  <2> QED  BY <1>1, <1>6, <2>1, <2>2 DEF Store!RotateFirst, Store!RotateAgain, Store!Chain, Row, Root
<1>7. ASSUME NEW u \in Token, Row(u), LiveIfAny(u), ~(v # u /\ Root(v) = Root(u))
      PROVE  LiveIfAny(u)'
  <2>1. CASE v = u  BY <1>4, <2>1 DEF LiveIfAny
  <2>2. CASE Root(v) # Root(u)
    <3>1. sessions'[u] = sessions[u]  BY <1>6, <1>7, <2>2
    <3>2. ASSUME NEW w \in Token, Store!Live(w)', Root(w)' = Root(u)'
          PROVE  Store!Live(u)'
      <4>1. Root(w)' = Root(u)  BY <3>1, <3>2 DEF Root
      <4>2. w # s  BY <1>3, <2>2, <4>1
      <4>3. P!Keeps(w) /\ sessions'[w] # NoRow
        BY <1>2, <3>2, <4>2 DEF P!Draws, Store!Live
      <4>4. Row(w) /\ Root(w) = Root(u)  BY <4>1, <4>3 DEF P!Keeps, Row, Root
      <4>5. sessions'[w] = sessions[w]  BY <1>6, <2>2, <4>4
      <4>6. Store!Live(u)
        BY <1>7, <3>2, <4>4, <4>5 DEF LiveIfAny, Store!Chain, Store!Live, Row, Root
      <4> QED  BY <3>1, <4>6 DEF Store!Live
    <3> QED  BY <3>2 DEF LiveIfAny, Store!Chain, Root
  <2> QED  BY <1>7, <2>1, <2>2
<1> QED  BY <1>3, <1>4, <1>5, <1>7 DEF Lasts, LiveIfAny

-----------------------------------------------------------------------------
(* Steps that start and write nothing.                                       *)

\* A refresh or a click stays as it was, is over, or goes on to what does not write a session.
RefreshCalms(x) ==
    \/ refreshing'[x] = refreshing[x]
    \/ refreshing'[x] = Nothing
    \/ /\ refreshing[x] # Nothing
       /\ refreshing'[x].spent = refreshing[x].spent
       /\ refreshing'[x].step \notin {"asked", "issued", "put"}

ClickCalms(p) ==
    \/ clicks'[p] = clicks[p]
    \/ clicks'[p] = Nothing
    \/ clicks'[p].step \notin {"adopt", "grant", "put"}
    \/ /\ Clicked(p, "grant") /\ clicks'[p].step = "put"
       /\ clicks'[p].token = clicks[p].token /\ clicks'[p].at = clicks[p].at

\* What is adrift now was so before, or was asked for by a call that is over.
AdriftCalms ==
    \A v \in Token : [asks |-> "refresh", token |-> v] \in adrift' =>
        \/ [asks |-> "refresh", token |-> v] \in adrift
        \/ \E x \in Context :
              Refreshing(x, "asked") /\ refreshing[x].spent = v /\ refreshing'[x] = Nothing

Calms ==
    /\ \A x \in Context : RefreshCalms(x)
    /\ \A p \in Page : ClickCalms(p)
    /\ AdriftCalms
    /\ UNCHANGED <<epoch, last>>

LEMMA CalmViews ==
    ASSUME Calms
    PROVE  /\ \A v \in Token : Asked(v)' => Asked(v)
           /\ \A x \in Context : Carrying(x)' => Carrying(x) /\ refreshing'[x] = refreshing[x]
           /\ \A x \in Context : Keeping(x)' => Keeping(x) /\ refreshing'[x] = refreshing[x]
           /\ \A x \in Context : refreshing'[x] # Nothing =>
                 refreshing[x] # Nothing /\ refreshing'[x].spent = refreshing[x].spent
           /\ \A p \in Page : Adopting(p)' => Adopting(p) /\ clicks'[p].token = clicks[p].token
           /\ \A p \in Page : Opening(p)' <=> Opening(p) /\ Adopting(p)'
<1>1. ASSUME NEW x \in Context
      PROVE  /\ Refreshing(x, "asked")' => Refreshing(x, "asked") /\ refreshing'[x] = refreshing[x]
             /\ Carrying(x)' => Carrying(x) /\ refreshing'[x] = refreshing[x]
             /\ Keeping(x)' => Keeping(x) /\ refreshing'[x] = refreshing[x]
             /\ refreshing'[x] # Nothing =>
                 refreshing[x] # Nothing /\ refreshing'[x].spent = refreshing[x].spent
  <2>1. RefreshCalms(x) /\ epoch' = epoch  BY DEF Calms
  <2> QED  BY <2>1 DEF RefreshCalms, Refreshing, Carrying, Keeping
<1>2. ASSUME NEW v \in Token, Asked(v)' PROVE Asked(v)
  BY <1>1, <1>2 DEF Calms, AdriftCalms, Asked
<1>3. ASSUME NEW p \in Page
      PROVE  /\ Adopting(p)' => Adopting(p) /\ clicks'[p].token = clicks[p].token
             /\ Opening(p)' <=> Opening(p) /\ Adopting(p)'
  <2>1. ClickCalms(p) /\ epoch' = epoch  BY DEF Calms
  <2> QED  BY <2>1 DEF ClickCalms, Clicked, Adopting, Opening
<1> QED  BY <1>1, <1>2, <1>3

\* What a call says of the last chain.
LEMMA OfTheLast ==
    ASSUME IInv
    PROVE  /\ epoch \in Epoch /\ held \in Tokens
           /\ held # NoToken => held \in Token /\ Row(held) /\ Root(held) = last
           /\ \A x \in Context : refreshing[x] # Nothing =>
                 refreshing[x].spent \in Token /\ Row(refreshing[x].spent)
           /\ \A x \in Context : Carrying(x) =>
                 /\ refreshing[x] # Nothing
                 /\ refreshing[x].token \in Token /\ Row(refreshing[x].token)
                 /\ Root(refreshing[x].token) = Root(refreshing[x].spent)
           /\ \A x \in Context : Keeping(x) =>
                 Carrying(x) /\ Root(refreshing[x].spent) = last
           /\ \A p \in Page : Adopting(p) =>
                 /\ clicks[p] # Nothing
                 /\ clicks[p].token \in Token /\ Row(clicks[p].token)
                 /\ Root(clicks[p].token) = clicks[p].token
           /\ \A p \in Page : Opening(p) => Adopting(p) /\ clicks[p].token = last
<1>1. epoch \in Epoch /\ held \in Tokens  BY DEF IInv, TypeOK, held
<1>2. held # NoToken => held \in Token /\ Row(held) /\ Root(held) = last
  BY <1>1 DEF IInv, Runs, RunOK, held, Tokens
<1>3. ASSUME NEW x \in Context, refreshing[x] # Nothing
      PROVE  /\ refreshing[x].spent \in Token /\ Row(refreshing[x].spent)
             /\ Carrying(x) =>
                 /\ refreshing[x].token \in Token /\ Row(refreshing[x].token)
                 /\ Root(refreshing[x].token) = Root(refreshing[x].spent)
             /\ Keeping(x) => Carrying(x) /\ Root(refreshing[x].spent) = last
  BY <1>3, RefreshThere DEF RefreshOK, Refresh, Carrying, Keeping, Refreshing
<1>4. ASSUME NEW p \in Page, Adopting(p)
      PROVE  /\ clicks[p] # Nothing
             /\ clicks[p].token \in Token /\ Row(clicks[p].token)
             /\ Root(clicks[p].token) = clicks[p].token
             /\ Opening(p) => clicks[p].token = last
  BY <1>4, ClickThere DEF ClickOK, Adopting, Opening, Clicked
<1> QED  BY <1>1, <1>2, <1>3, <1>4 DEF Carrying, Keeping, Refreshing, Opening, Adopting

\* A refresh that has its successor has no other request of its token beside it.
LEMMA CarriedIsNotAsked ==
    ASSUME Apart, NEW x \in Context, Carrying(x)
    PROVE  ~Asked(refreshing[x].spent)
<1>1. refreshing[x] # Nothing /\ ~Refreshing(x, "asked")  BY DEF Carrying, Refreshing
<1> QED  BY <1>1 DEF Apart, Asked, Refreshing

\* What was live in time goes on to be so.
LEMMA LivesOn ==
    ASSUME IInv, Once, NEW v, v \in Token => Asked(v), Lasts(v)
    PROVE  /\ \A t \in Token : t = held => LiveIfAny(t)'
           /\ \A x \in Context, t \in Token :
                 /\ (Refreshing(x, "issued") /\ held = refreshing[x].spent) \/ Keeping(x)
                 /\ t = refreshing[x].token
                 => LiveIfAny(t)'
           /\ \A p \in Page, t \in Token : Adopting(p) /\ t = clicks[p].token => LiveIfAny(t)'
<1>1. ASSUME NEW t \in Token, Row(t), LiveIfAny(t), Root(t) = last,
             v \in Token /\ Root(v) = last => v = t
      PROVE  LiveIfAny(t)'
  BY <1>1 DEF Lasts
<1>2. ASSUME NEW t \in Token, t = held PROVE LiveIfAny(t)'
  <2>1. t # NoToken  BY NullAssumption
  <2>2. Row(t) /\ Root(t) = last /\ LiveIfAny(t)
    BY <1>2, <2>1, OfTheLast DEF Once, HeldIsLive
  <2>3. v \in Token /\ Root(v) = last => v = t
    BY <1>2, <2>1 DEF Once, AskedIsHeld
  <2> QED  BY <1>1, <2>2, <2>3
<1>3. ASSUME NEW x \in Context, NEW t \in Token,
             (Refreshing(x, "issued") /\ held = refreshing[x].spent) \/ Keeping(x),
             t = refreshing[x].token
      PROVE  LiveIfAny(t)'
  <2>1. Carrying(x)  BY <1>3 DEF Carrying, Keeping
  <2>2. PICK u : u = refreshing[x].spent  OBVIOUS
  <2>3. Row(t) /\ Root(t) = Root(u) /\ u \in Token
    BY <1>3, <2>1, <2>2, OfTheLast
  <2>4. LiveIfAny(t)  BY <1>3 DEF Once, WrittenIsLive
  <2>5. Root(t) = last
    BY <1>3, <2>2, <2>3, OfTheLast, NullAssumption
  <2>6. ASSUME v \in Token, Root(v) = last PROVE FALSE
    <3>1. Asked(v)  BY <2>6
    <3>2. held \in {v, NoToken} /\ ~Keeping(x)  BY <2>6, <3>1 DEF Once, AskedIsHeld
    <3>3. u = v  BY <1>3, <2>2, <2>3, <3>2, NullAssumption
    <3>4. ~Asked(u)  BY <2>1, <2>2, CarriedIsNotAsked DEF Once
    <3> QED  BY <3>1, <3>3, <3>4
  <2> QED  BY <1>1, <2>3, <2>4, <2>5, <2>6
<1>4. ASSUME NEW p \in Page, NEW t \in Token, Adopting(p), t = clicks[p].token PROVE LiveIfAny(t)'
  <2>1. Row(t) /\ Root(t) = t  BY <1>4, OfTheLast
  <2>2. LiveIfAny(t) /\ \A w \in Token : Asked(w) => Root(w) # t
    BY <1>4 DEF Once, AdoptedIsNew
  <2> QED  BY <2>1, <2>2 DEF Lasts
<1> QED  BY <1>2, <1>3, <1>4

\* No request, no refresh and no pairing is under way that was not before.
NoneStarts ==
    /\ \A w \in Token : Asked(w)' => Asked(w)
    /\ \A x \in Context : Carrying(x)' =>
          Carrying(x) \/ [asks |-> "refresh", token |-> refreshing[x].spent] \notin adrift
    /\ \A x \in Context : refreshing'[x] # Nothing =>
          refreshing[x] # Nothing /\ refreshing'[x].spent = refreshing[x].spent
    /\ \A p \in Page : Adopting(p)' => Adopting(p) /\ clicks'[p].token = clicks[p].token
    /\ \A p \in Page : Opening(p)' <=> Opening(p) /\ Adopting(p)'
    /\ AdriftCalms
    /\ UNCHANGED <<epoch, last>>

LEMMA CallsKeep ==
    ASSUME IInv, Once, RowsStay, NoneStarts, NEW v, v \in Token => Asked(v), Lasts(v)
    PROVE  Apart' /\ AdoptedIsNew' /\ LastIsRow'
<1>0. \A t \in Token : Row(t) => Row(t)' /\ Root(t)' = Root(t)  BY DEF RowsStay
<1>1. UNCHANGED <<epoch, last>>  BY DEF NoneStarts
<1>2. Apart'
  <2> SUFFICES ASSUME NEW x \in Context, refreshing'[x] # Nothing
               PROVE  /\ Carrying(x)' =>
                            [asks |-> "refresh", token |-> refreshing'[x].spent] \notin adrift'
                      /\ \A y \in Context : refreshing'[y] # Nothing /\ y # x
                            => refreshing'[y].spent # refreshing'[x].spent
    BY DEF Apart
  <2>1. refreshing[x] # Nothing /\ refreshing'[x].spent = refreshing[x].spent  BY DEF NoneStarts
  <2>2. refreshing[x].spent \in Token  BY <2>1, OfTheLast
  <2>3. ASSUME Carrying(x)' PROVE [asks |-> "refresh", token |-> refreshing[x].spent] \notin adrift'
    <3>1. [asks |-> "refresh", token |-> refreshing[x].spent] \notin adrift
      BY <2>1, <2>3 DEF NoneStarts, Once, Apart
    <3>2. \A y \in Context : Refreshing(y, "asked") /\ refreshing[y].spent = refreshing[x].spent
                                => y = x
      BY <2>1 DEF Once, Apart, Refreshing
    <3> QED  BY <2>2, <3>1, <3>2 DEF NoneStarts, AdriftCalms
  <2> QED  BY <2>1, <2>3 DEF NoneStarts, Once, Apart
<1>3. AdoptedIsNew'
  <2> SUFFICES ASSUME NEW p \in Page, Adopting(p)'
               PROVE  /\ LiveIfAny(clicks[p].token)'
                      /\ ~Opening(p)' => clicks'[p].token # last'
                      /\ \A x \in Context : refreshing'[x] # Nothing
                            => Root(refreshing[x].spent)' # clicks'[p].token
                      /\ \A w \in Token : Asked(w)' => Root(w)' # clicks'[p].token
                      /\ \A q \in Page : Adopting(q)' /\ q # p => clicks'[q].token # clicks'[p].token
    BY DEF AdoptedIsNew
  <2>1. PICK t : t = clicks[p].token  OBVIOUS
  <2>2. Adopting(p) /\ clicks'[p].token = t  BY <2>1 DEF NoneStarts
  <2>3. t \in Token /\ Row(t) /\ Root(t) = t  BY <2>1, <2>2, OfTheLast
  <2>4. \A w \in Token : Asked(w) => Root(w) # t
    BY <2>1, <2>2 DEF Once, AdoptedIsNew
  <2>5. LiveIfAny(t)'  BY <2>1, <2>2, <2>3, LivesOn
  <2>6. LiveIfAny(clicks[p].token)'  BY <2>2, <2>5 DEF LiveIfAny, Root
  <2>7. ~Opening(p)' => t # last'
    BY <1>1, <2>1, <2>2 DEF NoneStarts, Once, AdoptedIsNew
  <2>8. ASSUME NEW x \in Context, refreshing'[x] # Nothing PROVE Root(refreshing[x].spent)' # t
    <3>1. PICK u : u = refreshing[x].spent /\ u = refreshing'[x].spent /\ refreshing[x] # Nothing
      BY <2>8 DEF NoneStarts
    <3>2. u \in Token /\ Row(u)  BY <3>1, OfTheLast
    <3>3. Root(u) # t  BY <2>1, <2>2, <3>1 DEF Once, AdoptedIsNew
    <3>4. Root(u)' # t  BY <1>0, <3>2, <3>3
    <3> QED  BY <3>1, <3>4 DEF Root
  <2>9. ASSUME NEW w \in Token, Asked(w)' PROVE Root(w)' # t
    <3>1. Asked(w)  BY <2>9 DEF NoneStarts
    <3>2. Row(w)  BY <3>1 DEF Once, AskedIsHeld
    <3> QED  BY <1>0, <2>4, <3>1, <3>2
  <2>10. ASSUME NEW q \in Page, Adopting(q)', q # p PROVE clicks'[q].token # t
    BY <2>1, <2>2, <2>10 DEF NoneStarts, Once, AdoptedIsNew
  <2> QED  BY <2>2, <2>6, <2>7, <2>8, <2>9, <2>10
<1>4. LastIsRow'
  <2>1. last \in Tokens  BY DEF IInv, TypeOK
  <2> QED  BY <1>0, <1>1, <2>1 DEF Once, LastIsRow, Tokens, Row
<1> QED  BY <1>2, <1>3, <1>4

\* Nothing is started and no session is written: what holds goes on to hold.
LEMMA QuietKeeps ==
    ASSUME IInv, Once, RowsStay, Calms, NEW v, v \in Token => Asked(v), Lasts(v),
           held' \in {held, NoToken}
    PROVE  Once'
<1>0. \A t \in Token : Row(t) => Row(t)' /\ Root(t)' = Root(t)  BY DEF RowsStay
<1>1. UNCHANGED <<epoch, last>>  BY DEF Calms
<1>2. Apart' /\ AdoptedIsNew' /\ LastIsRow'
  <2>1. NoneStarts  BY CalmViews DEF NoneStarts, Calms
  <2> QED  BY <2>1, CallsKeep
<1>3. CarriedIsNew'
  <2> SUFFICES ASSUME NEW x \in Context, Carrying(x)'
               PROVE  /\ held' # refreshing'[x].token
                      /\ \A y \in Context : refreshing'[y] # Nothing
                            => refreshing'[y].spent # refreshing'[x].token
                      /\ \A y \in Context : Carrying(y)' /\ y # x
                            => refreshing'[y].token # refreshing'[x].token
    BY DEF CarriedIsNew
  <2>1. Carrying(x) /\ refreshing'[x] = refreshing[x]  BY CalmViews
  <2>2. refreshing[x].token # NoToken  BY <2>1, OfTheLast, NullAssumption
  <2> QED  BY <2>1, <2>2, CalmViews DEF Once, CarriedIsNew
<1>4. AskedIsHeld'
  <2>1. ASSUME NEW w \in Token, Asked(w)'
        PROVE  /\ Row(w)'
               /\ Root(w)' = last' => held' \in {w, NoToken} /\ \A x \in Context : ~Keeping(x)'
    <3>1. Asked(w)  BY <2>1, CalmViews
    <3>2. Row(w) /\ (Root(w) = last => held \in {w, NoToken} /\ \A x \in Context : ~Keeping(x))
      BY <3>1 DEF Once, AskedIsHeld
    <3>3. Row(w)' /\ Root(w)' = Root(w)  BY <1>0, <3>2
    <3> QED  BY <1>1, <3>2, <3>3, CalmViews
  <2> QED  BY <2>1 DEF AskedIsHeld
<1>5. WritesAreAlone'
  <2>1. ASSUME NEW x \in Context, Keeping(x)'
        PROVE  /\ held' \in {refreshing'[x].spent, NoToken}
               /\ \A y \in Context : Keeping(y)' => y = x
    BY <2>1, CalmViews DEF Once, WritesAreAlone
  <2>2. ASSUME NEW p \in Page, Opening(p)'
        PROVE  /\ held' = NoToken
               /\ \A x \in Context : ~Keeping(x)'
               /\ \A q \in Page : Opening(q)' => q = p
    BY <2>2, CalmViews DEF Once, WritesAreAlone
  <2> QED  BY <2>1, <2>2 DEF WritesAreAlone
<1>6. WrittenIsLive'
  <2> SUFFICES ASSUME NEW x \in Context,
                      (Refreshing(x, "issued")' /\ held' = refreshing'[x].spent) \/ Keeping(x)'
               PROVE  LiveIfAny(refreshing[x].token)'
    BY DEF WrittenIsLive
  <2>1. Carrying(x)'  BY DEF Carrying, Keeping
  <2>2. Carrying(x) /\ refreshing'[x] = refreshing[x]  BY <2>1, CalmViews
  <2>3. PICK t, u : t = refreshing[x].token /\ u = refreshing[x].spent  OBVIOUS
  <2>4. t \in Token /\ u \in Token  BY <2>2, <2>3, OfTheLast
  <2>5. (Refreshing(x, "issued") /\ held = u) \/ Keeping(x)
    <3>1. u # NoToken  BY <2>4, NullAssumption
    <3> QED  BY <2>2, <2>3, <3>1, CalmViews DEF Refreshing
  <2>6. LiveIfAny(t)'  BY <2>3, <2>4, <2>5, LivesOn
  <2> QED  BY <2>2, <2>3, <2>6 DEF LiveIfAny, Root
<1>7. HeldIsLive'
  <2> SUFFICES ASSUME held' # NoToken PROVE LiveIfAny(held)'
    BY DEF HeldIsLive
  <2>1. PICK t : t = held /\ t = held' /\ t # NoToken  OBVIOUS
  <2>2. t \in Token  BY <2>1, OfTheLast
  <2>3. LiveIfAny(t)'  BY <2>1, <2>2, LivesOn
  <2> QED  BY <2>1, <2>3 DEF LiveIfAny, Root
<1> QED  BY <1>2, <1>3, <1>4, <1>5, <1>6, <1>7 DEF Once

-----------------------------------------------------------------------------
(* The steps that start a call, get a successor, or write a session.         *)

LEMMA SameLives ==
    ASSUME UNCHANGED sessions
    PROVE  \A t : /\ Row(t)' <=> Row(t)
                  /\ Root(t)' = Root(t)
                  /\ LiveIfAny(t)' <=> LiveIfAny(t)
  BY DEF LiveIfAny, Store!Chain, Store!Live, Root, Row

\* Where a refresh goes, the others stay.
LEMMA RefreshSteps ==
    ASSUME IInv, NEW x \in Context, NEW r, RefreshGoes(x, r)
    PROVE  refreshing'[x] = r /\ \A y \in Context : y # x => refreshing'[y] = refreshing[y]
  BY DEF IInv, TypeOK, RefreshGoes

LEMMA ClickSteps ==
    ASSUME IInv, NEW p \in Page, NEW c, ClickGoes(p, c)
    PROVE  clicks'[p] = c /\ \A q \in Page : q # p => clicks'[q] = clicks[q]
  BY DEF IInv, TypeOK, ClickGoes

\* A refresh starts: with what is held, which nobody else spends.
LEMMA StartKeeps ==
    ASSUME IInv, Once, NEW x \in Context, RefreshStarts(x), ~doubled'
    PROVE  Once'
<1>1. held \in Token /\ Row(held) /\ Root(held) = last
  BY OfTheLast DEF RefreshStarts
<1>2. UNCHANGED <<sessions, epoch, last, clicks, adrift, held>>
  BY DEF RefreshStarts, store, local, held
<1>3. /\ refreshing[x] = Nothing /\ refreshing'[x] # Nothing
      /\ refreshing'[x].spent = held /\ refreshing'[x].step = "asked"
      /\ \A y \in Context : y # x => refreshing'[y] = refreshing[y]
  <2>1. PICK r : r = [step |-> "asked", spent |-> held, at |-> epoch,
                      token |-> NoToken, gone |-> {}]
    OBVIOUS
  <2>2. RefreshGoes(x, r) /\ refreshing[x] = Nothing  BY <2>1 DEF RefreshStarts
  <2>3. r \in Refresh
    BY <1>1, <2>1, OfTheLast DEF Refresh, Tokens
  <2>4. r # Nothing  BY <2>3, NothingAssumption
  <2> QED  BY <2>1, <2>2, <2>4, RefreshSteps
<1>4. \A y \in Context : refreshing[y] # Nothing => refreshing[y].spent # held
  BY DEF RefreshStarts
<1>5. \A y \in Context : Carrying(y)' => Carrying(y) /\ y # x /\ refreshing'[y] = refreshing[y]
  BY <1>3 DEF Carrying, Refreshing
<1>6. \A y \in Context : ~Keeping(y)
  BY <1>1, <1>4, OfTheLast, NullAssumption DEF Once, WritesAreAlone
<1>7. \A y \in Context : ~Keeping(y)'
  BY <1>2, <1>3, <1>6 DEF Keeping, Refreshing
<1>8. \A w \in Token : Asked(w)' => Asked(w) \/ w = held
  BY <1>2, <1>3 DEF Asked, Refreshing
<1>9. \A p \in Page : (Adopting(p)' <=> Adopting(p)) /\ (Opening(p)' <=> Opening(p))
  BY <1>2 DEF Adopting, Opening, Clicked
<1>10. Apart'
  BY <1>2, <1>3, <1>4, <1>5 DEF Once, Apart
<1>11. CarriedIsNew'
  <2> SUFFICES ASSUME NEW y \in Context, Carrying(y)'
               PROVE  /\ held' # refreshing'[y].token
                      /\ \A z \in Context : refreshing'[z] # Nothing
                            => refreshing'[z].spent # refreshing'[y].token
                      /\ \A z \in Context : Carrying(z)' /\ z # y
                            => refreshing'[z].token # refreshing'[y].token
    BY DEF CarriedIsNew
  <2>1. Carrying(y) /\ refreshing'[y] = refreshing[y]  BY <1>5
  <2>2. held # refreshing[y].token  BY <2>1 DEF Once, CarriedIsNew
  <2> QED  BY <1>2, <1>3, <1>5, <2>1, <2>2 DEF Once, CarriedIsNew
<1>12. AskedIsHeld'
  <2>1. ASSUME NEW w \in Token, Asked(w)'
        PROVE  Row(w)' /\ (Root(w)' = last' => held' \in {w, NoToken})
    BY <1>1, <1>2, <1>8, <2>1, SameLives DEF Once, AskedIsHeld
  <2> QED  BY <1>7, <2>1 DEF AskedIsHeld
<1>13. WritesAreAlone'
  BY <1>2, <1>7, <1>9 DEF Once, WritesAreAlone
<1>14. AdoptedIsNew'
  <2> SUFFICES ASSUME NEW p \in Page, Adopting(p)
               PROVE  /\ LiveIfAny(clicks[p].token)'
                      /\ ~Opening(p)' => clicks'[p].token # last'
                      /\ \A y \in Context : refreshing'[y] # Nothing
                            => Root(refreshing[y].spent)' # clicks'[p].token
                      /\ \A w \in Token : Asked(w)' => Root(w)' # clicks'[p].token
                      /\ \A q \in Page : Adopting(q)' /\ q # p => clicks'[q].token # clicks'[p].token
    BY <1>9 DEF AdoptedIsNew
  <2>1. PICK t : t = clicks[p].token /\ t = clicks'[p].token  BY <1>2
  <2>2. LiveIfAny(t)  BY <2>1 DEF Once, AdoptedIsNew
  <2>3. LiveIfAny(t)'  BY <1>2, <2>2, SameLives
  <2>4. LiveIfAny(clicks[p].token)'  BY <2>1, <2>3 DEF LiveIfAny, Root
  <2>5. Root(held) # t
    <3>1. ~Opening(p)  BY <1>1, NullAssumption DEF Once, WritesAreAlone
    <3> QED  BY <1>1, <2>1, <3>1 DEF Once, AdoptedIsNew
  <2>6. ASSUME NEW w \in Token, Asked(w)' PROVE Root(w)' # t
    BY <1>2, <1>8, <2>1, <2>5, <2>6, SameLives DEF Once, AdoptedIsNew
  <2>7. ASSUME NEW y \in Context, refreshing'[y] # Nothing PROVE Root(refreshing[y].spent)' # t
    <3>1. PICK u : u = refreshing'[y].spent  OBVIOUS
    <3>2. Root(u) # t
      BY <1>3, <2>1, <2>5, <2>7, <3>1 DEF Once, AdoptedIsNew
    <3>3. Root(u)' # t  BY <1>2, <3>2, SameLives
    <3> QED  BY <3>1, <3>3 DEF Root
  <2>8. /\ ~Opening(p)' => t # last'
        /\ \A q \in Page : Adopting(q)' /\ q # p => clicks'[q].token # t
    BY <1>2, <1>9, <2>1 DEF Once, AdoptedIsNew
  <2> QED  BY <2>1, <2>4, <2>6, <2>7, <2>8
<1>15. WrittenIsLive'
  <2> SUFFICES ASSUME NEW y \in Context, Refreshing(y, "issued")', held' = refreshing'[y].spent
               PROVE  FALSE
    BY <1>7 DEF WrittenIsLive
  <2> QED  BY <1>2, <1>3, <1>4 DEF Refreshing
<1>16. HeldIsLive'
  <2>1. PICK t : t = held /\ t = held'  BY <1>2
  <2>2. LiveIfAny(t)  BY <1>1, <2>1, NullAssumption DEF Once, HeldIsLive
  <2>3. LiveIfAny(t)'  BY <1>2, <2>2, SameLives
  <2> QED  BY <2>1, <2>3 DEF HeldIsLive, LiveIfAny, Root
<1>17. LastIsRow'
  BY <1>2, SameLives DEF Once, LastIsRow, Row
<1> QED  BY <1>10, <1>11, <1>12, <1>13, <1>14, <1>15, <1>16, <1>17 DEF Once

\* A refresh gets the successor of its token.
LEMMA RotatedKeeps ==
    ASSUME IInv, LinksHold, Once, RowsStay,
           NEW x \in Context, NEW s \in Token, NEW at \in Instant, Rotated(x, s, at), ~doubled'
    PROVE  Once'
<1>0. \A t \in Token : Row(t) => Row(t)' /\ Root(t)' = Root(t)  BY DEF RowsStay
<1>1. PICK v : v = refreshing[x].spent  OBVIOUS
<1>2. v \in Token /\ Asked(v) /\ Rotates(v, s) /\ refreshing[x] # Nothing
  BY <1>1, OfTheLast DEF Rotated, Rotates, Asked, Refreshing
<1>3. Lasts(v) /\ LiveIfAny(s)' /\ s \notin issued
  BY <1>2, RotationLasts DEF IInv
<1>4. ~Row(s)
  BY <1>3 DEF IInv, P!IInv, P!DigestsAreIssued, Row
<1>5. UNCHANGED <<epoch, last, clicks, adrift, held>>
  BY DEF Rotated, local, held
<1>6. /\ refreshing'[x] # Nothing /\ refreshing'[x].spent = v
      /\ refreshing'[x].step = "issued" /\ refreshing'[x].token = s
      /\ \A y \in Context : y # x => refreshing'[y] = refreshing[y]
  <2>1. PICK r : r = [refreshing[x] EXCEPT !.step = "issued", !.token = s]  OBVIOUS
  <2>2. RefreshGoes(x, r)  BY <2>1 DEF Rotated
  <2>3. refreshing[x] \in Refresh  BY <1>2, RefreshThere
  <2>4. r \in Refresh /\ r.spent = v /\ r.step = "issued" /\ r.token = s
    BY <1>1, <2>1, <2>3 DEF Refresh, Tokens
  <2> QED  BY <2>2, <2>4, NothingAssumption, RefreshSteps
<1>7. /\ \A y \in Context : Carrying(y)' /\ y # x => Carrying(y) /\ refreshing'[y] = refreshing[y]
      /\ \A y \in Context : Keeping(y)' => Keeping(y) /\ y # x /\ refreshing'[y] = refreshing[y]
      /\ \A w \in Token : Asked(w)' => Asked(w)
      /\ \A y \in Context : refreshing'[y] # Nothing =>
            refreshing[y] # Nothing /\ refreshing'[y].spent = refreshing[y].spent
  BY <1>1, <1>2, <1>5, <1>6 DEF Carrying, Keeping, Refreshing, Asked
<1>8. Apart' /\ AdoptedIsNew' /\ LastIsRow'
  <2>1. NoneStarts
    <3>1. [asks |-> "refresh", token |-> refreshing[x].spent] \notin adrift  BY DEF Rotated
    <3> QED  BY <1>5, <1>7, <3>1 DEF NoneStarts, AdriftCalms, Adopting, Opening, Clicked
  <2> QED  BY <1>2, <1>3, <2>1, CallsKeep
<1>9. CarriedIsNew'
  <2> SUFFICES ASSUME NEW y \in Context, Carrying(y)'
               PROVE  /\ held' # refreshing'[y].token
                      /\ \A z \in Context : refreshing'[z] # Nothing
                            => refreshing'[z].spent # refreshing'[y].token
                      /\ \A z \in Context : Carrying(z)' /\ z # y
                            => refreshing'[z].token # refreshing'[y].token
    BY DEF CarriedIsNew
  <2>1. CASE y = x
    <3>1. held' # s  BY <1>4, <1>5, OfTheLast, NullAssumption
    <3>2. ASSUME NEW z \in Context, refreshing'[z] # Nothing PROVE refreshing'[z].spent # s
      BY <1>4, <1>7, <3>2, OfTheLast
    <3>3. ASSUME NEW z \in Context, Carrying(z)', z # x PROVE refreshing'[z].token # s
      BY <1>4, <1>7, <3>3, OfTheLast
    <3> QED  BY <1>6, <2>1, <3>1, <3>2, <3>3
  <2>2. CASE y # x
    <3>1. Carrying(y) /\ refreshing'[y] = refreshing[y] /\ refreshing[y].token # s
      BY <1>4, <1>7, <2>2, OfTheLast
    <3> QED  BY <1>5, <1>6, <1>7, <3>1 DEF Once, CarriedIsNew
  <2> QED  BY <2>1, <2>2
<1>10. AskedIsHeld'
  <2>1. ASSUME NEW w \in Token, Asked(w)'
        PROVE  /\ Row(w)'
               /\ Root(w)' = last' => held' \in {w, NoToken} /\ \A y \in Context : ~Keeping(y)'
    <3>1. /\ Row(w)
          /\ Root(w) = last => held \in {w, NoToken} /\ \A y \in Context : ~Keeping(y)
      BY <1>7, <2>1 DEF Once, AskedIsHeld
    <3>2. Row(w)' /\ Root(w)' = Root(w)  BY <1>0, <3>1
    <3> QED  BY <1>5, <1>7, <3>1, <3>2
  <2> QED  BY <2>1 DEF AskedIsHeld
<1>11. WritesAreAlone'
  <2>1. ASSUME NEW y \in Context, Keeping(y)'
        PROVE  held' \in {refreshing'[y].spent, NoToken} /\ \A z \in Context : Keeping(z)' => z = y
    BY <1>5, <1>7, <2>1 DEF Once, WritesAreAlone
  <2>2. ASSUME NEW p \in Page, Opening(p)'
        PROVE  /\ held' = NoToken
               /\ \A y \in Context : ~Keeping(y)'
               /\ \A q \in Page : Opening(q)' => q = p
    BY <1>5, <1>7, <2>2 DEF Once, WritesAreAlone, Opening, Clicked
  <2> QED  BY <2>1, <2>2 DEF WritesAreAlone
<1>12. WrittenIsLive'
  <2> SUFFICES ASSUME NEW y \in Context,
                      (Refreshing(y, "issued")' /\ held' = refreshing'[y].spent) \/ Keeping(y)'
               PROVE  LiveIfAny(refreshing[y].token)'
    BY DEF WrittenIsLive
  <2>1. PICK t : t = refreshing'[y].token  OBVIOUS
  <2>2. LiveIfAny(t)'
    <3>1. CASE y = x  BY <1>3, <1>6, <2>1, <3>1
    <3>2. CASE y # x
      <4>1. refreshing'[y] = refreshing[y]  BY <1>6, <3>2
      <4>2. (Refreshing(y, "issued") /\ held = refreshing[y].spent) \/ Keeping(y)
        BY <1>5, <1>7, <4>1 DEF Refreshing
      <4>3. t \in Token  BY <2>1, <4>1, <4>2, OfTheLast DEF Carrying
      <4> QED  BY <1>2, <1>3, <2>1, <4>1, <4>2, <4>3, LivesOn
    <3> QED  BY <3>1, <3>2
  <2> QED  BY <2>1, <2>2 DEF LiveIfAny, Root
<1>13. HeldIsLive'
  <2> SUFFICES ASSUME held' # NoToken PROVE LiveIfAny(held)'
    BY DEF HeldIsLive
  <2>1. PICK t : t = held /\ t = held' /\ t # NoToken  BY <1>5
  <2>2. t \in Token  BY <2>1, OfTheLast
  <2>3. LiveIfAny(t)'  BY <1>2, <1>3, <2>1, <2>2, LivesOn
  <2> QED  BY <2>1, <2>3 DEF LiveIfAny, Root
<1> QED  BY <1>8, <1>9, <1>10, <1>11, <1>12, <1>13 DEF Once

LEMMA StoreStays ==
    ASSUME IInv, UNCHANGED store
    PROVE  RowsStay /\ Lasts(NoToken) /\ UNCHANGED sessions /\ NoToken \notin Token
  BY StoreSteps, QuietLasts, NullAssumption DEF IInv, store

\* A refresh finds its token held, and will write the run that counts.
LEMMA KeepKeeps ==
    ASSUME IInv, Once, NEW x \in Context, KeepIfCurrent(x), held = refreshing[x].spent
    PROVE  Once'
<1>1. PICK v : v = refreshing[x].spent /\ v = held  OBVIOUS
<1>2. UNCHANGED <<epoch, last, clicks, adrift, held>> /\ UNCHANGED store
  BY DEF KeepIfCurrent, local, held
<1>3. RowsStay /\ Lasts(NoToken) /\ UNCHANGED sessions /\ NoToken \notin Token
  BY <1>2, StoreStays
<1>4. /\ Refreshing(x, "issued") /\ Refreshing(x, "put")'
      /\ refreshing'[x].spent = v /\ refreshing'[x].at = epoch
      /\ refreshing'[x].token = refreshing[x].token
      /\ \A y \in Context : y # x => refreshing'[y] = refreshing[y]
  <2>1. PICK r : r = [refreshing[x] EXCEPT !.step = "put", !.at = epoch]  OBVIOUS
  <2>2. RefreshGoes(x, r) /\ Refreshing(x, "issued")  BY <2>1 DEF KeepIfCurrent
  <2>3. refreshing[x] \in Refresh  BY <2>2, RefreshThere DEF Refreshing
  <2>4. r \in Refresh /\ r.spent = v /\ r.step = "put" /\ r.at = epoch /\ r.token = refreshing[x].token
    BY <1>1, <2>1, <2>3, OfTheLast DEF Refresh
  <2> QED  BY <2>2, <2>4, NothingAssumption, RefreshSteps DEF Refreshing
<1>5. v \in Token /\ Carrying(x) /\ ~Asked(v)
  BY <1>1, <1>4, OfTheLast, CarriedIsNotAsked DEF Once, Carrying, Refreshing
<1>6. /\ \A y \in Context : Carrying(y)' => Carrying(y) /\ refreshing'[y].token = refreshing[y].token
      /\ \A y \in Context : Keeping(y)' /\ y # x => Keeping(y) /\ refreshing'[y] = refreshing[y]
      /\ \A w \in Token : Asked(w)' => Asked(w)
      /\ \A y \in Context : refreshing'[y] # Nothing =>
            refreshing[y] # Nothing /\ refreshing'[y].spent = refreshing[y].spent
  BY <1>1, <1>2, <1>4 DEF Carrying, Keeping, Refreshing, Asked
<1>7. Apart' /\ AdoptedIsNew' /\ LastIsRow'
  <2>1. NoneStarts
    BY <1>2, <1>6 DEF NoneStarts, AdriftCalms, Adopting, Opening, Clicked
  <2> QED  BY <1>3, <2>1, CallsKeep
<1>8. CarriedIsNew'
  BY <1>2, <1>6 DEF Once, CarriedIsNew
<1>9. \A y \in Context : y # x => ~Keeping(y)
  <2>1. ASSUME NEW y \in Context, y # x, Keeping(y) PROVE FALSE
    <3>1. held = refreshing[y].spent
      BY <1>1, <1>5, <2>1, NullAssumption DEF Once, WritesAreAlone
    <3> QED  BY <1>1, <1>4, <2>1, <3>1 DEF Once, Apart, Keeping, Refreshing
  <2> QED  BY <2>1
<1>10. AskedIsHeld'
  <2>1. ASSUME NEW w \in Token, Asked(w)' PROVE Row(w)' /\ Root(w)' # last'
    <3>1. Row(w) /\ (Root(w) = last => held \in {w, NoToken})
      BY <1>6, <2>1 DEF Once, AskedIsHeld
    <3>2. Root(w) # last  BY <1>1, <1>5, <1>6, <2>1, <3>1, NullAssumption
    <3> QED  BY <1>2, <1>3, <3>1, <3>2, SameLives
  <2> QED  BY <2>1 DEF AskedIsHeld
<1>11. WritesAreAlone'
  <2>1. \A p \in Page : ~Opening(p)
    BY <1>1, <1>5, NullAssumption DEF Once, WritesAreAlone
  <2>2. \A p \in Page : ~Opening(p)'
    BY <1>2, <2>1 DEF Opening, Clicked
  <2>3. \A y \in Context : Keeping(y)' => y = x
    BY <1>6, <1>9
  <2> QED  BY <1>1, <1>2, <1>4, <2>2, <2>3 DEF WritesAreAlone
<1>12. WrittenIsLive'
  <2> SUFFICES ASSUME NEW y \in Context,
                      (Refreshing(y, "issued")' /\ held' = refreshing'[y].spent) \/ Keeping(y)'
               PROVE  LiveIfAny(refreshing[y].token)'
    BY DEF WrittenIsLive
  <2>1. PICK t : t = refreshing'[y].token /\ t = refreshing[y].token
    BY <1>4, <1>6 DEF Carrying, Keeping
  <2>2. Refreshing(y, "issued") /\ held = refreshing[y].spent
    <3>1. CASE y = x  BY <1>1, <1>4, <3>1
    <3>2. CASE y # x  BY <1>2, <1>4, <1>6, <1>9, <3>2 DEF Refreshing
    <3> QED  BY <3>1, <3>2
  <2>3. LiveIfAny(t)  BY <2>1, <2>2 DEF Once, WrittenIsLive
  <2>4. LiveIfAny(t)'  BY <1>3, <2>3, SameLives
  <2> QED  BY <2>1, <2>4 DEF LiveIfAny, Root
<1>13. HeldIsLive'
  <2>1. PICK t : t = held /\ t = held'  BY <1>2
  <2>2. LiveIfAny(t)  BY <1>1, <1>5, <2>1, NullAssumption DEF Once, HeldIsLive
  <2>3. LiveIfAny(t)'  BY <1>3, <2>2, SameLives
  <2> QED  BY <2>1, <2>3 DEF HeldIsLive, LiveIfAny, Root
<1> QED  BY <1>7, <1>8, <1>10, <1>11, <1>12, <1>13 DEF Once

\* The run that counts gets the successor of what it held.
LEMMA PutKeeps ==
    ASSUME IInv, Once, NEW x \in Context, Put(x), refreshing[x].at = epoch
    PROVE  Once'
<1>1. Refreshing(x, "put") /\ Keeping(x) /\ Carrying(x)  BY DEF Put, Keeping, Carrying
<1>2. PICK t : t = refreshing[x].token  OBVIOUS
<1>3. t \in Token /\ epoch \in Epoch  BY <1>1, <1>2, OfTheLast
<1>4. UNCHANGED <<epoch, last, clicks, adrift>> /\ UNCHANGED store /\ held' = t
  BY <1>2, <1>3 DEF Put, held, IInv, TypeOK
<1>5. RowsStay /\ Lasts(NoToken) /\ UNCHANGED sessions /\ NoToken \notin Token
  BY <1>4, StoreStays
<1>6. /\ refreshing'[x].spent = refreshing[x].spent /\ refreshing'[x].step = "look"
      /\ \A y \in Context : y # x => refreshing'[y] = refreshing[y]
  <2>1. PICK r : r = [refreshing[x] EXCEPT !.step = "look"]  OBVIOUS
  <2>2. RefreshGoes(x, r)  BY <2>1 DEF Put, RefreshStep
  <2>3. refreshing[x] \in Refresh  BY <1>1, RefreshThere DEF Refreshing
  <2>4. r.spent = refreshing[x].spent /\ r.step = "look"  BY <2>1, <2>3 DEF Refresh
  <2> QED  BY <2>2, <2>4, RefreshSteps
<1>7. /\ \A y \in Context : Carrying(y)' => Carrying(y) /\ y # x /\ refreshing'[y] = refreshing[y]
      /\ \A y \in Context : Keeping(y)' => Keeping(y) /\ y # x
      /\ \A w \in Token : Asked(w)' => Asked(w)
      /\ \A y \in Context : refreshing'[y] # Nothing =>
            refreshing[y] # Nothing /\ refreshing'[y].spent = refreshing[y].spent
  BY <1>1, <1>4, <1>6 DEF Carrying, Keeping, Refreshing, Asked
<1>8. Apart' /\ AdoptedIsNew' /\ LastIsRow'
  <2>1. NoneStarts
    BY <1>4, <1>7 DEF NoneStarts, AdriftCalms, Adopting, Opening, Clicked
  <2> QED  BY <1>5, <2>1, CallsKeep
<1>9. \A y \in Context : ~Keeping(y)'
  BY <1>1, <1>7 DEF Once, WritesAreAlone
<1>10. \A y \in Context : Carrying(y)' => refreshing'[y].token # t
  BY <1>1, <1>2, <1>7 DEF Once, CarriedIsNew
<1>11. \A y \in Context : refreshing'[y] # Nothing => refreshing'[y].spent # t
  BY <1>1, <1>2, <1>7 DEF Once, CarriedIsNew
<1>12. CarriedIsNew'
  BY <1>4, <1>7, <1>10 DEF Once, CarriedIsNew
<1>13. AskedIsHeld'
  <2>1. ASSUME NEW w \in Token, Asked(w)' PROVE Row(w)' /\ Root(w)' # last'
    <3>1. Row(w) /\ Root(w) # last  BY <1>1, <1>7, <2>1 DEF Once, AskedIsHeld
    <3> QED  BY <1>4, <1>5, <3>1, SameLives
  <2> QED  BY <2>1 DEF AskedIsHeld
<1>14. WritesAreAlone'
  <2>1. \A p \in Page : ~Opening(p)  BY <1>1 DEF Once, WritesAreAlone
  <2>2. \A p \in Page : ~Opening(p)'  BY <1>4, <2>1 DEF Opening, Clicked
  <2> QED  BY <1>9, <2>2 DEF WritesAreAlone
<1>15. WrittenIsLive'
  BY <1>4, <1>9, <1>11 DEF WrittenIsLive, Refreshing
<1>16. HeldIsLive'
  <2>1. LiveIfAny(t)  BY <1>1, <1>2 DEF Once, WrittenIsLive
  <2>2. LiveIfAny(t)'  BY <1>5, <2>1, SameLives
  <2> QED  BY <1>4, <2>2 DEF HeldIsLive, LiveIfAny, Root
<1> QED  BY <1>8, <1>12, <1>13, <1>14, <1>15, <1>16 DEF Once

\* A code buys a chain that nobody had.
LEMMA PairedKeeps ==
    ASSUME IInv, Once, RowsStay,
           NEW p \in Page, NEW t \in Token, NEW at \in Instant, Paired(p, t, at)
    PROVE  Once'
<1>0. \A u \in Token : Row(u) => Row(u)' /\ Root(u)' = Root(u)  BY DEF RowsStay
<1>1. t \notin issued /\ Lasts(NoToken) /\ LiveIfAny(t)'
  <2>1. PICK k : k = clicks[p].code  OBVIOUS
  <2>2. k \in Code /\ Store!RedeemPairing(k, t, at)
    BY <2>1, ClickThere DEF Paired, Clicked, ClickOK
  <2> QED  BY <2>2, RedeemLasts DEF IInv
<1>2. \A u \in Token : Row(u) => u # t /\ Root(u) # t
  BY <1>1 DEF IInv, P!IInv, P!DigestsAreIssued, Row, Root
<1>3. UNCHANGED <<epoch, last, refreshing, adrift, held>>  BY DEF Paired, local, held
<1>4. /\ ~Adopting(p) /\ clicks'[p] # Nothing
      /\ clicks'[p].step = "adopt" /\ clicks'[p].token = t
      /\ \A q \in Page : q # p => clicks'[q] = clicks[q]
  <2>1. PICK c : c = [clicks[p] EXCEPT !.step = "adopt", !.token = t]  OBVIOUS
  <2>2. ClickGoes(p, c) /\ Clicked(p, "pair")  BY <2>1 DEF Paired
  <2>3. clicks[p] \in Click  BY <2>2, ClickThere DEF Clicked
  <2>4. c \in Click /\ c.step = "adopt" /\ c.token = t  BY <2>1, <2>3 DEF Click, Tokens
  <2> QED  BY <2>2, <2>4, NothingAssumption, ClickSteps DEF Adopting, Clicked
<1>5. /\ \A x \in Context : (Carrying(x)' <=> Carrying(x)) /\ (Keeping(x)' <=> Keeping(x))
      /\ \A w \in Token : Asked(w)' <=> Asked(w)
      /\ \A q \in Page : Adopting(q)' /\ q # p => Adopting(q) /\ clicks'[q].token = clicks[q].token
      /\ \A q \in Page : Opening(q)' => Opening(q) /\ q # p
      /\ \A q \in Page : q # p => (Opening(q)' <=> Opening(q))
  BY <1>3, <1>4 DEF Carrying, Keeping, Refreshing, Asked, Adopting, Opening, Clicked
<1>6. NoToken \notin Token  BY NullAssumption
<1>7. Apart'  BY <1>3, <1>5 DEF Once, Apart
<1>8. CarriedIsNew'  BY <1>3, <1>5 DEF Once, CarriedIsNew
<1>9. AskedIsHeld'
  <2>1. ASSUME NEW w \in Token, Asked(w)'
        PROVE  /\ Row(w)'
               /\ Root(w)' = last' => held' \in {w, NoToken} /\ \A x \in Context : ~Keeping(x)'
    <3>1. /\ Row(w)
          /\ Root(w) = last => held \in {w, NoToken} /\ \A x \in Context : ~Keeping(x)
      BY <1>5, <2>1 DEF Once, AskedIsHeld
    <3>2. Row(w)' /\ Root(w)' = Root(w)  BY <1>0, <3>1
    <3> QED  BY <1>3, <1>5, <3>1, <3>2
  <2> QED  BY <2>1 DEF AskedIsHeld
<1>10. WritesAreAlone'  BY <1>3, <1>5 DEF Once, WritesAreAlone
<1>11. \A x \in Context : refreshing'[x] # Nothing =>
          \E u \in Token : u = refreshing'[x].spent /\ u = refreshing[x].spent
                           /\ Row(u) /\ Root(u)' = Root(u) /\ Root(u) # t
  BY <1>0, <1>2, <1>3, OfTheLast
<1>12. AdoptedIsNew'
  <2> SUFFICES ASSUME NEW q \in Page, Adopting(q)'
               PROVE  /\ LiveIfAny(clicks[q].token)'
                      /\ ~Opening(q)' => clicks'[q].token # last'
                      /\ \A x \in Context : refreshing'[x] # Nothing
                            => Root(refreshing[x].spent)' # clicks'[q].token
                      /\ \A w \in Token : Asked(w)' => Root(w)' # clicks'[q].token
                      /\ \A z \in Page : Adopting(z)' /\ z # q => clicks'[z].token # clicks'[q].token
    BY DEF AdoptedIsNew
  <2>1. PICK u : u = clicks'[q].token  OBVIOUS
  <2>2. LiveIfAny(u)'
    <3>1. CASE q = p  BY <1>1, <1>4, <2>1, <3>1
    <3>2. CASE q # p
      <4>1. Adopting(q) /\ u = clicks[q].token  BY <1>5, <2>1, <3>2
      <4>2. u \in Token  BY <4>1, OfTheLast
      <4> QED  BY <1>1, <1>6, <4>1, <4>2, LivesOn
    <3> QED  BY <3>1, <3>2
  <2>3. LiveIfAny(clicks[q].token)'  BY <2>1, <2>2 DEF LiveIfAny, Root
  <2>4. ~Opening(q)' => u # last'
    <3>1. CASE q = p
      <4>1. last # t  BY <1>2, <1>6 DEF Once, LastIsRow, IInv, TypeOK, Tokens
      <4> QED  BY <1>3, <1>4, <2>1, <3>1, <4>1
    <3>2. CASE q # p
      BY <1>3, <1>5, <2>1, <3>2 DEF Once, AdoptedIsNew
    <3> QED  BY <3>1, <3>2
  <2>5. ASSUME NEW x \in Context, refreshing'[x] # Nothing
        PROVE  Root(refreshing[x].spent)' # u
    <3>1. PICK w \in Token : w = refreshing'[x].spent /\ w = refreshing[x].spent
                             /\ Row(w) /\ Root(w)' = Root(w) /\ Root(w) # t
      BY <1>11, <2>5
    <3>2. Root(w) # u
      <4>1. CASE q = p  BY <1>4, <2>1, <3>1, <4>1
      <4>2. CASE q # p  BY <1>3, <1>5, <2>1, <2>5, <3>1, <4>2 DEF Once, AdoptedIsNew
      <4> QED  BY <4>1, <4>2
    <3> QED  BY <3>1, <3>2 DEF Root
  <2>6. ASSUME NEW w \in Token, Asked(w)' PROVE Root(w)' # u
    <3>1. Asked(w) /\ Row(w) /\ Root(w)' = Root(w) /\ Root(w) # t
      BY <1>0, <1>2, <1>5, <2>6 DEF Once, AskedIsHeld
    <3>2. CASE q = p  BY <1>4, <2>1, <3>1, <3>2
    <3>3. CASE q # p  BY <1>5, <2>1, <3>1, <3>3 DEF Once, AdoptedIsNew
    <3> QED  BY <3>2, <3>3
  <2>7. ASSUME NEW z \in Page, Adopting(z)', z # q PROVE clicks'[z].token # u
    <3>1. \A y \in Page : Adopting(y)' /\ y # p => clicks'[y].token # t
      BY <1>2, <1>5, OfTheLast
    <3>2. CASE q = p  BY <1>4, <2>1, <2>7, <3>1, <3>2
    <3>3. CASE z = p  BY <1>4, <2>1, <2>7, <3>1, <3>3
    <3>4. CASE q # p /\ z # p  BY <1>5, <2>1, <2>7, <3>4 DEF Once, AdoptedIsNew
    <3> QED  BY <3>2, <3>3, <3>4
  <2> QED  BY <2>1, <2>3, <2>4, <2>5, <2>6, <2>7
<1>13. WrittenIsLive'
  <2> SUFFICES ASSUME NEW x \in Context,
                      (Refreshing(x, "issued") /\ held = refreshing[x].spent) \/ Keeping(x)
               PROVE  LiveIfAny(refreshing[x].token)'
    BY <1>3, <1>5 DEF WrittenIsLive, Refreshing
  <2>1. PICK u : u = refreshing'[x].token /\ u = refreshing[x].token  BY <1>3
  <2>2. u \in Token  BY <2>1, OfTheLast DEF Carrying
  <2>3. LiveIfAny(u)'  BY <1>1, <1>6, <2>1, <2>2, LivesOn
  <2> QED  BY <2>1, <2>3 DEF LiveIfAny, Root
<1>14. HeldIsLive'
  <2> SUFFICES ASSUME held' # NoToken PROVE LiveIfAny(held)'
    BY DEF HeldIsLive
  <2>1. PICK u : u = held /\ u = held' /\ u # NoToken  BY <1>3
  <2>2. u \in Token  BY <2>1, OfTheLast
  <2>3. LiveIfAny(u)'  BY <1>1, <1>6, <2>1, <2>2, LivesOn
  <2> QED  BY <2>1, <2>3 DEF LiveIfAny, Root
<1>15. LastIsRow'
  BY <1>0, <1>3 DEF Once, LastIsRow, IInv, TypeOK, Tokens, Row
<1> QED  BY <1>7, <1>8, <1>9, <1>10, <1>12, <1>13, <1>14, <1>15 DEF Once

\* A new epoch: nothing is held under it, and nothing was about to be.
LEMMA EpochKeeps ==
    ASSUME IInv, Once, NEW p \in Page, Adopt(p) \/ Forget(p)
    PROVE  Once'
<1>1. UNCHANGED <<refreshing, adrift, runs>> /\ UNCHANGED store /\ epoch' = epoch + 1
  BY DEF Adopt, Forget, NewEpoch
<1>2. UNCHANGED sessions /\ NoToken \notin Token  BY <1>1, StoreStays
<1>3. epoch \in Nat /\ epoch' \in Epoch
  BY BoundAssumption DEF IInv, TypeOK, Epoch, Adopt, Forget, NewEpoch
<1>4. held' = NoToken
  <2>1. RunOK(epoch', runs[epoch'])  BY <1>3 DEF IInv, Runs
  <2> QED  BY <1>1, <1>3, <2>1 DEF RunOK, held
<1>5. \A x \in Context : ~Keeping(x)'
  <2>1. ASSUME NEW x \in Context, Keeping(x)' PROVE FALSE
    <3>1. refreshing[x] # Nothing /\ refreshing[x].at = epoch + 1
      BY <1>1, <2>1 DEF Keeping, Refreshing
    <3>2. refreshing[x].at <= epoch  BY <3>1, RefreshThere DEF RefreshOK
    <3> QED  BY <1>3, <3>1, <3>2
  <2> QED  BY <2>1
<1>6. /\ \A x \in Context : Carrying(x)' <=> Carrying(x)
      /\ \A w \in Token : Asked(w)' <=> Asked(w)
  BY <1>1 DEF Carrying, Refreshing, Asked
<1>7. /\ \A q \in Page : q # p => clicks'[q] = clicks[q]
      /\ Forget(p) => ~Adopting(p)' /\ last' = NoToken
      /\ Adopt(p) => /\ Adopting(p) /\ Opening(p)' /\ clicks'[p].token = clicks[p].token
                     /\ last' = clicks[p].token
  <2>1. CASE Forget(p)
    <3>1. PICK c : c = [clicks[p] EXCEPT !.step = "drop"]  OBVIOUS
    <3>2. ClickGoes(p, c) /\ Clicked(p, "forget")  BY <2>1, <3>1 DEF Forget, ClickStep
    <3>3. clicks[p] \in Click  BY <3>2, ClickThere DEF Clicked
    <3>4. c.step = "drop"  BY <3>1, <3>3 DEF Click
    <3> QED  BY <2>1, <3>2, <3>4, ClickSteps DEF Adopting, Clicked, Adopt, Forget, NewEpoch
  <2>2. CASE Adopt(p)
    <3>1. PICK c : c = [clicks[p] EXCEPT !.step = "grant", !.at = epoch + 1]  OBVIOUS
    <3>2. ClickGoes(p, c) /\ Clicked(p, "adopt")  BY <2>2, <3>1 DEF Adopt
    <3>3. clicks[p] \in Click  BY <3>2, ClickThere DEF Clicked
    <3>4. c \in Click /\ c.step = "grant" /\ c.token = clicks[p].token /\ c.at = epoch'
      BY <1>1, <1>3, <3>1, <3>3 DEF Click
    <3>5. clicks'[p] = c /\ c # Nothing /\ \A q \in Page : q # p => clicks'[q] = clicks[q]
      BY <3>2, <3>4, NothingAssumption, ClickSteps
    <3>6. last' = clicks[p].token  BY <2>2 DEF Adopt, NewEpoch
    <3> QED  BY <2>2, <3>2, <3>4, <3>5, <3>6 DEF Adopting, Opening, Clicked, Adopt, Forget
  <2> QED  BY <2>1, <2>2
<1>8. \A q \in Page : Opening(q)' => q = p
  <2>1. ASSUME NEW q \in Page, Opening(q)', q # p PROVE FALSE
    <3>1. clicks[q] # Nothing /\ clicks[q].step \in {"grant", "put"} /\ clicks[q].at = epoch + 1
      BY <1>1, <1>7, <2>1 DEF Opening, Clicked
    <3>2. clicks[q].at <= epoch  BY <3>1, ClickThere DEF ClickOK
    <3> QED  BY <1>3, <3>1, <3>2
  <2> QED  BY <2>1
<1>9. \A q \in Page : Adopting(q)' => /\ Adopting(q) /\ clicks'[q].token = clicks[q].token
                                      /\ ~Opening(q)' => clicks'[q].token # last'
  <2>1. ASSUME NEW q \in Page, Adopting(q)'
        PROVE  Adopting(q) /\ clicks'[q].token = clicks[q].token
    BY <1>7, <2>1 DEF Adopting, Clicked
  <2>2. ASSUME NEW q \in Page, Adopting(q)', ~Opening(q)' PROVE clicks'[q].token # last'
    <3>1. CASE Forget(p)  BY <1>2, <1>7, <2>1, <2>2, <3>1, OfTheLast
    <3>2. CASE Adopt(p)
      BY <1>7, <2>1, <2>2, <3>2 DEF Once, AdoptedIsNew
    <3> QED  BY <3>1, <3>2
  <2> QED  BY <2>1, <2>2
<1>10. Apart'  BY <1>1, <1>6 DEF Once, Apart
<1>11. CarriedIsNew'
  <2>1. \A x \in Context : Carrying(x)' => NoToken # refreshing'[x].token
    BY <1>1, <1>2, <1>6, OfTheLast
  <2> QED  BY <1>1, <1>4, <1>6, <2>1 DEF Once, CarriedIsNew
<1>12. AskedIsHeld'
  BY <1>2, <1>4, <1>5, <1>6, SameLives DEF Once, AskedIsHeld
<1>13. WritesAreAlone'  BY <1>4, <1>5, <1>8 DEF WritesAreAlone
<1>14. AdoptedIsNew'
  <2> SUFFICES ASSUME NEW q \in Page, Adopting(q)'
               PROVE  /\ LiveIfAny(clicks[q].token)'
                      /\ ~Opening(q)' => clicks'[q].token # last'
                      /\ \A x \in Context : refreshing'[x] # Nothing
                            => Root(refreshing[x].spent)' # clicks'[q].token
                      /\ \A w \in Token : Asked(w)' => Root(w)' # clicks'[q].token
                      /\ \A z \in Page : Adopting(z)' /\ z # q => clicks'[z].token # clicks'[q].token
    BY DEF AdoptedIsNew
  <2>1. PICK t : t = clicks'[q].token /\ t = clicks[q].token  BY <1>9
  <2>2. Adopting(q) /\ LiveIfAny(t)  BY <1>9, <2>1 DEF Once, AdoptedIsNew
  <2>3. LiveIfAny(t)'  BY <1>2, <2>2, SameLives
  <2>4. LiveIfAny(clicks[q].token)'  BY <2>1, <2>3 DEF LiveIfAny, Root
  <2>5. \A x \in Context : refreshing'[x] # Nothing => Root(refreshing[x].spent)' # t
    BY <1>1, <1>2, <2>1, <2>2 DEF Once, AdoptedIsNew, Root
  <2>6. \A w \in Token : Asked(w)' => Root(w)' # t
    BY <1>2, <1>6, <2>1, <2>2 DEF Once, AdoptedIsNew, Root
  <2>7. \A z \in Page : Adopting(z)' /\ z # q => clicks'[z].token # t
    BY <1>9, <2>1, <2>2 DEF Once, AdoptedIsNew
  <2> QED  BY <1>9, <2>1, <2>4, <2>5, <2>6, <2>7
<1>15. WrittenIsLive'
  <2> SUFFICES ASSUME NEW x \in Context, Refreshing(x, "issued")', held' = refreshing'[x].spent
               PROVE  FALSE
    BY <1>5 DEF WrittenIsLive
  <2> QED  BY <1>1, <1>2, <1>4, OfTheLast DEF Refreshing
<1>16. HeldIsLive'  BY <1>4 DEF HeldIsLive
<1>17. LastIsRow'
  <2>1. CASE Forget(p)  BY <1>7, <2>1 DEF LastIsRow
  <2>2. CASE Adopt(p)
    <3>1. PICK t : t = last' /\ t = clicks[p].token  BY <1>7, <2>2
    <3>2. Row(t)  BY <1>7, <2>2, <3>1, OfTheLast
    <3>3. Row(t)'  BY <1>2, <3>2, SameLives
    <3> QED  BY <3>1, <3>3 DEF LastIsRow, Row
  <2> QED  BY <2>1, <2>2
<1> QED  BY <1>10, <1>11, <1>12, <1>13, <1>14, <1>15, <1>16, <1>17 DEF Once

\* The run that counts gets the session that its code bought.
LEMMA OpenKeeps ==
    ASSUME IInv, Once, NEW p \in Page, AdoptSession(p), clicks[p].at = epoch
    PROVE  Once'
<1>1. Clicked(p, "put") /\ Opening(p) /\ Adopting(p)  BY DEF AdoptSession, Opening, Adopting
<1>2. PICK t : t = clicks[p].token  OBVIOUS
<1>3. t \in Token /\ Row(t) /\ Root(t) = t /\ t = last /\ epoch \in Epoch
  BY <1>1, <1>2, OfTheLast
<1>4. UNCHANGED <<epoch, last, refreshing, adrift>> /\ UNCHANGED store /\ held' = t
  BY <1>2, <1>3 DEF AdoptSession, held, IInv, TypeOK
<1>5. RowsStay /\ Lasts(NoToken) /\ UNCHANGED sessions /\ NoToken \notin Token
  BY <1>4, StoreStays
<1>6. ~Adopting(p)' /\ \A q \in Page : q # p => clicks'[q] = clicks[q]
  <2>1. PICK c : c = [clicks[p] EXCEPT !.step = "look"]  OBVIOUS
  <2>2. ClickGoes(p, c)  BY <2>1 DEF AdoptSession, ClickStep
  <2>3. clicks[p] \in Click  BY <1>1, ClickThere DEF Clicked
  <2>4. c.step = "look"  BY <2>1, <2>3 DEF Click
  <2> QED  BY <2>2, <2>4, ClickSteps DEF Adopting, Clicked
<1>7. /\ \A x \in Context : (Carrying(x)' <=> Carrying(x)) /\ (Keeping(x)' <=> Keeping(x))
      /\ \A w \in Token : Asked(w)' <=> Asked(w)
      /\ \A q \in Page : Adopting(q)' => Adopting(q) /\ clicks'[q].token = clicks[q].token
      /\ \A q \in Page : Opening(q)' <=> Opening(q) /\ Adopting(q)'
  BY <1>4, <1>6 DEF Carrying, Keeping, Refreshing, Asked, Adopting, Opening, Clicked
<1>8. Apart' /\ AdoptedIsNew' /\ LastIsRow'
  <2>1. NoneStarts  BY <1>4, <1>7 DEF NoneStarts, AdriftCalms
  <2> QED  BY <1>5, <2>1, CallsKeep
<1>9. \A x \in Context : refreshing[x] # Nothing => Root(refreshing[x].spent) # t
  BY <1>1, <1>2 DEF Once, AdoptedIsNew
<1>10. CarriedIsNew'
  <2>1. \A x \in Context : Carrying(x) => refreshing[x].token # t
    BY <1>3, <1>9, OfTheLast
  <2> QED  BY <1>4, <1>7, <2>1 DEF Once, CarriedIsNew
<1>11. AskedIsHeld'
  <2>1. ASSUME NEW w \in Token, Asked(w)' PROVE Row(w)' /\ Root(w)' # last'
    <3>1. Row(w) /\ Root(w) # t
      BY <1>1, <1>2, <1>7, <2>1 DEF Once, AskedIsHeld, AdoptedIsNew
    <3> QED  BY <1>3, <1>4, <1>5, <3>1, SameLives
  <2> QED  BY <2>1 DEF AskedIsHeld
<1>12. WritesAreAlone'
  <2>1. \A x \in Context : ~Keeping(x)'  BY <1>1, <1>7 DEF Once, WritesAreAlone
  <2>2. \A q \in Page : ~Opening(q)'  BY <1>1, <1>6, <1>7 DEF Once, WritesAreAlone
  <2> QED  BY <2>1, <2>2 DEF WritesAreAlone
<1>13. WrittenIsLive'
  <2>1. \A x \in Context : ~Keeping(x)'  BY <1>1, <1>7 DEF Once, WritesAreAlone
  <2>2. \A x \in Context : refreshing[x] # Nothing => refreshing[x].spent # t
    BY <1>3, <1>9
  <2> QED  BY <1>4, <2>1, <2>2 DEF WrittenIsLive, Refreshing
<1>14. HeldIsLive'
  <2>1. LiveIfAny(t)  BY <1>1, <1>2 DEF Once, AdoptedIsNew
  <2>2. LiveIfAny(t)'  BY <1>5, <2>1, SameLives
  <2> QED  BY <1>4, <2>2 DEF HeldIsLive, LiveIfAny, Root
<1> QED  BY <1>8, <1>10, <1>11, <1>12, <1>13, <1>14 DEF Once

-----------------------------------------------------------------------------
(* Every step.                                                               *)

\* What a quiet step asks of the worker ends a chain, or leaves the store alone.
QuietStore ==
    \/ UNCHANGED store
    \/ \E k \in Code, p \in Person, n \in Name, at \in Instant : Store!CreatePairing(k, p, n, at)
    \/ \E t \in Token, at \in Instant : Store!RotateLate(t, at) \/ Store!RotateReplay(t, at)
    \/ \E t \in Token : Store!RevokeSession(t)

LEMMA QuietStoreKeeps ==
    ASSUME IInv, QuietStore
    PROVE  RowsStay /\ Lasts(NoToken) /\ NoToken \notin Token
<1>1. UsesStore \/ UNCHANGED store  BY DEF QuietStore, UsesStore
<1> QED  BY <1>1, StoreSteps, QuietLasts, NullAssumption DEF IInv, QuietStore

HeldStays == held' \in {held, NoToken}

LEMMA RunGone ==
    ASSUME IInv, NEW e \in Epoch, NEW t, runs' = [runs EXCEPT ![e] = t], epoch' = epoch,
           t = NoToken \/ e # epoch
    PROVE  HeldStays
  BY DEF IInv, TypeOK, HeldStays, held

\* A refresh that goes on to nothing that it writes.
LEMMA QuietRefresh ==
    ASSUME IInv, Once, QuietStore, UNCHANGED <<epoch, last, clicks>>, HeldStays,
           NEW x \in Context, NEW r, RefreshGoes(x, r), refreshing[x] # Nothing,
           \/ r = Nothing
           \/ r.spent = refreshing[x].spent /\ r.step \notin {"asked", "issued", "put"},
           \/ UNCHANGED adrift
           \/ r = Nothing /\ RefreshStops(x)
    PROVE  Once'
<1>1. refreshing'[x] = r /\ \A y \in Context : y # x => refreshing'[y] = refreshing[y]
  BY RefreshSteps
<1>2. AdriftCalms
  <2>1. CASE UNCHANGED adrift  BY <2>1 DEF AdriftCalms
  <2>2. CASE r = Nothing /\ RefreshStops(x)
    BY <1>1, <2>2 DEF AdriftCalms, RefreshStops, StillReceived, Refreshing
  <2> QED  BY <2>1, <2>2
<1>3. Calms
  BY <1>1, <1>2 DEF Calms, RefreshCalms, ClickCalms
<1> QED  BY <1>3, QuietStoreKeeps, QuietKeeps DEF HeldStays

LEMMA RefreshKeeps ==
    ASSUME IInv, Once, NEW x \in Context,
           \/ KeepIfCurrent(x) \/ Put(x) \/ PutLooked(x) \/ WriteGrant(x)
           \/ EndLooked(x) \/ End(x) \/ AfterSession(x) \/ AfterGrant(x) \/ AfterBoth(x)
           \/ EndDropped(x) \/ RefreshStops(x)
           \/ \E e \in Epoch : PutSwept(x, e)
           \/ \E at \in Instant : Refused(x, at)
    PROVE  Once'
<1>1. refreshing[x] # Nothing /\ refreshing[x] \in Refresh
  BY RefreshThere DEF KeepIfCurrent, Put, PutLooked, WriteGrant, EndLooked, End, AfterSession,
     AfterGrant, AfterBoth, EndDropped, RefreshStops, PutSwept, Refused, Refreshing
<1>2. UNCHANGED <<epoch, last, clicks>>
  BY DEF KeepIfCurrent, Put, PutLooked, WriteGrant, EndLooked, End, AfterSession,
     AfterGrant, AfterBoth, EndDropped, RefreshStops, PutSwept, Refused, local
<1>3. QuietStore
  <2>1. ASSUME NEW at \in Instant, Refused(x, at) PROVE QuietStore
    <3>1. PICK t : t = refreshing[x].spent  OBVIOUS
    <3>2. t \in Token  BY <1>1, <3>1 DEF Refresh
    <3> QED  BY <2>1, <3>1, <3>2 DEF Refused, QuietStore
  <2> QED  BY <2>1 DEF KeepIfCurrent, Put, PutLooked, WriteGrant, EndLooked, End, AfterSession,
     AfterGrant, AfterBoth, EndDropped, RefreshStops, PutSwept, QuietStore
<1>4. UNCHANGED adrift \/ (RefreshGoes(x, Nothing) /\ RefreshStops(x))
  BY DEF KeepIfCurrent, Put, PutLooked, WriteGrant, EndLooked, End, AfterSession,
     AfterGrant, AfterBoth, EndDropped, RefreshStops, PutSwept, Refused
<1>5. UNCHANGED runs \/ Put(x) \/ End(x) \/ \E e \in Epoch : PutSwept(x, e)
  BY DEF KeepIfCurrent, PutLooked, WriteGrant, EndLooked, AfterSession,
     AfterGrant, AfterBoth, EndDropped, RefreshStops, Refused, local
<1>6. HeldStays \/ (Put(x) /\ refreshing[x].at = epoch)
  <2>1. CASE UNCHANGED runs  BY <1>2, <2>1 DEF HeldStays, held
  <2>2. CASE Put(x) \/ End(x)
    <3>1. PICK e : e = refreshing[x].at  OBVIOUS
    <3>2. e \in Epoch  BY <1>1, <3>1 DEF Refresh
    <3> QED  BY <1>2, <2>2, <3>1, <3>2, RunGone DEF Put, End
  <2>3. CASE \E e \in Epoch : PutSwept(x, e)  BY <1>2, <2>3, RunGone DEF PutSwept
  <2> QED  BY <1>5, <2>1, <2>2, <2>3
<1>7. CASE Put(x) /\ refreshing[x].at = epoch  BY <1>7, PutKeeps
<1>8. CASE KeepIfCurrent(x) /\ held = refreshing[x].spent  BY <1>8, KeepKeeps
<1>9. ASSUME HeldStays, NEW r, RefreshGoes(x, r),
             r.spent = refreshing[x].spent, r.step \notin {"asked", "issued", "put"},
             UNCHANGED adrift
      PROVE  Once'
  BY <1>1, <1>2, <1>3, <1>9, QuietRefresh
<1>10. ASSUME HeldStays, RefreshGoes(x, Nothing) PROVE Once'
  <2>1. PICK r : r = Nothing  OBVIOUS
  <2> QED  BY <1>1, <1>2, <1>3, <1>4, <1>10, <2>1, QuietRefresh
<1>11. ASSUME NEW step \in {"look", "refused", "end", "after", "drop"}, RefreshStep(x, step),
              HeldStays, UNCHANGED adrift
       PROVE  Once'
  <2>1. PICK r : r = [refreshing[x] EXCEPT !.step = step]  OBVIOUS
  <2>2. RefreshGoes(x, r)  BY <1>11, <2>1 DEF RefreshStep
  <2>3. r.spent = refreshing[x].spent /\ r.step = step  BY <1>1, <2>1 DEF Refresh
  <2> QED  BY <1>9, <1>11, <2>2, <2>3
<1>12. CASE PutLooked(x) \/ AfterSession(x) \/ AfterGrant(x) \/ \E e \in Epoch : PutSwept(x, e)
  <2>1. PICK r : /\ RefreshGoes(x, r)
                 /\ \/ r = [refreshing[x] EXCEPT !.step = "sweep", !.gone = RunsOver]
                    \/ r = [refreshing[x] EXCEPT !.step = "session", !.token = held]
                    \/ r = [refreshing[x] EXCEPT !.step = "grant", !.token = grant]
                    \/ \E e \in Epoch : PutSwept(x, e) /\ r = [refreshing[x] EXCEPT !.gone = @ \ {e}]
    BY <1>12 DEF PutLooked, AfterSession, AfterGrant, PutSwept
  <2>2. r.spent = refreshing[x].spent /\ r.step \notin {"asked", "issued", "put"}
    BY <1>1, <2>1 DEF Refresh, PutSwept, Refreshing
  <2>3. HeldStays /\ UNCHANGED adrift
    BY <1>6, <1>12 DEF PutLooked, AfterSession, AfterGrant, PutSwept, Put, Refreshing
  <2> QED  BY <1>9, <2>1, <2>2, <2>3
<1>13. CASE Put(x) \/ End(x) \/ EndLooked(x) \/ \E at \in Instant : Refused(x, at)
  <2>1. \E step \in {"look", "refused", "end", "after", "drop"} : RefreshStep(x, step)
    BY <1>13 DEF Put, End, EndLooked, Refused
  <2>2. UNCHANGED adrift  BY <1>13 DEF Put, End, EndLooked, Refused
  <2> QED  BY <1>6, <1>7, <1>11, <2>1, <2>2
<1>14. CASE WriteGrant(x) \/ AfterBoth(x) \/ EndDropped(x) \/ RefreshStops(x)
            \/ (KeepIfCurrent(x) /\ held # refreshing[x].spent)
  <2>1. RefreshGoes(x, Nothing) \/ (RefreshStep(x, "drop") /\ UNCHANGED adrift)
    BY <1>14 DEF WriteGrant, AfterBoth, EndDropped, RefreshStops, KeepIfCurrent
  <2>2. UNCHANGED runs
    BY <1>14 DEF WriteGrant, AfterBoth, EndDropped, RefreshStops, KeepIfCurrent, local
  <2>3. HeldStays  BY <1>2, <2>2 DEF HeldStays, held
  <2> QED  BY <1>10, <1>11, <2>1, <2>3
<1> QED  BY <1>8, <1>12, <1>13, <1>14

\* A click that goes on to nothing that it writes, or has its grant written.
LEMMA QuietClick ==
    ASSUME IInv, Once, QuietStore, UNCHANGED <<epoch, last, refreshing>>, HeldStays,
           NEW p \in Page, NEW c, ClickGoes(p, c),
           \/ c = Nothing
           \/ c.step \notin {"adopt", "grant", "put"}
           \/ Clicked(p, "grant") /\ c.step = "put" /\ c.token = clicks[p].token /\ c.at = clicks[p].at,
           \A v \in Token : [asks |-> "refresh", token |-> v] \in adrift'
                               => [asks |-> "refresh", token |-> v] \in adrift
    PROVE  Once'
<1>1. clicks'[p] = c /\ \A q \in Page : q # p => clicks'[q] = clicks[q]
  BY ClickSteps
<1>2. Calms
  BY <1>1 DEF Calms, RefreshCalms, ClickCalms, AdriftCalms
<1> QED  BY <1>2, QuietStoreKeeps, QuietKeeps DEF HeldStays

LEMMA ClickKeeps ==
    ASSUME IInv, Once, NEW p \in Page,
           \/ LogOut(p) \/ Revoked(p) \/ RevokeUnanswered(p) \/ ForgetUnmarked(p)
           \/ DropLooked(p) \/ DropGrant(p) \/ ClickDone(p) \/ ClickStops(p)
           \/ AdoptGrant(p) \/ AdoptSession(p) \/ AdoptLooked(p)
           \/ \E e \in Epoch : ClickSwept(p, e)
           \/ \E k \in Code : Pair(p, k)
    PROVE  Once'
<1>1. clicks[p] # Nothing => clicks[p] \in Click  BY ClickThere
<1>2. UNCHANGED <<epoch, last, refreshing>>
  BY DEF LogOut, Revoked, RevokeUnanswered, ForgetUnmarked, DropLooked, DropGrant, ClickDone,
     ClickStops, AdoptGrant, AdoptSession, AdoptLooked, ClickSwept, Pair, local
<1>3. QuietStore
  <2>1. CASE Revoked(p)
    <3>1. PICK t : t = clicks[p].token  OBVIOUS
    <3>2. t \in Token  BY <2>1, <3>1, ClickThere DEF Revoked, Clicked, ClickOK
    <3> QED  BY <2>1, <3>1, <3>2 DEF Revoked, QuietStore
  <2> QED  BY <2>1 DEF LogOut, RevokeUnanswered, ForgetUnmarked, DropLooked, DropGrant, ClickDone,
     ClickStops, AdoptGrant, AdoptSession, AdoptLooked, ClickSwept, Pair, QuietStore
<1>4. \A v \in Token : [asks |-> "refresh", token |-> v] \in adrift'
                          => [asks |-> "refresh", token |-> v] \in adrift
  <2>1. \A v, w : [asks |-> "refresh", token |-> v] # [asks |-> "revoke", token |-> w]
    <3> SUFFICES ASSUME NEW v, NEW w, [asks |-> "refresh", token |-> v] = [asks |-> "revoke", token |-> w]
                 PROVE  FALSE
      OBVIOUS
    <3>1. [asks |-> "refresh", token |-> v].asks = [asks |-> "revoke", token |-> w].asks  OBVIOUS
    <3> QED  BY <3>1
  <2> QED  BY <2>1 DEF LogOut, Revoked, RevokeUnanswered, ForgetUnmarked, DropLooked, DropGrant,
     ClickDone, ClickStops, AdoptGrant, AdoptSession, AdoptLooked, ClickSwept, Pair, StillReceived
<1>5. HeldStays \/ (AdoptSession(p) /\ clicks[p].at = epoch)
  <2>1. CASE AdoptSession(p)
    <3>1. PICK e : e = clicks[p].at  OBVIOUS
    <3>2. e \in Epoch  BY <1>1, <2>1, <3>1 DEF AdoptSession, Clicked, Click
    <3> QED  BY <1>2, <2>1, <3>1, <3>2, RunGone DEF AdoptSession
  <2>2. CASE \E e \in Epoch : ClickSwept(p, e)  BY <1>2, <2>2, RunGone DEF ClickSwept
  <2>3. CASE UNCHANGED runs  BY <1>2, <2>3 DEF HeldStays, held
  <2> QED  BY <2>1, <2>2, <2>3 DEF LogOut, Revoked, RevokeUnanswered, ForgetUnmarked, DropLooked,
     DropGrant, ClickDone, ClickStops, AdoptGrant, AdoptLooked, Pair, local
<1>6. CASE AdoptSession(p) /\ clicks[p].at = epoch  BY <1>6, OpenKeeps
<1>7. ASSUME HeldStays, NEW c, ClickGoes(p, c), c = Nothing \/ c.step \notin {"adopt", "grant", "put"}
      PROVE  Once'
  BY <1>2, <1>3, <1>4, <1>7, QuietClick
<1>8. ASSUME HeldStays, NEW step \in {"forget", "drop", "look"}, ClickStep(p, step), clicks[p] # Nothing
      PROVE  Once'
  <2>1. PICK c : c = [clicks[p] EXCEPT !.step = step]  OBVIOUS
  <2>2. ClickGoes(p, c) /\ c.step = step  BY <1>1, <1>8, <2>1 DEF ClickStep, Click
  <2> QED  BY <1>7, <1>8, <2>2
<1>9. CASE AdoptGrant(p)
  <2>1. PICK c : c = [clicks[p] EXCEPT !.step = "put"]  OBVIOUS
  <2>2. ClickGoes(p, c) /\ Clicked(p, "grant")  BY <1>9, <2>1 DEF AdoptGrant, ClickStep
  <2>3. c.step = "put" /\ c.token = clicks[p].token /\ c.at = clicks[p].at
    BY <1>1, <2>1, <2>2 DEF Clicked, Click
  <2>4. HeldStays  BY <1>2, <1>9 DEF AdoptGrant, local, HeldStays, held
  <2> QED  BY <1>2, <1>3, <1>4, <2>2, <2>3, <2>4, QuietClick
<1>10. ASSUME NEW k \in Code, Pair(p, k) PROVE Once'
  <2>1. PICK c : c = [step |-> "pair", code |-> k, at |-> 0, token |-> NoToken,
                      gone |-> {}, dropped |-> FALSE]
    OBVIOUS
  <2>2. ClickGoes(p, c) /\ c.step = "pair" /\ HeldStays
    BY <1>2, <1>10, <2>1 DEF Pair, local, HeldStays, held
  <2> QED  BY <1>7, <2>2
<1>11. CASE LogOut(p)
  <2>1. PICK c : c = [step |-> IF held = NoToken THEN "forget" ELSE "revoke", code |-> Nothing,
                      at |-> 0, token |-> held, gone |-> {}, dropped |-> FALSE]
    OBVIOUS
  <2>2. ClickGoes(p, c) /\ c.step \in {"forget", "revoke"} /\ HeldStays
    BY <1>2, <1>11, <2>1 DEF LogOut, local, HeldStays, held
  <2> QED  BY <1>7, <2>2
<1>12. CASE DropLooked(p) \/ AdoptLooked(p) \/ DropGrant(p) \/ \E e \in Epoch : ClickSwept(p, e)
  <2>1. PICK c : /\ ClickGoes(p, c)
                 /\ \/ c = [clicks[p] EXCEPT !.step = "dropping", !.gone = RunsHeld]
                    \/ c = [clicks[p] EXCEPT !.step = "sweep", !.gone = RunsOver]
                    \/ DropGrant(p) /\ c = [clicks[p] EXCEPT !.dropped = TRUE]
                    \/ \E e \in Epoch : ClickSwept(p, e) /\ c = [clicks[p] EXCEPT !.gone = @ \ {e}]
    BY <1>12 DEF DropLooked, AdoptLooked, DropGrant, ClickSwept
  <2>2. clicks[p] \in Click
    BY <1>1, <1>12 DEF DropLooked, AdoptLooked, DropGrant, ClickSwept, Clicked
  <2>3. c.step \in {"drop", "dropping", "sweep"}
    BY <2>1, <2>2 DEF Click, DropGrant, ClickSwept, Clicked
  <2>4. HeldStays
    BY <1>5, <1>12 DEF DropLooked, AdoptLooked, DropGrant, ClickSwept, AdoptSession, Clicked
  <2> QED  BY <1>7, <2>1, <2>3, <2>4
<1>13. CASE Revoked(p) \/ RevokeUnanswered(p) \/ ForgetUnmarked(p) \/ AdoptSession(p)
  <2>1. clicks[p] # Nothing /\ \E step \in {"forget", "drop", "look"} : ClickStep(p, step)
    BY <1>13 DEF Revoked, RevokeUnanswered, ForgetUnmarked, AdoptSession, Clicked
  <2> QED  BY <1>5, <1>6, <1>8, <2>1
<1>14. CASE ClickDone(p) \/ ClickStops(p)
  <2>1. ClickGoes(p, Nothing) /\ UNCHANGED runs  BY <1>14 DEF ClickDone, ClickStops, local
  <2>2. HeldStays  BY <1>2, <2>1 DEF HeldStays, held
  <2>3. PICK c : c = Nothing  OBVIOUS
  <2> QED  BY <1>7, <2>1, <2>2, <2>3
<1> QED  BY <1>9, <1>10, <1>11, <1>12, <1>13, <1>14

\* A late request is handled, or every context is gone.
LEMMA OutsideKeeps ==
    ASSUME IInv, LinksHold, Once,
           \/ \E r \in adrift : \E s \in Token, at \in Instant : AdriftHandled(r, s, at)
           \/ BrowserCloses
    PROVE  Once'
<1>1. UNCHANGED <<epoch, last>> /\ HeldStays
  BY DEF AdriftHandled, BrowserCloses, local, HeldStays, held
<1>2. CASE BrowserCloses
  <2>1. /\ \A x \in Context : refreshing'[x] = Nothing
        /\ \A p \in Page : clicks'[p] = Nothing
    BY <1>2 DEF BrowserCloses
  <2>2. AdriftCalms
    <3>1. \A v, w : [asks |-> "refresh", token |-> v] # [asks |-> "revoke", token |-> w]
      <4> SUFFICES ASSUME NEW v, NEW w, [asks |-> "refresh", token |-> v] = [asks |-> "revoke", token |-> w]
                   PROVE  FALSE
        OBVIOUS
      <4>1. [asks |-> "refresh", token |-> v].asks = [asks |-> "revoke", token |-> w].asks  OBVIOUS
      <4> QED  BY <4>1
    <3>2. ASSUME NEW v \in Token, [asks |-> "refresh", token |-> v] \in adrift',
                 [asks |-> "refresh", token |-> v] \notin adrift
          PROVE  \E x \in Context : Refreshing(x, "asked") /\ refreshing[x].spent = v
      <4>1. PICK r : r = [asks |-> "refresh", token |-> v]  OBVIOUS
      <4>2. r \in {[asks |-> "refresh", token |-> refreshing[x].spent] :
                      x \in {y \in Context : Refreshing(y, "asked")}}
        BY <1>2, <3>1, <3>2, <4>1 DEF BrowserCloses, StillReceived
      <4>3. PICK x \in Context : Refreshing(x, "asked")
                                 /\ r = [asks |-> "refresh", token |-> refreshing[x].spent]
        BY <4>2
      <4>4. r.token = v /\ r.token = refreshing[x].spent  BY <4>1, <4>3
      <4> QED  BY <4>3, <4>4
    <3> QED  BY <2>1, <3>2 DEF AdriftCalms
  <2>3. Calms  BY <1>1, <2>1, <2>2 DEF Calms, RefreshCalms, ClickCalms
  <2>4. QuietStore  BY <1>2 DEF BrowserCloses, QuietStore
  <2> QED  BY <1>1, <2>3, <2>4, QuietStoreKeeps, QuietKeeps DEF HeldStays
<1>3. ASSUME NEW r \in adrift, NEW s \in Token, NEW at \in Instant, AdriftHandled(r, s, at)
      PROVE  Once'
  <2>1. PICK v : v = r.token  OBVIOUS
  <2>2. v \in Token /\ r = [asks |-> r.asks, token |-> v]
    BY <2>1 DEF IInv, TypeOK, Request
  <2>3. Calms
    BY <1>1, <1>3 DEF Calms, RefreshCalms, ClickCalms, AdriftCalms, AdriftHandled
  <2>4. CASE QuietStore
    BY <1>1, <2>3, <2>4, QuietStoreKeeps, QuietKeeps DEF HeldStays
  <2>5. CASE r.asks = "refresh" /\ (Store!RotateFirst(v, s, at) \/ Store!RotateAgain(v, s, at))
    <3>1. Asked(v)  BY <2>2, <2>5 DEF Asked
    <3>2. Lasts(v)  BY <2>2, <2>5, RotationLasts DEF IInv, Rotates
    <3>3. RowsStay  BY <2>2, <2>5, StoreSteps DEF IInv, UsesStore
    <3> QED  BY <1>1, <2>3, <3>1, <3>2, <3>3, QuietKeeps DEF HeldStays
  <2> QED  BY <1>3, <2>1, <2>2, <2>4, <2>5 DEF AdriftHandled, QuietStore
<1> QED  BY <1>2, <1>3

LEMMA SpentOnceInit == Init => SpentOnce
<1> SUFFICES ASSUME Init PROVE SpentOnce
  OBVIOUS
<1>1. \A t \in Token : ~Row(t)  BY DEF Init, Store!Init, Row
<1>2. \A x \in Context : refreshing[x] = Nothing  BY DEF Init
<1>3. \A p \in Page : clicks[p] = Nothing  BY DEF Init
<1>4. held = NoToken /\ last = NoToken /\ adrift = {}
  <2>1. 0 \in Epoch  BY BoundAssumption DEF Epoch
  <2> QED  BY <2>1 DEF Init, held
<1> QED  BY <1>1, <1>2, <1>3, <1>4
         DEF SpentOnce, LinksHold, Once, Apart, CarriedIsNew, AskedIsHeld, WritesAreAlone,
             AdoptedIsNew, WrittenIsLive, HeldIsLive, LastIsRow, Carrying, Keeping, Adopting,
             Opening, Asked, Refreshing, Clicked

\* Every step asks the worker for one operation at most.
LEMMA StepUsesStore ==
    ASSUME IInv, [Next]_vars
    PROVE  UsesStore \/ UNCHANGED store
<1>1. ASSUME NEW x \in Context, NEW at \in Instant,
             Refused(x, at) \/ \E s \in Token : Rotated(x, s, at)
      PROVE  UsesStore \/ UNCHANGED store
  <2>1. PICK t : t = refreshing[x].spent  OBVIOUS
  <2>2. t \in Token  BY <1>1, <2>1, OfTheLast DEF Refused, Rotated, Refreshing
  <2> QED  BY <1>1, <2>1, <2>2 DEF Refused, Rotated, UsesStore
<1>2. ASSUME NEW p \in Page, Revoked(p) PROVE UsesStore
  <2>1. PICK t : t = clicks[p].token  OBVIOUS
  <2>2. t \in Token  BY <1>2, <2>1, ClickThere DEF Revoked, Clicked, ClickOK
  <2> QED  BY <1>2, <2>1, <2>2 DEF Revoked, UsesStore
<1>3. ASSUME NEW p \in Page, NEW t \in Token, NEW at \in Instant, Paired(p, t, at) PROVE UsesStore
  <2>1. PICK k : k = clicks[p].code  OBVIOUS
  <2>2. k \in Code  BY <1>3, <2>1, ClickThere DEF Paired, Clicked, ClickOK
  <2> QED  BY <1>3, <2>1, <2>2 DEF Paired, UsesStore
<1>4. ASSUME NEW r \in adrift, NEW s \in Token, NEW at \in Instant, AdriftHandled(r, s, at)
      PROVE  UsesStore
  <2>1. r.token \in Token  BY DEF IInv, TypeOK, Request
  <2> QED  BY <1>4, <2>1 DEF AdriftHandled, UsesStore
<1>5. ASSUME NEW p \in Page, NEW k \in Code, Pair(p, k) PROVE UsesStore
  BY <1>5 DEF Pair, UsesStore
<1>6. CASE UNCHANGED vars  BY <1>6 DEF vars, store
<1>7. ASSUME NEW x \in Context,
             \/ RefreshStarts(x) \/ KeepIfCurrent(x) \/ Put(x) \/ PutLooked(x) \/ WriteGrant(x)
             \/ EndLooked(x) \/ End(x) \/ AfterSession(x) \/ AfterGrant(x) \/ AfterBoth(x)
             \/ EndDropped(x) \/ RefreshStops(x)
             \/ \E e \in Epoch : PutSwept(x, e)
      PROVE  UNCHANGED store
  BY <1>7 DEF RefreshStarts, KeepIfCurrent, Put, PutLooked, WriteGrant, EndLooked, End, AfterSession,
     AfterGrant, AfterBoth, EndDropped, RefreshStops, PutSwept
<1>8. ASSUME NEW p \in Page,
             \/ LogOut(p) \/ RevokeUnanswered(p) \/ Forget(p) \/ ForgetUnmarked(p)
             \/ DropLooked(p) \/ DropGrant(p) \/ ClickDone(p) \/ ClickStops(p)
             \/ Adopt(p) \/ AdoptGrant(p) \/ AdoptSession(p) \/ AdoptLooked(p)
             \/ \E e \in Epoch : ClickSwept(p, e)
      PROVE  UNCHANGED store
  BY <1>8 DEF LogOut, RevokeUnanswered, Forget, ForgetUnmarked, DropLooked, DropGrant, ClickDone,
     ClickStops, Adopt, AdoptGrant, AdoptSession, AdoptLooked, ClickSwept
<1>9. CASE BrowserCloses  BY <1>9 DEF BrowserCloses
<1> QED  BY <1>1, <1>2, <1>3, <1>4, <1>5, <1>6, <1>7, <1>8, <1>9 DEF Next

LEMMA SpentOnceStep == IInv /\ SpentOnce /\ [Next]_vars => SpentOnce'
<1> SUFFICES ASSUME IInv, SpentOnce, [Next]_vars PROVE SpentOnce'
  OBVIOUS
<1>1. UsesStore \/ UNCHANGED store  BY StepUsesStore
<1>2. LinksHold /\ LinksHold' /\ RowsStay
  BY <1>1, LinksStep, StoreSteps DEF SpentOnce, IInv
<1> SUFFICES ASSUME ~doubled' PROVE Once'
  BY <1>2 DEF SpentOnce
<1>3. Once
  <2>1. ~doubled
    BY DEF Next, RefreshStarts, Rotated, Refused, KeepIfCurrent, Put, PutLooked, PutSwept, WriteGrant,
       EndLooked, End, AfterSession, AfterGrant, AfterBoth, EndDropped, RefreshStops, Pair, Paired,
       Adopt, AdoptGrant, AdoptSession, AdoptLooked, LogOut, Revoked, RevokeUnanswered, Forget,
       ForgetUnmarked, DropLooked, DropGrant, ClickSwept, ClickDone, ClickStops, AdriftHandled,
       BrowserCloses, vars
  <2> QED  BY <2>1 DEF SpentOnce
<1>4. CASE UNCHANGED vars
  <2>1. Calms /\ QuietStore /\ HeldStays
    BY <1>4 DEF vars, store, Calms, RefreshCalms, ClickCalms, AdriftCalms, QuietStore, HeldStays, held
  <2> QED  BY <1>2, <1>3, <2>1, QuietStoreKeeps, QuietKeeps DEF HeldStays
<1>5. ASSUME NEW x \in Context,
             \/ RefreshStarts(x) \/ KeepIfCurrent(x) \/ Put(x) \/ PutLooked(x) \/ WriteGrant(x)
             \/ EndLooked(x) \/ End(x) \/ AfterSession(x) \/ AfterGrant(x) \/ AfterBoth(x)
             \/ EndDropped(x) \/ RefreshStops(x)
             \/ \E e \in Epoch : PutSwept(x, e)
             \/ \E at \in Instant : Refused(x, at) \/ \E s \in Token : Rotated(x, s, at)
      PROVE  Once'
  BY <1>2, <1>3, <1>5, StartKeeps, RotatedKeeps, RefreshKeeps
<1>6. ASSUME NEW p \in Page,
             \/ LogOut(p) \/ Revoked(p) \/ RevokeUnanswered(p) \/ Forget(p) \/ ForgetUnmarked(p)
             \/ DropLooked(p) \/ DropGrant(p) \/ ClickDone(p) \/ ClickStops(p)
             \/ Adopt(p) \/ AdoptGrant(p) \/ AdoptSession(p) \/ AdoptLooked(p)
             \/ \E e \in Epoch : ClickSwept(p, e)
             \/ \E k \in Code : Pair(p, k)
             \/ \E t \in Token, at \in Instant : Paired(p, t, at)
      PROVE  Once'
  BY <1>2, <1>3, <1>6, PairedKeeps, EpochKeeps, ClickKeeps
<1> QED  BY <1>2, <1>3, <1>4, <1>5, <1>6, OutsideKeeps DEF Next

\* HeldTokenIsLive: while no two contexts spent one token at once and no retry was answered
\* before the request it repeats, the refresh token that storage answers is not revoked unless
\* its chain is (refresh and keepIfCurrent of session.ts, rotateSession of the worker).
THEOREM HeldTokenIsAlwaysLive == Spec => []HeldTokenIsLive
<1>1. Init => SpentOnce  BY SpentOnceInit
<1>2. IInv /\ SpentOnce /\ [Next]_vars => SpentOnce'  BY SpentOnceStep
<1>3. SpentOnce => HeldTokenIsLive
  BY DEF SpentOnce, Once, HeldIsLive, LiveIfAny, HeldTokenIsLive
<1> QED  BY <1>1, <1>2, <1>3, Inductive, PTL DEF Spec

-----------------------------------------------------------------------------
(* What leaves storage: a refused session has ended, and a run that is swept is over. *)

RefusedIsDead ==
    \A x \in Context : Refreshing(x, "refused") \/ Refreshing(x, "end")
        => \E at \in Instant : Dead(refreshing[x].spent, at)

SweptIsOver ==
    /\ \A x \in Context : Refreshing(x, "sweep") => \A e \in refreshing[x].gone : e < epoch
    /\ \A p \in Page : Clicked(p, "sweep") => \A e \in clicks[p].gone : e < epoch

Leaving == RefusedIsDead /\ SweptIsOver

\* What is refused once is refused for good.
LEMMA DeadStays ==
    ASSUME IInv, UsesStore \/ UNCHANGED store, NEW t \in Token, Row(t), NEW at, Dead(t, at)
    PROVE  Dead(t, at)'
<1>1. P!IInv /\ P!DigestsAreIssued  BY DEF IInv, P!IInv
<1>2. [P!Next]_(P!vars)
  <2>1. CASE UsesStore  BY <2>1, SameStore DEF UsesStore, P!Next
  <2>2. CASE UNCHANGED store  BY <2>2 DEF store, P!vars
  <2> QED  BY <2>1, <2>2
<1>3. Row(t)' /\ Root(t)' = Root(t)  BY StoreSteps DEF IInv, RowsStay
<1>4. sessions'[t].expires = sessions[t].expires
  <2>1. CASE UNCHANGED store  BY <2>1 DEF store
  <2>2. CASE UsesStore
    <3>1. P!Next  BY <2>2, SameStore DEF UsesStore, P!Next
    <3>2. P!KeepsAll \/ \E s \in Token : P!Draws(s)  BY <1>1, <3>1, P!StepDraws, StoreAssumptions
    <3>3. P!Keeps(t)  BY <1>1, <3>2 DEF P!KeepsAll, P!Draws, P!DigestsAreIssued, Row
    <3> QED  BY <1>3, <3>3 DEF P!Keeps, Row
  <2> QED  BY <2>1, <2>2
<1>5. CASE at >= sessions[t].expires  BY <1>4, <1>5 DEF Dead
<1>6. CASE \A u \in Store!Chain(Root(t)) : ~Store!Live(u)
  <2>1. PICK r : r = Root(t)  OBVIOUS
  <2>2. r \in Token \cap issued
    BY <1>1, <2>1 DEF P!DigestsAreIssued, P!IInv, P!TypeOK, P!SessionRow, Row, Root
  <2>3. P!Ended(r)  BY <1>6, <2>1 DEF P!Ended, P!Live, Store!Live, Store!Chain
  <2>4. P!Ended(r)'  BY <1>1, <1>2, <2>2, <2>3, P!EndedStep, StoreAssumptions
  <2>5. \A u \in Store!Chain(r)' : ~Store!Live(u)'
    BY <2>4 DEF P!Ended, P!Live, Store!Live, Store!Chain
  <2> QED  BY <1>3, <2>1, <2>5 DEF Dead, Root, Store!Chain
<1> QED  BY <1>5, <1>6 DEF Dead

\* What the worker refuses is expired, or its chain has ended with this answer.
LEMMA RefusedDies ==
    ASSUME IInv, NEW x \in Context, NEW at \in Instant, Refused(x, at)
    PROVE  refreshing'[x].spent = refreshing[x].spent /\ Dead(refreshing[x].spent, at)'
<1>1. PICK t : t = refreshing[x].spent  OBVIOUS
<1>2. t \in Token /\ Row(t)  BY <1>1, OfTheLast DEF Refused, Refreshing
<1>3. UsesStore \/ UNCHANGED store  BY <1>1, <1>2 DEF Refused, UsesStore
<1>4. RowsStay  BY <1>3, StoreSteps DEF IInv
<1>5. ASSUME sessions' = Store!Revoking(Store!Chain(sessions[t].root)) PROVE Dead(t, at)'
  <2>1. ASSUME NEW u \in Store!Chain(Root(t))', Store!Live(u)' PROVE FALSE
    <3>1. u \in Token /\ Root(u)' = Root(t)' /\ Row(u)'
      BY <2>1 DEF Store!Chain, Root, Row
    <3>2. sessions \in [Token -> P!SessionRow \cup {NoRow}]  BY DEF IInv, P!IInv, P!TypeOK
    <3>3. Row(u)
      BY <1>5, <3>1 DEF Store!Revoking, Store!Chain, Row
    <3>4. Root(u) = Root(t)  BY <1>2, <1>4, <3>1, <3>3 DEF RowsStay
    <3>5. sessions'[u] = [sessions[u] EXCEPT !.revoked = TRUE]
      BY <1>5, <3>1, <3>3, <3>4 DEF Store!Revoking, Store!Chain, Row, Root
    <3>6. sessions'[u].revoked
      BY <3>1, <3>2, <3>3, <3>5 DEF P!SessionRow, Row
    <3> QED  BY <2>1, <3>6 DEF Store!Live
  <2> QED  BY <2>1 DEF Dead
<1>6. ASSUME Dead(t, at), UNCHANGED store PROVE Dead(t, at)'
  BY <1>2, <1>6, DeadStays
<1>7. Dead(t, at)'
  BY <1>1, <1>5, <1>6 DEF Refused, Store!RotateLate, Store!RotateReplay
<1>8. t = refreshing'[x].spent
  <2>1. PICK r : r = [refreshing[x] EXCEPT !.step = "refused"]  OBVIOUS
  <2>2. RefreshGoes(x, r) /\ refreshing[x] \in Refresh
    BY <2>1, RefreshThere DEF Refused, RefreshStep, Refreshing
  <2> QED  BY <1>1, <2>1, <2>2, RefreshSteps DEF Refresh
<1> QED  BY <1>1, <1>7, <1>8 DEF Dead, Root

\* What may become of a refresh: refused now, on the way to end its run, or to sweep.
RefreshFate(x) ==
    \/ refreshing'[x] = refreshing[x] \/ refreshing'[x] = Nothing
    \/ refreshing'[x].step \notin {"refused", "end", "sweep"}
    \/ refreshing'[x].step = "refused" /\ \E at \in Instant : Refused(x, at)
    \/ /\ refreshing'[x].step = "end" /\ Refreshing(x, "refused")
       /\ refreshing'[x].spent = refreshing[x].spent
    \/ refreshing'[x].step = "sweep" /\ refreshing'[x].gone = RunsOver
    \/ /\ refreshing'[x].step = "sweep" /\ Refreshing(x, "sweep")
       /\ refreshing'[x].gone \subseteq refreshing[x].gone

ClickFate(p) ==
    \/ clicks'[p] = clicks[p] \/ clicks'[p] = Nothing
    \/ clicks'[p].step # "sweep"
    \/ clicks'[p].gone = RunsOver
    \/ Clicked(p, "sweep") /\ clicks'[p].gone \subseteq clicks[p].gone

LEMMA RefreshFates ==
    ASSUME IInv, [Next]_vars, NEW x \in Context
    PROVE  RefreshFate(x)
<1> DEFINE Fate(r) ==
        \/ r = Nothing
        \/ r.step \notin {"refused", "end", "sweep"}
        \/ r.step = "refused" /\ \E at \in Instant : Refused(x, at)
        \/ r.step = "end" /\ Refreshing(x, "refused") /\ r.spent = refreshing[x].spent
        \/ r.step = "sweep" /\ r.gone = RunsOver
        \/ r.step = "sweep" /\ Refreshing(x, "sweep") /\ r.gone \subseteq refreshing[x].gone
<1>1. ASSUME NEW r, RefreshGoes(x, r), Fate(r) PROVE RefreshFate(x)
  <2>1. refreshing'[x] = r  BY <1>1, RefreshSteps
  <2> QED  BY <1>1, <2>1 DEF RefreshFate
<1>2. ASSUME NEW y \in Context, NEW r, RefreshGoes(y, r), y # x PROVE RefreshFate(x)
  BY <1>2, RefreshSteps DEF RefreshFate
<1>3. refreshing[x] # Nothing => refreshing[x] \in Refresh  BY RefreshThere
<1> HIDE DEF Fate
<1>4. ASSUME NEW step \in {"look", "refused", "end", "after", "drop"}, RefreshStep(x, step),
             refreshing[x] # Nothing,
             step = "refused" => \E at \in Instant : Refused(x, at),
             step = "end" => Refreshing(x, "refused")
      PROVE  RefreshFate(x)
  <2>1. PICK r : r = [refreshing[x] EXCEPT !.step = step]  OBVIOUS
  <2>2. RefreshGoes(x, r)  BY <1>4, <2>1 DEF RefreshStep
  <2>3. r.step = step /\ r.spent = refreshing[x].spent  BY <1>3, <1>4, <2>1 DEF Refresh
  <2>4. Fate(r)  BY <1>4, <2>3 DEF Fate
  <2> QED  BY <1>1, <2>2, <2>4
<1>5. ASSUME RefreshGoes(x, Nothing) PROVE RefreshFate(x)
  <2>1. PICK r : r = Nothing  OBVIOUS
  <2>2. Fate(r)  BY <2>1 DEF Fate
  <2> QED  BY <1>1, <1>5, <2>1, <2>2
<1>6. CASE Put(x) \/ End(x) \/ EndLooked(x) \/ \E at \in Instant : Refused(x, at)
  <2>1. refreshing[x] # Nothing  BY <1>6 DEF Put, End, EndLooked, Refused, Refreshing
  <2>2. CASE Put(x)  BY <1>4, <2>1, <2>2 DEF Put
  <2>3. CASE End(x)  BY <1>4, <2>1, <2>3 DEF End
  <2>4. CASE EndLooked(x)  BY <1>4, <2>1, <2>4 DEF EndLooked
  <2>5. CASE \E at \in Instant : Refused(x, at)  BY <1>4, <2>1, <2>5 DEF Refused
  <2> QED  BY <1>6, <2>2, <2>3, <2>4, <2>5
<1>7. CASE WriteGrant(x) \/ AfterBoth(x) \/ EndDropped(x) \/ RefreshStops(x)
  <2>1. RefreshGoes(x, Nothing) \/ (refreshing[x] # Nothing /\ RefreshStep(x, "drop"))
    BY <1>7 DEF WriteGrant, AfterBoth, EndDropped, RefreshStops, Refreshing
  <2> QED  BY <1>4, <1>5, <2>1
<1>8. CASE PutLooked(x) \/ AfterSession(x) \/ AfterGrant(x) \/ (\E e \in Epoch : PutSwept(x, e))
           \/ KeepIfCurrent(x) \/ \E s \in Token, at \in Instant : Rotated(x, s, at)
  <2>1. refreshing[x] \in Refresh
    BY <1>3, <1>8 DEF PutLooked, AfterSession, AfterGrant, PutSwept, KeepIfCurrent, Rotated, Refreshing
  <2>2. PICK r : /\ RefreshGoes(x, r)
                 /\ \/ r = Nothing
                    \/ r = [refreshing[x] EXCEPT !.step = "sweep", !.gone = RunsOver]
                    \/ r = [refreshing[x] EXCEPT !.step = "session", !.token = held]
                    \/ r = [refreshing[x] EXCEPT !.step = "grant", !.token = grant]
                    \/ r = [refreshing[x] EXCEPT !.step = "put", !.at = epoch]
                    \/ \E s \in Token : r = [refreshing[x] EXCEPT !.step = "issued", !.token = s]
                    \/ \E e \in Epoch : /\ Refreshing(x, "sweep")
                                        /\ r = [refreshing[x] EXCEPT !.gone = @ \ {e}]
    BY <1>8 DEF PutLooked, AfterSession, AfterGrant, PutSwept, KeepIfCurrent, Rotated
  <2>3. Fate(r)
    <3>1. CASE r = [refreshing[x] EXCEPT !.step = "sweep", !.gone = RunsOver]
      <4>1. r.step = "sweep" /\ r.gone = RunsOver  BY <2>1, <3>1 DEF Refresh
      <4> QED  BY <4>1 DEF Fate
    <3>2. CASE \E e \in Epoch : Refreshing(x, "sweep") /\ r = [refreshing[x] EXCEPT !.gone = @ \ {e}]
      <4>1. r.step = "sweep" /\ r.gone \subseteq refreshing[x].gone
        BY <2>1, <3>2 DEF Refresh, Refreshing
      <4> QED  BY <3>2, <4>1 DEF Fate
    <3>3. CASE \/ r = [refreshing[x] EXCEPT !.step = "session", !.token = held]
               \/ r = [refreshing[x] EXCEPT !.step = "grant", !.token = grant]
               \/ r = [refreshing[x] EXCEPT !.step = "put", !.at = epoch]
               \/ \E s \in Token : r = [refreshing[x] EXCEPT !.step = "issued", !.token = s]
      <4>1. r.step \in {"session", "grant", "put", "issued"}  BY <2>1, <3>3 DEF Refresh
      <4> QED  BY <4>1 DEF Fate
    <3>4. CASE r = Nothing  BY <3>4 DEF Fate
    <3> QED  BY <2>2, <3>1, <3>2, <3>3, <3>4
  <2> QED  BY <1>1, <2>2, <2>3
<1>9. CASE RefreshStarts(x)
  <2>1. PICK r : r = [step |-> "asked", spent |-> held, at |-> epoch,
                      token |-> NoToken, gone |-> {}]
    OBVIOUS
  <2>2. RefreshGoes(x, r) /\ r.step = "asked"  BY <1>9, <2>1 DEF RefreshStarts
  <2>3. Fate(r)  BY <2>2 DEF Fate
  <2> QED  BY <1>1, <2>2, <2>3
<1>10. ASSUME NEW y \in Context, y # x,
              \/ RefreshStarts(y) \/ KeepIfCurrent(y) \/ Put(y) \/ PutLooked(y) \/ WriteGrant(y)
              \/ EndLooked(y) \/ End(y) \/ AfterSession(y) \/ AfterGrant(y) \/ AfterBoth(y)
              \/ EndDropped(y) \/ RefreshStops(y)
              \/ \E e \in Epoch : PutSwept(y, e)
              \/ \E at \in Instant : Refused(y, at) \/ \E s \in Token : Rotated(y, s, at)
       PROVE  RefreshFate(x)
  <2>1. \E r : RefreshGoes(y, r)
    BY <1>10 DEF RefreshStarts, KeepIfCurrent, Put, PutLooked, WriteGrant, EndLooked, End, AfterSession,
       AfterGrant, AfterBoth, EndDropped, RefreshStops, PutSwept, Refused, Rotated, RefreshStep
  <2> QED  BY <1>2, <1>10, <2>1
<1>11. ASSUME NEW p \in Page,
              \/ LogOut(p) \/ Revoked(p) \/ RevokeUnanswered(p) \/ Forget(p) \/ ForgetUnmarked(p)
              \/ DropLooked(p) \/ DropGrant(p) \/ ClickDone(p) \/ ClickStops(p)
              \/ Adopt(p) \/ AdoptGrant(p) \/ AdoptSession(p) \/ AdoptLooked(p)
              \/ \E e \in Epoch : ClickSwept(p, e)
              \/ \E k \in Code : Pair(p, k)
              \/ \E t \in Token, at \in Instant : Paired(p, t, at)
       PROVE  UNCHANGED refreshing
  BY <1>11 DEF LogOut, Revoked, RevokeUnanswered, Forget, ForgetUnmarked, DropLooked, DropGrant,
     ClickDone, ClickStops, Adopt, AdoptGrant, AdoptSession, AdoptLooked, ClickSwept, Pair, Paired
<1>12. CASE \E r \in adrift : \E s \in Token, at \in Instant : AdriftHandled(r, s, at)
  BY <1>12 DEF AdriftHandled, RefreshFate
<1>13. CASE BrowserCloses  BY <1>13 DEF BrowserCloses, RefreshFate
<1>14. CASE UNCHANGED refreshing  BY <1>14 DEF RefreshFate
<1> QED  BY <1>6, <1>7, <1>8, <1>9, <1>10, <1>11, <1>12, <1>13, <1>14 DEF Next, vars

LEMMA ClickFates ==
    ASSUME IInv, [Next]_vars, NEW p \in Page
    PROVE  ClickFate(p)
<1> DEFINE Fate(c) ==
        \/ c = Nothing
        \/ c.step # "sweep"
        \/ c.gone = RunsOver
        \/ Clicked(p, "sweep") /\ c.gone \subseteq clicks[p].gone
<1>1. ASSUME NEW c, ClickGoes(p, c), Fate(c) PROVE ClickFate(p)
  <2>1. clicks'[p] = c  BY <1>1, ClickSteps
  <2> QED  BY <1>1, <2>1 DEF ClickFate
<1>2. ASSUME NEW q \in Page, NEW c, ClickGoes(q, c), q # p PROVE ClickFate(p)
  BY <1>2, ClickSteps DEF ClickFate
<1>3. clicks[p] # Nothing => clicks[p] \in Click  BY ClickThere
<1> HIDE DEF Fate
<1>4. ASSUME NEW step \in {"put", "look", "forget", "drop"}, ClickStep(p, step), clicks[p] # Nothing
      PROVE  ClickFate(p)
  <2>1. PICK c : c = [clicks[p] EXCEPT !.step = step]  OBVIOUS
  <2>2. ClickGoes(p, c) /\ c.step = step  BY <1>3, <1>4, <2>1 DEF ClickStep, Click
  <2>3. Fate(c)  BY <2>2 DEF Fate
  <2> QED  BY <1>1, <2>2, <2>3
<1>5. CASE Revoked(p) \/ RevokeUnanswered(p) \/ Forget(p) \/ ForgetUnmarked(p)
           \/ AdoptGrant(p) \/ AdoptSession(p)
  <2>1. clicks[p] # Nothing /\ \E step \in {"put", "look", "forget", "drop"} : ClickStep(p, step)
    BY <1>5 DEF Revoked, RevokeUnanswered, Forget, ForgetUnmarked, AdoptGrant, AdoptSession, Clicked
  <2> QED  BY <1>4, <2>1
<1>6. CASE ClickDone(p) \/ ClickStops(p)
  <2>1. PICK c : c = Nothing  OBVIOUS
  <2>2. ClickGoes(p, c) /\ Fate(c)  BY <1>6, <2>1 DEF ClickDone, ClickStops, Fate
  <2> QED  BY <1>1, <2>2
<1>7. CASE LogOut(p) \/ \E k \in Code : Pair(p, k)
  <2>1. PICK c : /\ ClickGoes(p, c)
                 /\ \/ \E k \in Code : c = [step |-> "pair", code |-> k, at |-> 0, token |-> NoToken,
                                            gone |-> {}, dropped |-> FALSE]
                    \/ c = [step |-> IF held = NoToken THEN "forget" ELSE "revoke", code |-> Nothing,
                            at |-> 0, token |-> held, gone |-> {}, dropped |-> FALSE]
    BY <1>7 DEF LogOut, Pair
  <2>2. c.step \in {"pair", "forget", "revoke"}  BY <2>1
  <2>3. Fate(c)  BY <2>2 DEF Fate
  <2> QED  BY <1>1, <2>1, <2>3
<1>8. CASE DropLooked(p) \/ AdoptLooked(p) \/ DropGrant(p) \/ (\E e \in Epoch : ClickSwept(p, e))
           \/ Adopt(p) \/ \E t \in Token, at \in Instant : Paired(p, t, at)
  <2>1. clicks[p] \in Click
    BY <1>3, <1>8 DEF DropLooked, AdoptLooked, DropGrant, ClickSwept, Adopt, Paired, Clicked
  <2>2. PICK c : /\ ClickGoes(p, c)
                 /\ \/ c = [clicks[p] EXCEPT !.step = "dropping", !.gone = RunsHeld]
                    \/ c = [clicks[p] EXCEPT !.step = "sweep", !.gone = RunsOver]
                    \/ DropGrant(p) /\ c = [clicks[p] EXCEPT !.dropped = TRUE]
                    \/ c = [clicks[p] EXCEPT !.step = "grant", !.at = epoch + 1]
                    \/ \E t \in Token : c = [clicks[p] EXCEPT !.step = "adopt", !.token = t]
                    \/ \E e \in Epoch : ClickSwept(p, e) /\ c = [clicks[p] EXCEPT !.gone = @ \ {e}]
    BY <1>8 DEF DropLooked, AdoptLooked, DropGrant, ClickSwept, Adopt, Paired
  <2>3. Fate(c)
    <3>1. CASE c = [clicks[p] EXCEPT !.step = "sweep", !.gone = RunsOver]
      <4>1. c.gone = RunsOver  BY <2>1, <3>1 DEF Click
      <4> QED  BY <4>1 DEF Fate
    <3>2. CASE \E e \in Epoch : ClickSwept(p, e) /\ c = [clicks[p] EXCEPT !.gone = @ \ {e}]
      <4>1. c.step = clicks[p].step /\ c.gone \subseteq clicks[p].gone
        BY <2>1, <3>2 DEF Click
      <4> QED  BY <3>2, <4>1 DEF Fate, ClickSwept, Clicked
    <3>3. CASE \/ c = [clicks[p] EXCEPT !.step = "dropping", !.gone = RunsHeld]
               \/ DropGrant(p) /\ c = [clicks[p] EXCEPT !.dropped = TRUE]
               \/ c = [clicks[p] EXCEPT !.step = "grant", !.at = epoch + 1]
               \/ \E t \in Token : c = [clicks[p] EXCEPT !.step = "adopt", !.token = t]
      <4>1. c.step \in {"drop", "dropping", "grant", "adopt"}
        BY <2>1, <3>3 DEF Click, DropGrant, Clicked
      <4> QED  BY <4>1 DEF Fate
    <3> QED  BY <2>2, <3>1, <3>2, <3>3
  <2> QED  BY <1>1, <2>2, <2>3
<1>9. ASSUME NEW q \in Page, q # p,
             \/ LogOut(q) \/ Revoked(q) \/ RevokeUnanswered(q) \/ Forget(q) \/ ForgetUnmarked(q)
             \/ DropLooked(q) \/ DropGrant(q) \/ ClickDone(q) \/ ClickStops(q)
             \/ Adopt(q) \/ AdoptGrant(q) \/ AdoptSession(q) \/ AdoptLooked(q)
             \/ \E e \in Epoch : ClickSwept(q, e)
             \/ \E k \in Code : Pair(q, k)
             \/ \E t \in Token, at \in Instant : Paired(q, t, at)
      PROVE  ClickFate(p)
  <2>1. \E c : ClickGoes(q, c)
    BY <1>9 DEF LogOut, Revoked, RevokeUnanswered, Forget, ForgetUnmarked, DropLooked, DropGrant,
       ClickDone, ClickStops, Adopt, AdoptGrant, AdoptSession, AdoptLooked, ClickSwept, Pair, Paired,
       ClickStep
  <2> QED  BY <1>2, <1>9, <2>1
<1>10. ASSUME NEW x \in Context,
              \/ RefreshStarts(x) \/ KeepIfCurrent(x) \/ Put(x) \/ PutLooked(x) \/ WriteGrant(x)
              \/ EndLooked(x) \/ End(x) \/ AfterSession(x) \/ AfterGrant(x) \/ AfterBoth(x)
              \/ EndDropped(x) \/ RefreshStops(x)
              \/ \E e \in Epoch : PutSwept(x, e)
              \/ \E at \in Instant : Refused(x, at) \/ \E s \in Token : Rotated(x, s, at)
       PROVE  UNCHANGED clicks
  BY <1>10 DEF RefreshStarts, KeepIfCurrent, Put, PutLooked, WriteGrant, EndLooked, End, AfterSession,
     AfterGrant, AfterBoth, EndDropped, RefreshStops, PutSwept, Refused, Rotated
<1>11. CASE \E r \in adrift : \E s \in Token, at \in Instant : AdriftHandled(r, s, at)
  BY <1>11 DEF AdriftHandled, ClickFate
<1>12. CASE BrowserCloses  BY <1>12 DEF BrowserCloses, ClickFate
<1>13. CASE UNCHANGED clicks  BY <1>13 DEF ClickFate
<1> QED  BY <1>5, <1>6, <1>7, <1>8, <1>9, <1>10, <1>11, <1>12, <1>13 DEF Next, vars

LEMMA OverIsOver ==
    ASSUME IInv, NEW e \in RunsOver
    PROVE  e < epoch
<1>1. e \in Epoch /\ runs[e] # NoToken /\ e # epoch  BY DEF RunsOver
<1>2. e <= epoch  BY <1>1 DEF IInv, Runs, RunOK
<1>3. e \in Nat /\ epoch \in Nat  BY <1>1, BoundAssumption DEF IInv, TypeOK, Epoch
<1> QED  BY <1>1, <1>2, <1>3

LEMMA EpochGrows ==
    ASSUME IInv, [Next]_vars
    PROVE  epoch \in Nat /\ (epoch' = epoch \/ epoch' = epoch + 1)
<1>1. epoch \in Nat  BY BoundAssumption DEF IInv, TypeOK, Epoch
<1>2. epoch' = epoch \/ \E p \in Page : Adopt(p) \/ Forget(p)
  BY DEF Next, RefreshStarts, Rotated, Refused, KeepIfCurrent, Put, PutLooked, PutSwept, WriteGrant,
     EndLooked, End, AfterSession, AfterGrant, AfterBoth, EndDropped, RefreshStops, Pair, Paired,
     AdoptGrant, AdoptSession, AdoptLooked, LogOut, Revoked, RevokeUnanswered,
     ForgetUnmarked, DropLooked, DropGrant, ClickSwept, ClickDone, ClickStops, AdriftHandled,
     BrowserCloses, local, vars
<1> QED  BY <1>1, <1>2 DEF Adopt, Forget, NewEpoch

LEMMA LeavingInit == Init => Leaving
  BY DEF Init, Leaving, RefusedIsDead, SweptIsOver, Refreshing, Clicked

LEMMA LeavingStep == IInv /\ Leaving /\ [Next]_vars => Leaving'
<1> SUFFICES ASSUME IInv, Leaving, [Next]_vars PROVE Leaving'
  OBVIOUS
<1>1. UsesStore \/ UNCHANGED store  BY StepUsesStore
<1>2. epoch \in Nat /\ (epoch' = epoch \/ epoch' = epoch + 1)  BY EpochGrows
<1>3. \A n \in Nat : n < epoch => n < epoch'  BY <1>2
<1>4. Epoch \subseteq Nat  BY BoundAssumption DEF Epoch
<1>5. RefusedIsDead'
  <2> SUFFICES ASSUME NEW x \in Context, Refreshing(x, "refused")' \/ Refreshing(x, "end")'
               PROVE  \E at \in Instant : Dead(refreshing[x].spent, at)'
    BY DEF RefusedIsDead
  <2>1. ASSUME refreshing'[x].spent = refreshing[x].spent,
               Refreshing(x, "refused") \/ Refreshing(x, "end")
        PROVE  \E at \in Instant : Dead(refreshing[x].spent, at)'
    <3>1. PICK t : t = refreshing[x].spent /\ t = refreshing'[x].spent  BY <2>1
    <3>2. t \in Token /\ Row(t)  BY <2>1, <3>1, OfTheLast DEF Refreshing
    <3>3. PICK at \in Instant : Dead(t, at)  BY <2>1, <3>1 DEF Leaving, RefusedIsDead
    <3>4. Dead(t, at)'  BY <1>1, <3>2, <3>3, DeadStays
    <3> QED  BY <3>1, <3>4 DEF Dead, Root
  <2>2. ASSUME NEW at \in Instant, Refused(x, at)
        PROVE  \E on \in Instant : Dead(refreshing[x].spent, on)'
    BY <2>2, RefusedDies
  <2>3. RefreshFate(x)  BY RefreshFates
  <2> QED  BY <2>1, <2>2, <2>3 DEF RefreshFate, Refreshing
<1>6. ASSUME NEW x \in Context, Refreshing(x, "sweep")', NEW e \in refreshing'[x].gone
      PROVE  e < epoch'
  <2>1. RefreshFate(x)  BY RefreshFates
  <2>2. CASE e \in RunsOver
    BY <1>3, <1>4, <2>2, OverIsOver DEF RunsOver
  <2>3. CASE Refreshing(x, "sweep") /\ e \in refreshing[x].gone
    <3>1. e \in Nat  BY <1>4, <2>3, RefreshThere DEF Refreshing, Refresh
    <3> QED  BY <1>3, <2>3, <3>1 DEF Leaving, SweptIsOver
  <2> QED  BY <1>6, <2>1, <2>2, <2>3 DEF RefreshFate, Refreshing
<1>7. ASSUME NEW p \in Page, Clicked(p, "sweep")', NEW e \in clicks'[p].gone
      PROVE  e < epoch'
  <2>1. ClickFate(p)  BY ClickFates
  <2>2. CASE e \in RunsOver
    BY <1>3, <1>4, <2>2, OverIsOver DEF RunsOver
  <2>3. CASE Clicked(p, "sweep") /\ e \in clicks[p].gone
    <3>1. e \in Nat  BY <1>4, <2>3, ClickThere DEF Clicked, Click
    <3> QED  BY <1>3, <2>3, <3>1 DEF Leaving, SweptIsOver
  <2> QED  BY <1>7, <2>1, <2>2, <2>3 DEF ClickFate, Clicked
<1> QED  BY <1>5, <1>6, <1>7 DEF Leaving, SweptIsOver

\* OnlyTheDeadAreEnded: a session leaves storage by a log out, by a new pairing, or after the
\* worker ended its chain or its time was over; a refused refresh takes nothing else with it.
THEOREM OnlyTheDeadAreEndedAlways == Spec => OnlyTheDeadAreEnded
<1> DEFINE Excused == held # NoToken /\ held' = NoToken /\ epoch' = epoch
                => \/ \E p \in Page : Clicked(p, "dropping") /\ clicks'[p] # clicks[p]
                   \/ \E at \in Instant : Dead(held, at)
<1>1. ASSUME IInv, Leaving, [Next]_vars PROVE Excused
  <2> SUFFICES ASSUME held # NoToken, held' = NoToken, epoch' = epoch
               PROVE  \/ \E p \in Page : Clicked(p, "dropping") /\ clicks'[p] # clicks[p]
                      \/ \E at \in Instant : Dead(held, at)
    OBVIOUS
  <2>1. runs \in [Epoch -> Tokens] /\ epoch \in Epoch /\ runs'[epoch] = NoToken /\ runs[epoch] # NoToken
    BY <1>1 DEF IInv, TypeOK, held
  <2>2. Epoch \subseteq Nat  BY BoundAssumption DEF Epoch
  <2>3. ASSUME NEW e \in Epoch, NEW t \in Token, runs' = [runs EXCEPT ![e] = t] PROVE FALSE
    BY <2>1, <2>3, NullAssumption
  <2>4. ASSUME NEW e \in Epoch, e < epoch, runs' = [runs EXCEPT ![e] = NoToken] PROVE FALSE
    BY <2>1, <2>2, <2>4
  <2>5. ASSUME NEW x \in Context, Put(x) PROVE FALSE
    <3>1. PICK e, t : e = refreshing[x].at /\ t = refreshing[x].token  OBVIOUS
    <3>2. e \in Epoch /\ t \in Token
      BY <1>1, <2>5, <3>1, OfTheLast, RefreshThere DEF Put, Carrying, Refreshing, Refresh
    <3> QED  BY <2>3, <2>5, <3>1, <3>2 DEF Put
  <2>6. ASSUME NEW p \in Page, AdoptSession(p) PROVE FALSE
    <3>1. PICK e, t : e = clicks[p].at /\ t = clicks[p].token  OBVIOUS
    <3>2. e \in Epoch /\ t \in Token
      BY <1>1, <2>6, <3>1, OfTheLast, ClickThere DEF AdoptSession, Adopting, Clicked, Click
    <3> QED  BY <2>3, <2>6, <3>1, <3>2 DEF AdoptSession
  <2>7. ASSUME NEW x \in Context, NEW e \in Epoch, PutSwept(x, e) PROVE FALSE
    BY <1>1, <2>4, <2>7 DEF PutSwept, Leaving, SweptIsOver
  <2>8. ASSUME NEW p \in Page, NEW e \in Epoch, ClickSwept(p, e)
        PROVE  Clicked(p, "dropping") /\ clicks'[p] # clicks[p]
    <3>1. ~Clicked(p, "sweep")
      BY <1>1, <2>4, <2>8 DEF ClickSwept, Leaving, SweptIsOver
    <3>2. Clicked(p, "dropping") /\ e \in clicks[p].gone  BY <2>8, <3>1 DEF ClickSwept
    <3>3. PICK c : c = [clicks[p] EXCEPT !.gone = @ \ {e}]  OBVIOUS
    <3>4. ClickGoes(p, c)  BY <2>8, <3>3 DEF ClickSwept
    <3>5. clicks[p] \in Click  BY <1>1, <3>2, ClickThere DEF Clicked
    <3>6. e \notin c.gone  BY <3>3, <3>5 DEF Click
    <3>7. clicks'[p] = c  BY <1>1, <3>4, ClickSteps
    <3> QED  BY <3>2, <3>6, <3>7
  <2>9. ASSUME NEW x \in Context, End(x) PROVE \E at \in Instant : Dead(held, at)
    <3>1. PICK t, e : t = refreshing[x].spent /\ e = refreshing[x].at  OBVIOUS
    <3>2. t \in Token /\ Row(t) /\ e \in Epoch /\ (e = epoch => Root(t) = last)
      BY <1>1, <2>9, <3>1, RefreshThere DEF End, Refreshing, Refresh, RefreshOK
    <3>3. e = epoch  BY <2>1, <2>9, <3>1, <3>2 DEF End
    <3>4. PICK u : u = held  OBVIOUS
    <3>5. u \in Token /\ Row(u) /\ Root(u) = Root(t)  BY <1>1, <3>2, <3>3, <3>4, OfTheLast
    <3>6. PICK at \in Instant : Dead(t, at)
      BY <1>1, <2>9, <3>1 DEF Leaving, RefusedIsDead, End
    <3>7. sessions[u].expires = sessions[t].expires
      BY <1>1, <3>2, <3>5 DEF IInv, P!IInv, P!ChainsAgree, Row, Root
    <3>8. Dead(u, at)  BY <3>5, <3>6, <3>7 DEF Dead
    <3> QED  BY <3>4, <3>8
  <2>10. runs' # runs  BY <2>1
  <2>11. \/ \E x \in Context : Put(x) \/ End(x) \/ \E e \in Epoch : PutSwept(x, e)
         \/ \E p \in Page : AdoptSession(p) \/ \E e \in Epoch : ClickSwept(p, e)
    BY <1>1, <2>10 DEF Next, RefreshStarts, Rotated, Refused, KeepIfCurrent, PutLooked, WriteGrant,
     EndLooked, AfterSession, AfterGrant, AfterBoth, EndDropped, RefreshStops, Pair, Paired,
     Adopt, AdoptGrant, AdoptLooked, LogOut, Revoked, RevokeUnanswered, Forget,
     ForgetUnmarked, DropLooked, DropGrant, ClickDone, ClickStops, AdriftHandled,
     BrowserCloses, NewEpoch, local, vars
  <2> QED  BY <2>5, <2>6, <2>7, <2>8, <2>9, <2>11
<1>2. IInv /\ Leaving /\ [Next]_vars => [Excused]_vars
  BY <1>1
<1> HIDE DEF Excused
<1>3. Spec => [][Excused]_vars
  BY <1>2, LeavingInit, LeavingStep, Inductive, PTL DEF Spec
<1> QED  BY <1>3 DEF Excused, OnlyTheDeadAreEnded
=============================================================================
