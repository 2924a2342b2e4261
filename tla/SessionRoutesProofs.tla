------------------------- MODULE SessionRoutesProofs -------------------------
(***************************************************************************)
(* The routes use the store, and do nothing else to it: every behaviour of  *)
(* SessionRoutes is one of SessionPromise.  What is proved of the store in  *)
(* SessionPromiseProofs then holds of the worker that serves requests.      *)
(***************************************************************************)
EXTENDS SessionRoutes, TLAPS

\* A request that opens or refreshes a session gives the store a digest and an
\* instant that it takes; a request on the access of somebody gives it a scope.
NamesSession(request) ==
    /\ DOMAIN request = {"step", "person", "token", "code", "at"}
    /\ request.step \in {"mint", "redeem", "check", "revoke"}
    /\ request.step = "mint" => request.person \in Person
    /\ request.step \in {"mint", "redeem"} => request.code \in Code /\ request.at \in Instant
    /\ request.step \in {"check", "revoke"} => request.token \in Token

NamesScope(request) ==
    /\ DOMAIN request = {"step", "does", "who", "chains", "found"}
    /\ request.step \in {"first", "write", "second"}
    /\ request.who \in Scope

Named(request) == NamesSession(request) \/ NamesScope(request)

RequestsAreNamed ==
    /\ requests \in [Caller -> {requests[c] : c \in Caller}]
    /\ \A c \in Caller : requests[c] # Nothing => Named(requests[c])

\* A request that is served anew, or is over, leaves the others as they were.
LEMMA ServeNamed ==
    ASSUME NEW c \in Caller, NEW request, RequestsAreNamed, Serve(c, request),
           request = Nothing \/ Named(request)
    PROVE  RequestsAreNamed'
<1>1. \A d \in Caller : requests'[d] = IF d = c THEN request ELSE requests[d]
  BY DEF Serve, RequestsAreNamed
<1>2. requests' \in [Caller -> {requests'[d] : d \in Caller}]
  BY DEF Serve, RequestsAreNamed
<1> QED BY <1>1, <1>2 DEF RequestsAreNamed

\* A request goes on to its next step with the names it had.
LEMMA StepNamed ==
    ASSUME NEW c \in Caller, NEW step, RequestsAreNamed, Step(c, step),
           requests[c] # Nothing,
           \/ requests[c].step = "check" /\ step = "revoke"
           \/ requests[c].step \in {"first", "write"} /\ step \in {"write", "second"}
    PROVE  RequestsAreNamed'
<1> DEFINE request == [requests[c] EXCEPT !.step = step]
<1>1. Named(requests[c])
  BY DEF RequestsAreNamed
<1>2. Named(request)
  <2>1. CASE NamesSession(requests[c])
    BY <2>1 DEF Named, NamesSession
  <2>2. CASE NamesScope(requests[c])
    BY <2>2 DEF Named, NamesScope
  <2> QED BY <1>1, <2>1, <2>2 DEF Named
<1> HIDE DEF request
<1> QED BY <1>2, ServeNamed DEF Step, request

\* The worker starts with an empty store, and serves nothing.
LEMMA RoutesInit == Init => Store!Init /\ RequestsAreNamed
  BY DEF Init, RequestsAreNamed

-----------------------------------------------------------------------------
StoreStep == Store!Next \/ UNCHANGED storeVars

Goal == StoreStep /\ RequestsAreNamed'

\* Minting a code and redeeming it.
LEMMA PairingRoutes ==
    ASSUME RequestsAreNamed, NEW c \in Caller,
           \/ \E k \in Code, p \in Person, at \in Instant : MintAllowed(c, k, p, at)
           \/ \E n \in Name : Mint(c, n)
           \/ \E k \in Code, at \in Instant : Pair(c, k, at)
           \/ \E t \in Token : Redeem(c, t)
           \/ RedeemRefused(c)
    PROVE  Goal
<1>1. ASSUME NEW k \in Code, NEW p \in Person, NEW at \in Instant, MintAllowed(c, k, p, at)
      PROVE  Goal
  <2> DEFINE request == [step |-> "mint", person |-> p, token |-> NoToken, code |-> k, at |-> at]
  <2>1. Named(request)
    BY DEF Named, NamesSession
  <2> HIDE DEF request
  <2> QED BY <1>1, <2>1, ServeNamed DEF MintAllowed, Goal, StoreStep, request
<1>2. ASSUME NEW n \in Name, Mint(c, n)
      PROVE  Goal
  <2>1. NamesSession(requests[c]) /\ requests[c].step = "mint"
    BY <1>2 DEF Mint, At, RequestsAreNamed, Named, NamesScope
  <2>2. Store!Next
    BY <1>2, <2>1 DEF Mint, NamesSession, Store!Next
  <2> QED BY <1>2, <2>2, ServeNamed DEF Mint, Goal, StoreStep
<1>3. ASSUME NEW k \in Code, NEW at \in Instant, Pair(c, k, at)
      PROVE  Goal
  <2> DEFINE request == [step |-> "redeem", person |-> pairings[k].subject,
                         token |-> NoToken, code |-> k, at |-> at]
  <2>1. Named(request)
    BY DEF Named, NamesSession
  <2> HIDE DEF request
  <2>2. Store!Next
    BY <1>3 DEF Pair, Store!Next
  <2> QED BY <1>3, <2>1, <2>2, ServeNamed DEF Pair, Goal, StoreStep, request
<1>4. ASSUME NEW t \in Token, Redeem(c, t)
      PROVE  Goal
  <2> DEFINE request == [requests[c] EXCEPT !.step = "check", !.token = t]
  <2>1. NamesSession(requests[c]) /\ requests[c].step = "redeem"
    BY <1>4 DEF Redeem, At, RequestsAreNamed, Named, NamesScope
  <2>2. Named(request)
    BY <2>1 DEF Named, NamesSession
  <2> HIDE DEF request
  <2>3. Store!Next
    BY <1>4, <2>1 DEF Redeem, NamesSession, Store!Next
  <2> QED BY <1>4, <2>2, <2>3, ServeNamed DEF Redeem, Goal, StoreStep, request
<1>5. ASSUME RedeemRefused(c)
      PROVE  Goal
  BY <1>5, ServeNamed DEF RedeemRefused, Goal, StoreStep
<1> QED BY <1>1, <1>2, <1>3, <1>4, <1>5

\* Refreshing a session, and the check that follows.
LEMMA RefreshRoutes ==
    ASSUME RequestsAreNamed, NEW c \in Caller,
           \/ \E t, s \in Token, at \in Instant : Refresh(c, t, s, at)
           \/ StillOfTheWorkspace(c) \/ NotOfTheWorkspace(c) \/ RevokeOpened(c)
    PROVE  Goal
<1>1. ASSUME NEW t \in Token, NEW s \in Token, NEW at \in Instant, Refresh(c, t, s, at)
      PROVE  Goal
  <2>1. PICK k \in Code :
          Serve(c, [step |-> "check", person |-> sessions[t].subject, token |-> s,
                    code |-> k, at |-> at])
    BY <1>1 DEF Refresh
  <2> DEFINE request == [step |-> "check", person |-> sessions[t].subject, token |-> s,
                         code |-> k, at |-> at]
  <2>2. Named(request)
    BY DEF Named, NamesSession
  <2>3. Serve(c, request)
    BY <2>1
  <2> HIDE DEF request
  <2>4. Store!Next
    BY <1>1 DEF Refresh, Store!Next
  <2> QED BY <2>2, <2>3, <2>4, ServeNamed DEF Goal, StoreStep
<1>2. ASSUME StillOfTheWorkspace(c)
      PROVE  Goal
  BY <1>2, ServeNamed DEF StillOfTheWorkspace, Goal, StoreStep
<1>3. ASSUME NotOfTheWorkspace(c)
      PROVE  Goal
  BY <1>3, StepNamed DEF NotOfTheWorkspace, At, Goal, StoreStep
<1>4. ASSUME RevokeOpened(c)
      PROVE  Goal
  <2>1. requests[c].token \in Token
    BY <1>4 DEF RevokeOpened, At, RequestsAreNamed, Named, NamesSession, NamesScope
  <2>2. StoreStep
    BY <1>4, <2>1 DEF RevokeOpened, StoreStep, Store!Next
  <2> QED BY <1>4, <2>2, ServeNamed DEF RevokeOpened, Goal
<1> QED BY <1>1, <1>2, <1>3, <1>4

\* A removal, a suspension and a restoration, until their write.
LEMMA AccessAsked ==
    ASSUME RequestsAreNamed, NEW c \in Caller, NEW who \in Scope,
           \/ Remove(c, who) \/ Leave(c, who) \/ Suspend(c, who)
           \/ Restore(c, who) \/ RestoreUnsuspended(c, who)
    PROVE  Goal
<1>1. ASSUME NEW does, NEW step \in {"first", "write"}, NEW found,
             Asking(c, does, who, step, found)
      PROVE  RequestsAreNamed'
  <2> DEFINE request == [step |-> step, does |-> does, who |-> who,
                         chains |-> ChainsOf(who), found |-> found]
  <2>1. Named(request)
    BY DEF Named, NamesScope
  <2> HIDE DEF request
  <2> QED BY <1>1, <2>1, ServeNamed DEF Asking, request
<1>2. CASE Remove(c, who)
  BY <1>1, <1>2 DEF Remove, Goal, StoreStep, Store!Next
<1>3. CASE Leave(c, who) \/ Suspend(c, who)
  BY <1>1, <1>3 DEF Leave, Suspend, Goal, StoreStep
<1>4. CASE Restore(c, who)
  BY <1>1, <1>4 DEF Restore, Goal, StoreStep, Store!Next
<1>5. CASE RestoreUnsuspended(c, who)
  BY <1>1, <1>5 DEF RestoreUnsuspended, Goal, StoreStep
<1> QED BY <1>2, <1>3, <1>4, <1>5

\* The two passes over the sessions, and the write between them.
LEMMA AccessDone ==
    ASSUME RequestsAreNamed, NEW c \in Caller,
           \/ FirstPass(c) \/ FirstPassFailed(c)
           \/ WriteRemoval(c) \/ WriteSuspension(c) \/ WriteBack(c) \/ WriteRefused(c)
           \/ SecondPassCalled(c) \/ SecondPass(c) \/ SecondPassFailed(c)
           \/ Stopped(c)
    PROVE  Goal
<1>1. CASE FirstPass(c)
  BY <1>1, StepNamed DEF FirstPass, At, Goal, StoreStep, Store!Next
<1>2. CASE FirstPassFailed(c) \/ SecondPass(c) \/ SecondPassFailed(c)
  BY <1>2, ServeNamed
     DEF FirstPassFailed, SecondPass, SecondPassFailed, Goal, StoreStep, Store!Next
<1>3. CASE WriteRemoval(c) \/ WriteSuspension(c)
  BY <1>3, StepNamed DEF WriteRemoval, WriteSuspension, At, Goal, StoreStep
<1>4. CASE WriteBack(c) \/ WriteRefused(c)
  BY <1>4, ServeNamed DEF WriteBack, WriteRefused, Goal, StoreStep
<1>5. CASE SecondPassCalled(c)
  <2>1. requests[c].who \in Scope
    BY <1>5 DEF SecondPassCalled, At, RequestsAreNamed, Named, NamesSession, NamesScope
  <2>2. Store!Next
    BY <1>5, <2>1 DEF SecondPassCalled, Store!Next
  <2> QED BY <1>5, <2>2 DEF SecondPassCalled, Goal, StoreStep, RequestsAreNamed
<1>6. CASE Stopped(c)
  BY <1>6, ServeNamed DEF Stopped, Goal, StoreStep, Store!Next
<1> QED BY <1>1, <1>2, <1>3, <1>4, <1>5, <1>6

\* Every step of the routes is a step of the store, or does not touch it.
LEMMA RoutesStep ==
    ASSUME RequestsAreNamed, [Next]_vars
    PROVE  Goal
<1>1. ASSUME NEW p \in Person, Join(p)
      PROVE  Goal
  BY <1>1 DEF Join, Goal, StoreStep, RequestsAreNamed
<1>2. ASSUME UNCHANGED vars
      PROVE  Goal
  BY <1>2 DEF vars, storeVars, Goal, StoreStep, RequestsAreNamed
<1>3. ASSUME NEW t \in Token, \/ LogOut(t)
                              \/ \E at \in Instant : RefreshRefused(t, at)
      PROVE  Goal
  <2>1. CASE LogOut(t)
    BY <2>1 DEF LogOut, Goal, StoreStep, RequestsAreNamed, Store!Next
  <2>2. ASSUME NEW at \in Instant, RefreshRefused(t, at) PROVE Goal
    BY <2>2 DEF RefreshRefused, Goal, StoreStep, RequestsAreNamed, Store!Next
  <2> QED BY <1>3, <2>1, <2>2
<1> HIDE DEF Goal
<1> QED BY <1>1, <1>2, <1>3, PairingRoutes, RefreshRoutes, AccessAsked, AccessDone DEF Next

\* The worker that serves requests uses the store as its interface says.
THEOREM RoutesUseTheStore == Spec => Store!Spec
<1>1. StoreStep => [Store!Next]_(Store!vars)
  BY DEF StoreStep, storeVars, Store!vars
<1> QED BY <1>1, RoutesInit, RoutesStep, PTL DEF Spec, Store!Spec, Goal

-----------------------------------------------------------------------------
(* Who keeps a session: what the store promises, and what the requests have.  *)

S == INSTANCE SessionPromiseProofs

\* What the proofs of the store assume of its constants.
LEMMA StoreAssumptions ==
    /\ S!ScopeAssumption /\ S!TimeAssumption /\ S!NoTokenAssumption
    /\ S!NoRowAssumption /\ S!NothingAssumption
BY ScopeAssumption, TimeAssumption, NullAssumption
DEF S!ScopeAssumption, S!TimeAssumption, S!NoTokenAssumption, S!NoRowAssumption, S!NothingAssumption,
    S!SessionRow, Store!SessionRow, S!PairingRow, Store!PairingRow, S!EndCall, Store!EndCall,
    S!RenameCall, Store!RenameCall

\* The store of the routes is the one its proofs are about.
LEMMA SameStore ==
    /\ Store!Init <=> S!Init
    /\ Store!TypeOK <=> S!TypeOK
    /\ Store!Next <=> S!Next
<1>1. /\ Store!Init <=> S!Init
      /\ Store!TypeOK <=> S!TypeOK
  BY DEF Store!Init, S!Init, Store!TypeOK, S!TypeOK, S!SessionRow, Store!SessionRow, S!PairingRow,
         Store!PairingRow, S!EndCall, Store!EndCall, S!RenameCall, Store!RenameCall
<1>2. /\ \A k, p, n, at : Store!CreatePairing(k, p, n, at) = S!CreatePairing(k, p, n, at)
      /\ \A k, t, at : Store!RedeemPairing(k, t, at) = S!RedeemPairing(k, t, at)
      /\ \A at : Store!Purge(at) = S!Purge(at)
  BY DEF Store!CreatePairing, S!CreatePairing, Store!asked, S!asked, Store!RedeemPairing, S!RedeemPairing,
         Store!Spending, S!Spending, Store!NotRotated, S!NotRotated, Store!Purge, S!Purge
<1>3. \A t, s, at : Store!RotateFirst(t, s, at) = S!RotateFirst(t, s, at)
  BY DEF Store!RotateFirst, S!RotateFirst, Store!asked, S!asked, Store!Live, S!Live,
         Store!Successor, S!Successor, Store!NotRotated, S!NotRotated
<1>4. \A t, s, at : Store!RotateAgain(t, s, at) = S!RotateAgain(t, s, at)
  BY DEF Store!RotateAgain, S!RotateAgain, Store!asked, S!asked, Store!Live, S!Live,
         Store!Successor, S!Successor, Store!NotRotated, S!NotRotated, Store!Chain, S!Chain
<1>5. \A t, at : Store!RotateLate(t, at) = S!RotateLate(t, at)
  BY DEF Store!RotateLate, S!RotateLate, Store!asked, S!asked, Store!Live, S!Live, Store!Chain,
         S!Chain, Store!NotRotated, S!NotRotated, Store!Revoking, S!Revoking
<1>6. \A t, at : Store!RotateReplay(t, at) = S!RotateReplay(t, at)
  BY DEF Store!RotateReplay, S!RotateReplay, Store!asked, S!asked, Store!Live, S!Live,
         Store!Chain, S!Chain, Store!Revoking, S!Revoking
<1>7. \A t : Store!RevokeSession(t) = S!RevokeSession(t)
  BY DEF Store!RevokeSession, S!RevokeSession, Store!asked, S!asked, Store!Chain, S!Chain,
         Store!Revoking, S!Revoking
<1>8. /\ \A c, who : Store!EndSessionsCalled(c, who) = S!EndSessionsCalled(c, who)
      /\ \A c : Store!EndSessionsFailed(c) = S!EndSessionsFailed(c)
  BY DEF Store!EndSessionsCalled, S!EndSessionsCalled, Store!ChainsOf, S!ChainsOf, Store!SessionsOf,
         S!SessionsOf, Store!CodesOf, S!CodesOf, Store!tables, S!tables, Store!EndSessionsFailed,
         S!EndSessionsFailed
<1>9. \A c : Store!EndSessionsOf(c) = S!EndSessionsOf(c)
  BY DEF Store!EndSessionsOf, S!EndSessionsOf, Store!SessionsOf, S!SessionsOf, Store!CodesOf, S!CodesOf,
         Store!Revoking, S!Revoking, Store!Spending, S!Spending
<1>10. /\ \A c, who, n, at : Store!RenameSessionsCalled(c, who, n, at) = S!RenameSessionsCalled(c, who, n, at)
       /\ \A c : Store!RenameSessionsFailed(c) = S!RenameSessionsFailed(c)
  BY DEF Store!RenameSessionsCalled, S!RenameSessionsCalled, Store!ChainsOf, S!ChainsOf, Store!SessionsOf,
         S!SessionsOf, Store!CodesOf, S!CodesOf, Store!tables, S!tables, Store!RenameSessionsFailed,
         S!RenameSessionsFailed
<1>11. \A c : Store!RenameSessionsOf(c) = S!RenameSessionsOf(c)
  BY DEF Store!RenameSessionsOf, S!RenameSessionsOf, Store!Renamable, S!Renamable, Store!Waiting, S!Waiting,
         Store!Found, S!Found, Store!SessionsOf, S!SessionsOf, Store!CodesOf, S!CodesOf
<1>12. Store!Next <=> S!Next
  BY <1>2, <1>3, <1>4, <1>5, <1>6, <1>7, <1>8, <1>9, <1>10, <1>11 DEF Store!Next, S!Next
<1> QED  BY <1>1, <1>12

CodesAreIssued == \A k \in Code : pairings[k] # NoRow => k \in issued

\* A row that was there keeps its chain and its person, and does not come back to life.
RowsStay ==
    \A t \in Token : t \in issued /\ sessions'[t] # NoRow =>
        /\ sessions[t] # NoRow
        /\ sessions'[t].root = sessions[t].root /\ sessions'[t].subject = sessions[t].subject
        /\ sessions[t].revoked => sessions'[t].revoked

\* A code that was there keeps its person, and a code that went does not come back.
CodesStay ==
    \A k \in Code : k \in issued /\ pairings'[k] # NoRow =>
        pairings[k] # NoRow /\ pairings'[k].subject = pairings[k].subject

LEMMA SpentCodes ==
    ASSUME S!TypeOK, NEW gone \in SUBSET {k \in Code : pairings[k] # NoRow}, pairings' = S!Spending(gone)
    PROVE  \A k \in Code : /\ pairings'[k] # NoRow => pairings[k] # NoRow
                           /\ pairings'[k] # NoRow => pairings'[k].subject = pairings[k].subject
BY DEF S!TypeOK, S!Spending, S!PairingRow

\* What a step of the store does to the codes.
LEMMA StoreKeepsCodes ==
    ASSUME S!TypeOK, CodesAreIssued, S!Next
    PROVE  issued \subseteq issued' /\ CodesStay /\ CodesAreIssued'
<1>1. CASE pairings' = pairings /\ issued \subseteq issued'
  BY <1>1 DEF CodesStay, CodesAreIssued
<1>2. ASSUME NEW gone \in SUBSET {k \in Code : pairings[k] # NoRow}, pairings' = S!Spending(gone),
             issued \subseteq issued'
      PROVE  CodesStay /\ CodesAreIssued'
  BY <1>2, SpentCodes DEF CodesStay, CodesAreIssued
<1>3. ASSUME NEW k \in Code, NEW p \in Person, NEW n \in Name, NEW at \in Instant,
             S!CreatePairing(k, p, n, at)
      PROVE  issued \subseteq issued' /\ CodesStay /\ CodesAreIssued'
  BY <1>3 DEF S!CreatePairing, CodesStay, CodesAreIssued, S!TypeOK
<1>4. ASSUME NEW k \in Code, NEW t \in Token, NEW at \in Instant, S!RedeemPairing(k, t, at)
      PROVE  issued \subseteq issued' /\ CodesStay /\ CodesAreIssued'
  BY <1>2, <1>4 DEF S!RedeemPairing
<1>5. ASSUME \/ \E t, s \in Token, at \in Instant : S!RotateFirst(t, s, at) \/ S!RotateAgain(t, s, at)
             \/ \E t \in Token, at \in Instant : S!RotateLate(t, at) \/ S!RotateReplay(t, at)
             \/ \E t \in Token : S!RevokeSession(t)
      PROVE  issued \subseteq issued' /\ CodesStay /\ CodesAreIssued'
  BY <1>1, <1>5 DEF S!RotateFirst, S!RotateAgain, S!RotateLate, S!RotateReplay, S!RevokeSession
<1>6. ASSUME NEW c \in Caller,
             \/ \E who \in Scope : S!EndSessionsCalled(c, who)
             \/ \E who \in Scope, n \in Name, at \in Instant : S!RenameSessionsCalled(c, who, n, at)
             \/ S!EndSessionsFailed(c) \/ S!RenameSessionsFailed(c)
      PROVE  issued \subseteq issued' /\ CodesStay /\ CodesAreIssued'
  BY <1>1, <1>6 DEF S!EndSessionsCalled, S!RenameSessionsCalled, S!EndSessionsFailed,
                    S!RenameSessionsFailed, S!tables
<1>7. ASSUME NEW c \in Caller, S!EndSessionsOf(c)
      PROVE  issued \subseteq issued' /\ CodesStay /\ CodesAreIssued'
  BY <1>2, <1>7 DEF S!EndSessionsOf, S!CodesOf
<1>8. ASSUME NEW c \in Caller, S!RenameSessionsOf(c)
      PROVE  issued \subseteq issued' /\ CodesStay /\ CodesAreIssued'
  <2>1. PICK written \in SUBSET S!Waiting(renaming[c]) :
            pairings' = [k \in Code |-> IF k \in written THEN [pairings[k] EXCEPT !.name = renaming[c].name]
                                                         ELSE pairings[k]]
    BY <1>8 DEF S!RenameSessionsOf
  <2>2. issued' = issued  BY <1>8 DEF S!RenameSessionsOf
  <2>3. PICK name : name = renaming[c].name  OBVIOUS
  <2>4. ASSUME NEW k \in Code, pairings'[k] # NoRow
        PROVE  pairings[k] # NoRow /\ pairings'[k].subject = pairings[k].subject
    <3>1. CASE k \in written
      <4>1. pairings[k] \in S!PairingRow /\ pairings[k] # NoRow
        BY <3>1 DEF S!Waiting, S!CodesOf, S!TypeOK
      <4>2. pairings'[k] = [pairings[k] EXCEPT !.name = name]  BY <2>1, <2>3, <3>1
      <4> QED  BY <4>1, <4>2 DEF S!PairingRow
    <3>2. CASE k \notin written  BY <2>1, <2>4, <3>2
    <3> QED  BY <3>1, <3>2
  <2> QED  BY <2>2, <2>4 DEF CodesStay, CodesAreIssued
<1>9. ASSUME NEW at \in Instant, S!Purge(at)
      PROVE  issued \subseteq issued' /\ CodesStay /\ CodesAreIssued'
  BY <1>9 DEF S!Purge, CodesStay, CodesAreIssued
<1> QED  BY <1>3, <1>4, <1>5, <1>6, <1>7, <1>8, <1>9 DEF S!Next

\* What a step of the store does to the rows.
LEMMA StoreKeeps ==
    ASSUME S!IInv, CodesAreIssued, StoreStep
    PROVE  /\ S!IInv' /\ CodesAreIssued'
           /\ issued \subseteq issued' /\ RowsStay /\ CodesStay
<1>1. CASE UNCHANGED storeVars
  <2>1. UNCHANGED S!vars  BY <1>1 DEF storeVars, S!vars
  <2>2. S!IInv'  BY <2>1, S!IInvStep, StoreAssumptions
  <2> QED  BY <1>1, <2>2 DEF storeVars, RowsStay, CodesStay, CodesAreIssued
<1>2. CASE Store!Next
  <2>1. S!Next  BY <1>2, SameStore
  <2>2. S!IInv'  BY <2>1, S!IInvStep, StoreAssumptions
  <2>3. issued \subseteq issued' /\ CodesStay /\ CodesAreIssued'
    BY <2>1, StoreKeepsCodes DEF S!IInv
  <2>4. \/ S!KeepsAll
        \/ \E s \in Token : S!Draws(s)
    BY <2>1, S!StepDraws, StoreAssumptions
  <2>5. \A t \in Token : t \in issued => S!Keeps(t)
    BY <2>4 DEF S!KeepsAll, S!Draws
  <2> QED  BY <2>2, <2>3, <2>5 DEF RowsStay, S!Keeps
<1> QED  BY <1>1, <1>2 DEF StoreStep

-----------------------------------------------------------------------------
(* Who keeps a session: the requests.                                        *)

Request == SessionRequest \cup AccessRequest

\* The calls of the store are those of the requests, and a request names what it read.
CallsAgree ==
    \A c \in Caller :
        /\ At(c, "redeem") =>
              /\ requests[c].code \in issued
              /\ (pairings[requests[c].code] # NoRow =>
                    pairings[requests[c].code].subject = requests[c].person)
        /\ At(c, "write") => ending[c] = Nothing
        /\ ending[c] # Nothing =>
              (At(c, "first") \/ At(c, "second")) /\ ending[c].who = requests[c].who

\* This request will end the session of the token, or has found that its person may have it.
Covers(c, p, t) ==
    \/ /\ (At(c, "check") \/ At(c, "revoke"))
       /\ requests[c].token = t /\ requests[c].person = p
    \/ /\ At(c, "second") /\ p \in requests[c].who
       /\ (ending[c] = Nothing \/ sessions[t].root \in ending[c].chains)

LiveOf(p, t) == sessions[t] # NoRow /\ ~sessions[t].revoked /\ sessions[t].subject = p

Guarded ==
    ~failed => \A p \in Person \ active : \A t \in Token :
        LiveOf(p, t) => \E c \in Caller : Covers(c, p, t)

IInv == S!IInv /\ CodesAreIssued /\ RequestsAreNamed /\ TypeOK /\ CallsAgree /\ Guarded


\* Only the request of this caller moves.
Moves(c, request) ==
    /\ requests' \in [Caller -> Request \cup {Nothing}]
    /\ requests'[c] = request
    /\ \A d \in Caller \ {c} : requests'[d] = requests[d]

LEMMA ServeMoves ==
    ASSUME TypeOK, NEW c \in Caller, NEW request \in Request \cup {Nothing}, Serve(c, request)
    PROVE  Moves(c, request)
BY DEF TypeOK, Serve, Moves, Request

\* The kinds of a request, by its step.
LEMMA Kinds ==
    ASSUME TypeOK, NEW c \in Caller, requests[c] # Nothing
    PROVE  /\ requests[c].step \in {"mint", "redeem", "check", "revoke"} => requests[c] \in SessionRequest
           /\ requests[c].step \in {"first", "write", "second"} => requests[c] \in AccessRequest
           /\ requests[c] \in Request
BY DEF TypeOK, Request, SessionRequest, AccessRequest

LEMMA StepMoves ==
    ASSUME TypeOK, NEW c \in Caller, NEW step, requests[c] # Nothing, Step(c, step),
           \/ requests[c].step = "check" /\ step = "revoke"
           \/ requests[c].step \in {"first", "write"} /\ step \in {"write", "second"}
    PROVE  \E request \in Request :
              /\ Moves(c, request) /\ request.step = step
              /\ \/ /\ step = "revoke" /\ request \in SessionRequest
                    /\ request.token = requests[c].token /\ request.person = requests[c].person
                 \/ /\ step \in {"write", "second"} /\ request \in AccessRequest
                    /\ request.who = requests[c].who
<1>1. PICK request : request = [requests[c] EXCEPT !.step = step]  OBVIOUS
<1>2. Serve(c, request)  BY <1>1 DEF Step
<1>3. CASE requests[c].step = "check" /\ step = "revoke"
  <2>1. requests[c] \in SessionRequest  BY <1>3, Kinds
  <2>2. request \in SessionRequest /\ request.step = "revoke"
        /\ request.token = requests[c].token /\ request.person = requests[c].person
    BY <1>1, <1>3, <2>1 DEF SessionRequest
  <2>3. request \in Request  BY <2>2 DEF Request
  <2> QED  BY <1>2, <1>3, <2>2, <2>3, ServeMoves
<1>4. CASE requests[c].step \in {"first", "write"} /\ step \in {"write", "second"}
  <2>1. requests[c] \in AccessRequest  BY <1>4, Kinds
  <2>2. request \in AccessRequest /\ request.step = step /\ request.who = requests[c].who
    BY <1>1, <1>4, <2>1 DEF AccessRequest
  <2>3. request \in Request  BY <2>2 DEF Request
  <2> QED  BY <1>2, <1>4, <2>2, <2>3, ServeMoves
<1> QED  BY <1>3, <1>4

\* What one step of one caller has to show.
Agrees(c) ==
    /\ At(c, "redeem") =>
          /\ requests[c].code \in issued
          /\ (pairings[requests[c].code] # NoRow =>
                pairings[requests[c].code].subject = requests[c].person)
    /\ At(c, "write") => ending[c] = Nothing
    /\ ending[c] # Nothing =>
          (At(c, "first") \/ At(c, "second")) /\ ending[c].who = requests[c].who

LEMMA OneAgrees ==
    ASSUME TypeOK, CallsAgree, CodesStay, issued \subseteq issued', NEW c \in Caller,
           \A d \in Caller \ {c} : requests'[d] = requests[d] /\ ending'[d] = ending[d],
           Agrees(c)'
    PROVE  CallsAgree'
<1> SUFFICES ASSUME NEW d \in Caller PROVE Agrees(d)'
  BY DEF CallsAgree, Agrees
<1>1. CASE d = c  BY <1>1
<1>2. CASE d # c
  <2>1. requests'[d] = requests[d] /\ ending'[d] = ending[d]  BY <1>2
  <2>2. Agrees(d)  BY DEF CallsAgree, Agrees
  <2>3. ASSUME At(d, "redeem")
        PROVE  /\ requests[d].code \in issued'
               /\ (pairings'[requests[d].code] # NoRow =>
                     pairings'[requests[d].code].subject = requests[d].person)
    <3>1. requests[d].code \in Code  BY <2>3, Kinds DEF At, SessionRequest
    <3> QED  BY <2>2, <2>3, <3>1 DEF Agrees, CodesStay
  <2> QED  BY <2>1, <2>2, <2>3 DEF Agrees, At
<1> QED  BY <1>1, <1>2

\* A person who had no role has none but for the writes that give one, and whoever covered a
\* token covers it still, unless this caller did.
LEMMA OneGuards ==
    ASSUME TypeOK, Guarded, RowsStay, NEW c \in Caller, failed' = failed,
           \A d \in Caller \ {c} : requests'[d] = requests[d] /\ ending'[d] = ending[d],
           \A p \in Person, t \in Token : LiveOf(p, t)' /\ p \notin active' =>
               \/ \E d \in Caller : Covers(d, p, t)'
               \/ p \notin active /\ t \in issued /\ ~Covers(c, p, t)
    PROVE  Guarded'
<1> SUFFICES ASSUME ~failed, NEW p \in Person, p \notin active', NEW t \in Token, LiveOf(p, t)'
             PROVE  \E d \in Caller : Covers(d, p, t)'
  BY DEF Guarded
<1>1. CASE p \notin active /\ t \in issued /\ ~Covers(c, p, t)
  <2>1. LiveOf(p, t) /\ sessions'[t].root = sessions[t].root  BY <1>1 DEF RowsStay, LiveOf, TypeOK
  <2>2. PICK d \in Caller : Covers(d, p, t)  BY <1>1, <2>1 DEF Guarded
  <2>3. requests'[d] = requests[d] /\ ending'[d] = ending[d]  BY <1>1, <2>2
  <2> QED  BY <2>1, <2>2, <2>3 DEF Covers, At
<1> QED  BY <1>1

-----------------------------------------------------------------------------
(* Who keeps a session: what each step shows.                                *)

\* The rows that live after a step that draws no token were there before it.
LEMMA LiveIsIssued ==
    ASSUME S!IInv', NEW p, NEW t \in Token, LiveOf(p, t)'
    PROVE  t \in issued'
BY DEF LiveOf, S!IInv, S!DigestsAreIssued

\* What the step of one caller has to show, for the invariant to hold after it.
LEMMA OneStep ==
    ASSUME IInv, Goal, NEW c \in Caller, NEW request \in Request \cup {Nothing}, Moves(c, request),
           \A d \in Caller \ {c} : ending'[d] = ending[d],
           members' \subseteq Person, suspended' \subseteq Person,
           Agrees(c)',
           \/ failed' = TRUE
           \/ /\ failed' = failed
              /\ \A p \in Person, t \in Token : LiveOf(p, t)' /\ p \notin active' =>
                    \/ \E d \in Caller : Covers(d, p, t)'
                    \/ p \notin active /\ t \in issued /\ ~Covers(c, p, t)
    PROVE  IInv'
<1>1. S!IInv' /\ CodesAreIssued' /\ issued \subseteq issued' /\ RowsStay /\ CodesStay
  BY StoreKeeps DEF IInv, Goal
<1>2. TypeOK /\ CallsAgree /\ Guarded  BY DEF IInv
<1>3. \A d \in Caller \ {c} : requests'[d] = requests[d] /\ ending'[d] = ending[d]
  BY DEF Moves
<1>4. CallsAgree'  BY <1>1, <1>2, <1>3, OneAgrees
<1>5. Store!TypeOK'
  BY <1>1 DEF S!IInv, Store!TypeOK, S!TypeOK, S!SessionRow, Store!SessionRow, S!PairingRow,
              Store!PairingRow, S!EndCall, Store!EndCall, S!RenameCall, Store!RenameCall
<1>6. TypeOK'
  <2>1. requests' \in [Caller -> SessionRequest \cup AccessRequest \cup {Nothing}]
    BY DEF Moves, Request
  <2>2. failed' \in BOOLEAN  BY <1>2 DEF TypeOK
  <2> QED  BY <1>5, <2>1, <2>2 DEF TypeOK
<1>7. Guarded'
  <2>1. CASE failed' = TRUE  BY <2>1 DEF Guarded
  <2>2. CASE failed' = failed /\ ~(failed' = TRUE)
    BY <1>1, <1>2, <1>3, <2>2, OneGuards
  <2> QED  BY <2>1, <2>2
<1> QED  BY <1>1, <1>4, <1>6, <1>7 DEF IInv, Goal

\* A step that is nobody's: no request moves, and no token is drawn.
LEMMA NobodysStep ==
    ASSUME IInv, Goal, UNCHANGED <<requests, ending, suspended, failed>>, issued' = issued,
           members \subseteq members', members' \subseteq Person
    PROVE  IInv'
<1>1. S!IInv' /\ CodesAreIssued' /\ issued \subseteq issued' /\ RowsStay /\ CodesStay
  BY StoreKeeps DEF IInv, Goal
<1>2. TypeOK /\ CallsAgree /\ Guarded  BY DEF IInv
<1>3. CallsAgree'
  <2> SUFFICES ASSUME NEW c \in Caller PROVE Agrees(c)'
    BY DEF CallsAgree, Agrees
  <2>1. Agrees(c)  BY <1>2 DEF CallsAgree, Agrees
  <2>2. At(c, "redeem") => requests[c].code \in Code  BY <1>2, Kinds DEF At, SessionRequest
  <2> QED  BY <1>1, <2>1, <2>2 DEF Agrees, At, CodesStay
<1>4. Store!TypeOK'
  BY <1>1 DEF S!IInv, Store!TypeOK, S!TypeOK, S!SessionRow, Store!SessionRow, S!PairingRow,
              Store!PairingRow, S!EndCall, Store!EndCall, S!RenameCall, Store!RenameCall
<1>5. TypeOK'  BY <1>2, <1>4 DEF TypeOK
<1>6. Guarded'
  <2> SUFFICES ASSUME ~failed, NEW p \in Person, p \notin active', NEW t \in Token, LiveOf(p, t)'
               PROVE  \E d \in Caller : Covers(d, p, t)'
    BY DEF Guarded
  <2>1. t \in issued  BY <1>1, LiveIsIssued
  <2>2. LiveOf(p, t) /\ sessions'[t].root = sessions[t].root
    BY <1>1, <1>2, <2>1 DEF RowsStay, LiveOf, TypeOK
  <2>3. p \notin active  BY DEF active
  <2>4. PICK d \in Caller : Covers(d, p, t)  BY <1>2, <2>2, <2>3 DEF Guarded
  <2> QED  BY <2>2, <2>4 DEF Covers, At
<1> QED  BY <1>1, <1>3, <1>5, <1>6 DEF IInv, Goal

\* A caller that serves nothing covers nobody, and has no call of the store.
LEMMA IdleIsQuiet ==
    ASSUME IInv, NEW c \in Caller, requests[c] = Nothing
    PROVE  ending[c] = Nothing /\ \A p, t : ~Covers(c, p, t)
BY DEF IInv, CallsAgree, Covers, At

\* A caller at one of these steps covers nobody.
LEMMA OthersCoverNobody ==
    ASSUME NEW c \in Caller, requests[c].step \in {"mint", "redeem", "first", "write"}
    PROVE  \A p, t : ~Covers(c, p, t)
BY DEF Covers, At

\* Only a pass over the sessions has a call of the store.
LEMMA OnlyPassesCall ==
    ASSUME IInv, NEW c \in Caller,
           requests[c].step \in {"mint", "redeem", "check", "revoke", "write"}
    PROVE  ending[c] = Nothing
BY DEF IInv, CallsAgree, At

\* A row after a step that leaves the table alone.
LEMMA LiveBefore ==
    ASSUME IInv, Goal, NEW p, NEW t \in Token, LiveOf(p, t)',
           sessions' = sessions \/ issued' = issued
    PROVE  t \in issued /\ LiveOf(p, t) /\ sessions'[t].root = sessions[t].root
<1>1. S!IInv' /\ RowsStay  BY StoreKeeps DEF IInv, Goal
<1>2. t \in issued
  <2>1. CASE issued' = issued  BY <1>1, <2>1, LiveIsIssued
  <2>2. CASE sessions' = sessions  BY <2>2 DEF LiveOf, IInv, S!IInv, S!DigestsAreIssued
  <2> QED  BY <2>1, <2>2
<1>3. LiveOf(p, t) /\ sessions'[t].root = sessions[t].root
  BY <1>1, <1>2 DEF RowsStay, LiveOf, IInv, TypeOK
<1> QED  BY <1>2, <1>3

-----------------------------------------------------------------------------
(* Who keeps a session: minting a code and redeeming it.                     *)

LEMMA MintKeeps ==
    ASSUME IInv, NEW c \in Caller,
           \/ \E k \in Code, p \in Person, at \in Instant : MintAllowed(c, k, p, at)
           \/ \E n \in Name : Mint(c, n)
    PROVE  IInv'
<1>0. Goal  BY PairingRoutes DEF IInv
<1>1. ASSUME NEW k \in Code, NEW p \in Person, NEW at \in Instant, MintAllowed(c, k, p, at)
      PROVE  IInv'
  <2> DEFINE request == [step |-> "mint", person |-> p, token |-> NoToken, code |-> k, at |-> at]
  <2>1. request \in Request /\ request # Nothing /\ request.step = "mint"
    BY NullAssumption DEF Request, SessionRequest
  <2> HIDE DEF request
  <2>2. Moves(c, request)
    BY <1>1, <2>1, ServeMoves DEF MintAllowed, IInv, request
  <2>3. UNCHANGED <<sessions, ending, members, suspended, failed>>
    BY <1>1 DEF MintAllowed, storeVars, access
  <2>4. Agrees(c)'
    <3>1. ending'[c] = Nothing  BY <1>1, <2>3, IdleIsQuiet DEF MintAllowed
    <3> QED  BY <2>1, <2>2, <3>1 DEF Agrees, At, Moves
  <2>5. \A q \in Person, t \in Token : LiveOf(q, t)' /\ q \notin active' =>
            q \notin active /\ t \in issued /\ ~Covers(c, q, t)
    BY <1>0, <1>1, <2>3, IdleIsQuiet, LiveBefore DEF MintAllowed, active
  <2> QED  BY <1>0, <2>1, <2>2, <2>3, <2>4, <2>5, OneStep DEF IInv, TypeOK
<1>2. ASSUME NEW n \in Name, Mint(c, n)
      PROVE  IInv'
  <2>1. Moves(c, Nothing)
    BY <1>2, ServeMoves DEF Mint, IInv
  <2>2. UNCHANGED <<sessions, ending, members, suspended, failed>>
    BY <1>2 DEF Mint, access, Store!CreatePairing, Store!asked
  <2>3. requests[c].step = "mint"  BY <1>2 DEF Mint, At
  <2>4. Agrees(c)'
    <3>1. ending'[c] = Nothing  BY <2>2, <2>3, OnlyPassesCall
    <3> QED  BY <2>1, <3>1 DEF Agrees, At, Moves
  <2>5. \A q \in Person, t \in Token : LiveOf(q, t)' /\ q \notin active' =>
            q \notin active /\ t \in issued /\ ~Covers(c, q, t)
    BY <1>0, <2>2, <2>3, OthersCoverNobody, LiveBefore DEF active
  <2> QED  BY <1>0, <2>1, <2>2, <2>4, <2>5, OneStep DEF IInv, TypeOK
<1> QED  BY <1>1, <1>2

LEMMA PairKeeps ==
    ASSUME IInv, NEW c \in Caller, NEW k \in Code, NEW at \in Instant, Pair(c, k, at)
    PROVE  IInv'
<1> DEFINE request == [step |-> "redeem", person |-> pairings[k].subject, token |-> NoToken,
                       code |-> k, at |-> at]
<1>0. Goal  BY PairingRoutes DEF IInv
<1>1. pairings[k] # NoRow /\ pairings[k].subject \in Person /\ k \in issued
  BY DEF Pair, IInv, S!IInv, S!TypeOK, S!PairingRow, CodesAreIssued
<1>2. /\ request \in Request /\ request # Nothing /\ request.step = "redeem"
      /\ request.code = k /\ request.person = pairings[k].subject
  BY <1>1, NullAssumption DEF Request, SessionRequest
<1> HIDE DEF request
<1>3. Moves(c, request)
  BY <1>2, ServeMoves DEF Pair, IInv, request
<1>4. UNCHANGED <<issued, ending, members, suspended, failed>>
  BY DEF Pair, access, Store!Purge, Store!asked
<1>5. Agrees(c)'
  <2>1. ending'[c] = Nothing  BY <1>4, IdleIsQuiet DEF Pair
  <2>2. CodesStay  BY <1>0, StoreKeeps DEF IInv, Goal
  <2>3. pairings'[k] # NoRow => pairings'[k].subject = pairings[k].subject
    BY <1>1, <2>2 DEF CodesStay
  <2> QED  BY <1>1, <1>2, <1>3, <1>4, <2>1, <2>3 DEF Agrees, At, Moves
<1>6. \A q \in Person, t \in Token : LiveOf(q, t)' /\ q \notin active' =>
          q \notin active /\ t \in issued /\ ~Covers(c, q, t)
  BY <1>0, <1>4, IdleIsQuiet, LiveBefore DEF Pair, active
<1> QED  BY <1>0, <1>2, <1>3, <1>4, <1>5, <1>6, OneStep DEF IInv, TypeOK

\* The session that a code buys is the one that its request checks.
LEMMA RedeemKeeps ==
    ASSUME IInv, NEW c \in Caller, NEW t \in Token, Redeem(c, t)
    PROVE  IInv'
<1> DEFINE code == requests[c].code
           request == [requests[c] EXCEPT !.step = "check", !.token = t]
<1>0. Goal  BY PairingRoutes DEF IInv
<1>1. requests[c] \in SessionRequest /\ requests[c].step = "redeem"
  BY Kinds DEF Redeem, At, IInv
<1>2. /\ code \in Code /\ pairings[code] # NoRow /\ t \notin issued
      /\ sessions' = [sessions EXCEPT ![t] =
            [subject |-> pairings[code].subject, name |-> pairings[code].name,
             expires |-> requests[c].at + SessionTtl, revoked |-> FALSE,
             rotated |-> Store!NotRotated, pred |-> NoToken, root |-> t, code |-> code]]
      /\ issued' = issued \cup {t} /\ UNCHANGED <<ending, renaming>>
  BY <1>1 DEF Redeem, Store!RedeemPairing, Store!asked, SessionRequest
<1>3. pairings[code].subject = requests[c].person
  BY <1>1, <1>2 DEF IInv, CallsAgree, At, Redeem
<1>4. /\ request \in Request /\ request # Nothing /\ request.step = "check"
      /\ request.token = t /\ request.person = requests[c].person
  BY <1>1, NullAssumption DEF Request, SessionRequest
<1> HIDE DEF code, request
<1>5. Moves(c, request)
  BY <1>4, ServeMoves DEF Redeem, IInv, request
<1>6. UNCHANGED <<members, suspended, failed>>  BY DEF Redeem, access
<1>7. Agrees(c)'
  <2>1. ending'[c] = Nothing  BY <1>1, <1>2, OnlyPassesCall
  <2> QED  BY <1>4, <1>5, <2>1 DEF Agrees, At, Moves
<1>8. ASSUME NEW q \in Person, NEW u \in Token, LiveOf(q, u)', q \notin active'
      PROVE  Covers(c, q, u)' \/ (q \notin active /\ u \in issued /\ ~Covers(c, q, u))
  <2>1. CASE u = t
    <3>1. sessions'[t].subject = pairings[code].subject  BY <1>2 DEF IInv, S!IInv, S!TypeOK
    <3>2. q = requests[c].person  BY <1>3, <1>8, <2>1, <3>1 DEF LiveOf
    <3> QED  BY <1>4, <1>5, <2>1, <3>2 DEF Covers, At, Moves
  <2>2. CASE u # t
    <3>1. u \in issued'  BY <1>0, <1>8, StoreKeeps, LiveIsIssued DEF IInv, Goal
    <3>2. ~Covers(c, q, u)  BY <1>1, OthersCoverNobody
    <3> QED  BY <1>2, <1>6, <1>8, <2>2, <3>1, <3>2 DEF active
  <2> QED  BY <2>1, <2>2
<1> QED  BY <1>0, <1>2, <1>4, <1>5, <1>6, <1>7, <1>8, OneStep DEF IInv, TypeOK

LEMMA RedeemRefusedKeeps ==
    ASSUME IInv, NEW c \in Caller, RedeemRefused(c)
    PROVE  IInv'
<1>0. Goal  BY PairingRoutes DEF IInv
<1>1. Moves(c, Nothing)  BY ServeMoves DEF RedeemRefused, IInv
<1>2. UNCHANGED <<sessions, ending, members, suspended, failed>>
  BY DEF RedeemRefused, access, storeVars
<1>3. requests[c].step = "redeem"  BY DEF RedeemRefused, At
<1>4. Agrees(c)'
  <2>1. ending'[c] = Nothing  BY <1>2, <1>3, OnlyPassesCall
  <2> QED  BY <1>1, <2>1 DEF Agrees, At, Moves
<1>5. \A q \in Person, t \in Token : LiveOf(q, t)' /\ q \notin active' =>
          q \notin active /\ t \in issued /\ ~Covers(c, q, t)
  BY <1>0, <1>2, <1>3, OthersCoverNobody, LiveBefore DEF active
<1> QED  BY <1>0, <1>1, <1>2, <1>4, <1>5, OneStep DEF IInv, TypeOK

-----------------------------------------------------------------------------
(* Who keeps a session: refreshing one, and the check that follows.          *)

\* The session that a refresh answers is of the person that its request checks.
LEMMA RefreshKeeps ==
    ASSUME IInv, NEW c \in Caller, NEW t \in Token, NEW s \in Token, NEW at \in Instant,
           Refresh(c, t, s, at)
    PROVE  IInv'
<1>0. Goal  BY RefreshRoutes DEF IInv
<1>1. PICK k \in Code :
        Serve(c, [step |-> "check", person |-> sessions[t].subject, token |-> s,
                  code |-> k, at |-> at])
  BY DEF Refresh
<1> DEFINE request == [step |-> "check", person |-> sessions[t].subject, token |-> s,
                       code |-> k, at |-> at]
<1>2. /\ requests[c] = Nothing /\ sessions[t] \in Store!SessionRow /\ s # t
      /\ sessions'[s] = Store!Successor(t)
      /\ issued' = issued \cup {s} /\ UNCHANGED <<ending, members, suspended, failed>>
  <2>1. sessions \in [Token -> Store!SessionRow \cup {NoRow}]  BY DEF IInv, TypeOK, Store!TypeOK
  <2>2. t \in issued
    BY DEF Refresh, Store!RotateFirst, Store!RotateAgain, Store!Live, IInv, S!IInv,
           S!DigestsAreIssued
  <2> QED  BY <2>1, <2>2 DEF Refresh, Store!RotateFirst, Store!RotateAgain, Store!asked, Store!Live,
                             access
<1>3. Store!Successor(t).subject = sessions[t].subject /\ sessions[t].subject \in Person
  BY <1>2 DEF Store!Successor, Store!SessionRow
<1>4. /\ request \in Request /\ request # Nothing /\ request.step = "check"
      /\ request.token = s /\ request.person = sessions[t].subject
  BY <1>3, NullAssumption DEF Request, SessionRequest
<1>5. Serve(c, request)  BY <1>1
<1> HIDE DEF request
<1>6. Moves(c, request)  BY <1>4, <1>5, ServeMoves DEF IInv
<1>7. Agrees(c)'
  <2>1. ending'[c] = Nothing  BY <1>2, IdleIsQuiet
  <2> QED  BY <1>4, <1>6, <2>1 DEF Agrees, At, Moves
<1>8. ASSUME NEW q \in Person, NEW u \in Token, LiveOf(q, u)', q \notin active'
      PROVE  Covers(c, q, u)' \/ (q \notin active /\ u \in issued /\ ~Covers(c, q, u))
  <2>1. CASE u = s
    <3>1. q = sessions[t].subject  BY <1>2, <1>3, <1>8, <2>1 DEF LiveOf
    <3> QED  BY <1>4, <1>6, <2>1, <3>1 DEF Covers, At, Moves
  <2>2. CASE u # s
    <3>1. u \in issued'  BY <1>0, <1>8, StoreKeeps, LiveIsIssued DEF IInv, Goal
    <3>2. ~Covers(c, q, u)  BY <1>2, IdleIsQuiet
    <3> QED  BY <1>2, <1>8, <2>2, <3>1, <3>2 DEF active
  <2> QED  BY <2>1, <2>2
<1> QED  BY <1>0, <1>2, <1>4, <1>6, <1>7, <1>8, OneStep DEF IInv, TypeOK

\* A request is over without touching the store, and whoever is no stranger keeps the
\* session it opened.
LEMMA StillKeeps ==
    ASSUME IInv, NEW c \in Caller, StillOfTheWorkspace(c)
    PROVE  IInv'
<1>0. Goal  BY RefreshRoutes DEF IInv
<1>1. Moves(c, Nothing)  BY ServeMoves DEF StillOfTheWorkspace, IInv
<1>2. UNCHANGED <<sessions, ending, members, suspended, failed>>
  BY DEF StillOfTheWorkspace, access, storeVars
<1>3. requests[c].step = "check"  BY DEF StillOfTheWorkspace, At
<1>4. Agrees(c)'
  <2>1. ending'[c] = Nothing  BY <1>2, <1>3, OnlyPassesCall
  <2> QED  BY <1>1, <2>1 DEF Agrees, At, Moves
<1>5. \A q \in Person, t \in Token : LiveOf(q, t)' /\ q \notin active' =>
          q \notin active /\ t \in issued /\ ~Covers(c, q, t)
  <2>1. \A q \in Person : \A t : q \notin active => ~Covers(c, q, t)
    BY <1>3 DEF StillOfTheWorkspace, Covers, At
  <2> QED  BY <1>0, <1>2, <2>1, LiveBefore DEF active
<1> QED  BY <1>0, <1>1, <1>2, <1>4, <1>5, OneStep DEF IInv, TypeOK

LEMMA NotOfKeeps ==
    ASSUME IInv, NEW c \in Caller, NotOfTheWorkspace(c)
    PROVE  IInv'
<1>0. Goal  BY RefreshRoutes DEF IInv
<1>1. requests[c] # Nothing /\ requests[c].step = "check"  BY DEF NotOfTheWorkspace, At
<1>2. PICK request \in Request :
        /\ Moves(c, request) /\ request.step = "revoke"
        /\ request.token = requests[c].token /\ request.person = requests[c].person
  BY <1>1, StepMoves DEF NotOfTheWorkspace, IInv
<1>3. UNCHANGED <<sessions, ending, members, suspended, failed>>
  BY DEF NotOfTheWorkspace, access, storeVars
<1>4. requests'[c] # Nothing
  BY <1>2, NullAssumption DEF Moves, Request
<1>5. Agrees(c)'
  <2>1. ending'[c] = Nothing  BY <1>1, <1>3, OnlyPassesCall
  <2> QED  BY <1>2, <2>1 DEF Agrees, At, Moves
<1>6. ASSUME NEW q \in Person, NEW u \in Token, LiveOf(q, u)', q \notin active'
      PROVE  Covers(c, q, u)' \/ (q \notin active /\ u \in issued /\ ~Covers(c, q, u))
  <2>1. q \notin active /\ u \in issued  BY <1>0, <1>3, <1>6, LiveBefore DEF active
  <2>2. Covers(c, q, u) => Covers(c, q, u)'
    BY <1>1, <1>2, <1>4 DEF Covers, At, Moves
  <2> QED  BY <2>1, <2>2
<1> QED  BY <1>0, <1>2, <1>3, <1>5, <1>6, OneStep DEF IInv, TypeOK

\* The chain of the token that was answered for nothing ends.
LEMMA RevokeKeeps ==
    ASSUME IInv, NEW c \in Caller, RevokeOpened(c)
    PROVE  IInv'
<1> DEFINE token == requests[c].token
<1>0. Goal  BY RefreshRoutes DEF IInv
<1>1. Moves(c, Nothing)  BY ServeMoves DEF RevokeOpened, IInv
<1>2. UNCHANGED <<issued, ending, members, suspended, failed>>
  BY DEF RevokeOpened, access, storeVars, Store!RevokeSession, Store!asked
<1>3. requests[c].step = "revoke"  BY DEF RevokeOpened, At
<1>4. Agrees(c)'
  <2>1. ending'[c] = Nothing  BY <1>2, <1>3, OnlyPassesCall
  <2> QED  BY <1>1, <2>1 DEF Agrees, At, Moves
<1>5. ASSUME NEW q \in Person, NEW u \in Token, LiveOf(q, u)', q \notin active'
      PROVE  q \notin active /\ u \in issued /\ ~Covers(c, q, u)
  <2>1. /\ q \notin active /\ u \in issued
        /\ LiveOf(q, u)
    BY <1>0, <1>2, <1>5, LiveBefore DEF active
  <2>2. ASSUME Covers(c, q, u) PROVE FALSE
    <3>1. token = u  BY <1>3, <2>2 DEF Covers, At
    <3>2. sessions[u] \in Store!SessionRow /\ sessions[u] # NoRow
      BY <2>1 DEF LiveOf, IInv, TypeOK, Store!TypeOK
    <3>3. sessions' = Store!Revoking(Store!Chain(sessions[u].root))
      BY <3>1, <3>2 DEF RevokeOpened, Store!RevokeSession
    <3>4. sessions'[u] = [sessions[u] EXCEPT !.revoked = TRUE]
      BY <3>2, <3>3 DEF Store!Revoking, Store!Chain
    <3>5. sessions'[u].revoked  BY <3>2, <3>4 DEF Store!SessionRow
    <3> QED  BY <1>5, <3>5 DEF LiveOf
  <2> QED  BY <2>1, <2>2
<1> QED  BY <1>0, <1>1, <1>2, <1>4, <1>5, OneStep DEF IInv, TypeOK

-----------------------------------------------------------------------------
(* Who keeps a session: somebody goes, or comes back.                        *)

LEMMA AskedKeeps ==
    ASSUME IInv, NEW c \in Caller, NEW who \in Scope,
           \/ Remove(c, who) \/ Leave(c, who) \/ Suspend(c, who)
           \/ Restore(c, who) \/ RestoreUnsuspended(c, who)
    PROVE  IInv'
<1>0. Goal  BY AccessAsked DEF IInv
<1>1. PICK does \in {"remove", "suspend", "restore"}, step \in {"first", "write"}, found \in BOOLEAN :
        /\ Asking(c, does, who, step, found)
        /\ \/ step = "first" /\ Store!EndSessionsCalled(c, who)
           \/ step = "write" /\ UNCHANGED storeVars
  BY DEF Remove, Leave, Suspend, Restore, RestoreUnsuspended
<1>2. requests[c] = Nothing /\ UNCHANGED <<members, suspended, failed>>
  BY DEF Remove, Leave, Suspend, Restore, RestoreUnsuspended, access
<1> DEFINE request == [step |-> step, does |-> does, who |-> who, chains |-> ChainsOf(who),
                       found |-> found]
<1>3. ChainsOf(who) \in SUBSET Token
  <2>1. \A t \in Store!SessionsOf(who) : sessions[t].root \in Token
    BY DEF Store!SessionsOf, IInv, TypeOK, Store!TypeOK, Store!SessionRow
  <2> QED  BY <2>1 DEF ChainsOf, Store!ChainsOf
<1>4. request \in AccessRequest /\ request.step = step /\ request.who = who
  BY <1>3 DEF AccessRequest
<1>5. request \in Request /\ request # Nothing
  BY <1>4, NullAssumption DEF Request
<1>6. Serve(c, request)  BY <1>1 DEF Asking
<1> HIDE DEF request
<1>7. Moves(c, request)  BY <1>5, <1>6, ServeMoves DEF IInv
<1>8. /\ ending[c] = Nothing /\ UNCHANGED sessions
      /\ \A d \in Caller \ {c} : ending'[d] = ending[d]
      /\ ending'[c] = Nothing \/ (step = "first" /\ ending'[c].who = who)
  <2>1. ending[c] = Nothing  BY <1>2, IdleIsQuiet
  <2>2. CASE step = "first" /\ Store!EndSessionsCalled(c, who)
    BY <2>1, <2>2 DEF Store!EndSessionsCalled, Store!tables, IInv, S!IInv, S!TypeOK
  <2>3. CASE UNCHANGED storeVars  BY <2>1, <2>3 DEF storeVars
  <2> QED  BY <1>1, <2>1, <2>2, <2>3
<1>9. Agrees(c)'
  BY <1>4, <1>5, <1>7, <1>8 DEF Agrees, At, Moves
<1>10. \A q \in Person, t \in Token : LiveOf(q, t)' /\ q \notin active' =>
          q \notin active /\ t \in issued /\ ~Covers(c, q, t)
  BY <1>0, <1>2, <1>8, IdleIsQuiet, LiveBefore DEF active
<1> QED  BY <1>0, <1>2, <1>5, <1>7, <1>8, <1>9, <1>10, OneStep DEF IInv, TypeOK

LEMMA FirstPassKeeps ==
    ASSUME IInv, NEW c \in Caller, FirstPass(c) \/ FirstPassFailed(c)
    PROVE  IInv'
<1>0. Goal  BY AccessDone DEF IInv
<1>1. requests[c] # Nothing /\ requests[c].step = "first"  BY DEF FirstPass, FirstPassFailed, At
<1>2. PICK request \in Request \cup {Nothing} :
        Moves(c, request) /\ (request = Nothing \/ request.step = "write")
  <2>1. CASE FirstPass(c)  BY <1>1, <2>1, StepMoves DEF FirstPass, IInv
  <2>2. CASE FirstPassFailed(c)  BY <2>2, ServeMoves DEF FirstPassFailed, IInv
  <2> QED  BY <2>1, <2>2
<1>3. /\ UNCHANGED <<issued, members, suspended, failed>>
      /\ \A d \in Caller \ {c} : ending'[d] = ending[d]
      /\ ending'[c] = Nothing
  BY DEF FirstPass, FirstPassFailed, Store!EndSessionsOf, Store!EndSessionsFailed, access, IInv,
         S!IInv, S!TypeOK
<1>4. Agrees(c)'  BY <1>2, <1>3 DEF Agrees, At, Moves
<1>5. \A q \in Person, t \in Token : LiveOf(q, t)' /\ q \notin active' =>
          q \notin active /\ t \in issued /\ ~Covers(c, q, t)
  BY <1>0, <1>1, <1>3, OthersCoverNobody, LiveBefore DEF active
<1> QED  BY <1>0, <1>2, <1>3, <1>4, <1>5, OneStep DEF IInv, TypeOK

\* Whoever becomes a stranger is covered by the pass that is still to come.
LEMMA WriteKeeps ==
    ASSUME IInv, NEW c \in Caller, WriteRemoval(c) \/ WriteSuspension(c)
    PROVE  IInv'
<1>0. Goal  BY AccessDone DEF IInv
<1>1. requests[c] # Nothing /\ requests[c].step = "write"
  BY DEF WriteRemoval, WriteSuspension, At
<1>2. PICK request \in Request :
        Moves(c, request) /\ request.step = "second" /\ request.who = requests[c].who
  BY <1>1, StepMoves DEF WriteRemoval, WriteSuspension, IInv
<1>3. /\ UNCHANGED <<sessions, ending, failed>>
      /\ active' = active \ requests[c].who
  BY DEF WriteRemoval, WriteSuspension, storeVars, active
<1>4. members' \subseteq Person /\ suspended' \subseteq Person
  <2>1. requests[c] \in AccessRequest  BY <1>1, Kinds DEF IInv
  <2>2. requests[c].who \subseteq Person  BY <2>1, ScopeAssumption DEF AccessRequest
  <2> QED  BY <2>2 DEF WriteRemoval, WriteSuspension, IInv, TypeOK
<1>5. ending'[c] = Nothing  BY <1>1, <1>3, OnlyPassesCall
<1>6. Agrees(c)'  BY <1>2, <1>5 DEF Agrees, At, Moves
<1>7. requests'[c] # Nothing  BY <1>2, NullAssumption DEF Moves, Request
<1>8. ASSUME NEW q \in Person, NEW u \in Token, LiveOf(q, u)', q \notin active'
      PROVE  Covers(c, q, u)' \/ (q \notin active /\ u \in issued /\ ~Covers(c, q, u))
  <2>1. CASE q \in requests[c].who  BY <1>2, <1>5, <1>7, <2>1 DEF Covers, At, Moves
  <2>2. CASE q \notin requests[c].who
    BY <1>0, <1>1, <1>3, <1>8, <2>2, OthersCoverNobody, LiveBefore
  <2> QED  BY <2>1, <2>2
<1> QED  BY <1>0, <1>2, <1>3, <1>4, <1>6, <1>8, OneStep DEF IInv, TypeOK

LEMMA WriteOverKeeps ==
    ASSUME IInv, NEW c \in Caller, WriteBack(c) \/ WriteRefused(c)
    PROVE  IInv'
<1>0. Goal  BY AccessDone DEF IInv
<1>1. requests[c].step = "write"  BY DEF WriteBack, WriteRefused, At
<1>2. Moves(c, Nothing)  BY ServeMoves DEF WriteBack, WriteRefused, IInv
<1>3. /\ UNCHANGED <<sessions, ending, members, failed>>
      /\ suspended' \subseteq suspended
  BY DEF WriteBack, WriteRefused, storeVars, access
<1>4. ending'[c] = Nothing  BY <1>1, <1>3, OnlyPassesCall
<1>5. Agrees(c)'  BY <1>2, <1>4 DEF Agrees, At, Moves
<1>6. \A q \in Person, t \in Token : LiveOf(q, t)' /\ q \notin active' =>
          q \notin active /\ t \in issued /\ ~Covers(c, q, t)
  BY <1>0, <1>1, <1>3, OthersCoverNobody, LiveBefore DEF active
<1> QED  BY <1>0, <1>2, <1>3, <1>5, <1>6, OneStep DEF IInv, TypeOK

\* The second pass finds every session that is left of whom it covers.
LEMMA SecondCalledKeeps ==
    ASSUME IInv, NEW c \in Caller, SecondPassCalled(c)
    PROVE  IInv'
<1>0. Goal  BY AccessDone DEF IInv
<1>1. requests[c] # Nothing /\ requests[c].step = "second"  BY DEF SecondPassCalled, At
<1> DEFINE who == requests[c].who
<1>2. Moves(c, requests[c]) /\ requests[c] \in Request \cup {Nothing}
  BY DEF SecondPassCalled, Moves, IInv, TypeOK, Request
<1>3. /\ UNCHANGED <<sessions, members, suspended, failed>>
      /\ \A d \in Caller \ {c} : ending'[d] = ending[d]
      /\ ending'[c].who = who /\ ending'[c].chains = Store!ChainsOf(who)
  BY DEF SecondPassCalled, Store!EndSessionsCalled, Store!tables, access, IInv, S!IInv, S!TypeOK
<1>4. Agrees(c)'  BY <1>1, <1>2, <1>3 DEF Agrees, At, Moves
<1>5. ASSUME NEW q \in Person, NEW u \in Token, LiveOf(q, u)', q \notin active'
      PROVE  Covers(c, q, u)' \/ (q \notin active /\ u \in issued /\ ~Covers(c, q, u))
  <2>1. q \notin active /\ u \in issued /\ LiveOf(q, u)
    BY <1>0, <1>3, <1>5, LiveBefore DEF active
  <2>2. ASSUME Covers(c, q, u) PROVE Covers(c, q, u)'
    <3>1. q \in who  BY <1>1, <2>2 DEF Covers, At
    <3>2. sessions[u].root \in Store!ChainsOf(who)
      BY <2>1, <3>1 DEF LiveOf, Store!ChainsOf, Store!SessionsOf
    <3> QED  BY <1>1, <1>2, <1>3, <3>1, <3>2 DEF Covers, At, Moves
  <2> QED  BY <2>1, <2>2
<1> QED  BY <1>0, <1>2, <1>3, <1>4, <1>5, OneStep DEF IInv, TypeOK

\* ... and ends them all.
LEMMA SecondPassKeeps ==
    ASSUME IInv, NEW c \in Caller, SecondPass(c)
    PROVE  IInv'
<1>0. Goal  BY AccessDone DEF IInv
<1>1. requests[c] # Nothing /\ requests[c].step = "second"  BY DEF SecondPass, At
<1>2. Moves(c, Nothing)  BY ServeMoves DEF SecondPass, IInv
<1>3. /\ UNCHANGED <<issued, members, suspended, failed>>
      /\ \A d \in Caller \ {c} : ending'[d] = ending[d]
      /\ ending'[c] = Nothing /\ ending[c] # Nothing
  BY DEF SecondPass, Store!EndSessionsOf, access, IInv, S!IInv, S!TypeOK
<1>4. Agrees(c)'  BY <1>2, <1>3 DEF Agrees, At, Moves
<1>5. ending[c].who = requests[c].who  BY <1>3 DEF IInv, CallsAgree
<1>6. PICK gone \in SUBSET Store!SessionsOf(ending[c].who) :
        /\ {t \in Store!SessionsOf(ending[c].who) : sessions[t].root \in ending[c].chains}
              \subseteq gone
        /\ sessions' = Store!Revoking(gone)
  BY DEF SecondPass, Store!EndSessionsOf
<1>7. ASSUME NEW q \in Person, NEW u \in Token, LiveOf(q, u)', q \notin active'
      PROVE  q \notin active /\ u \in issued /\ ~Covers(c, q, u)
  <2>1. q \notin active /\ u \in issued /\ LiveOf(q, u)
    BY <1>0, <1>3, <1>7, LiveBefore DEF active
  <2>2. ASSUME Covers(c, q, u) PROVE FALSE
    <3>1. q \in ending[c].who /\ sessions[u].root \in ending[c].chains
      BY <1>1, <1>3, <1>5, <2>2 DEF Covers, At
    <3>2. u \in gone  BY <1>6, <2>1, <3>1 DEF LiveOf, Store!SessionsOf
    <3>3. sessions[u] \in Store!SessionRow  BY <2>1 DEF LiveOf, IInv, TypeOK, Store!TypeOK
    <3>4. sessions'[u] = [sessions[u] EXCEPT !.revoked = TRUE]
      BY <1>6, <3>2 DEF Store!Revoking
    <3>5. sessions'[u].revoked  BY <3>3, <3>4 DEF Store!SessionRow
    <3> QED  BY <1>7, <3>5 DEF LiveOf
  <2> QED  BY <2>1, <2>2
<1> QED  BY <1>0, <1>2, <1>3, <1>4, <1>7, OneStep DEF IInv, TypeOK

\* A pass that fails, and a worker that stops, are remembered.
LEMMA FailureKeeps ==
    ASSUME IInv, NEW c \in Caller, SecondPassFailed(c) \/ Stopped(c)
    PROVE  IInv'
<1>0. Goal  BY AccessDone DEF IInv
<1>1. Moves(c, Nothing)  BY ServeMoves DEF SecondPassFailed, Stopped, IInv
<1>2. /\ UNCHANGED <<members, suspended>> /\ failed' = TRUE
      /\ \A d \in Caller \ {c} : ending'[d] = ending[d]
      /\ ending'[c] = Nothing
  BY DEF SecondPassFailed, Stopped, Store!EndSessionsFailed, storeVars, access, IInv, S!IInv,
         S!TypeOK
<1>3. Agrees(c)'  BY <1>1, <1>2 DEF Agrees, At, Moves
<1> QED  BY <1>0, <1>1, <1>2, <1>3, OneStep DEF IInv, TypeOK

-----------------------------------------------------------------------------
(* Who keeps a session: the theorems.                                        *)

LEMMA IInvInit == Init => IInv
<1> SUFFICES ASSUME Init PROVE IInv
  OBVIOUS
<1>1. Store!Init /\ RequestsAreNamed  BY RoutesInit
<1>2. S!IInv  BY <1>1, SameStore, S!IInvInit, StoreAssumptions
<1>3. TypeOK  BY <1>2, SameStore DEF Init, TypeOK, S!IInv
<1>4. CodesAreIssued /\ CallsAgree /\ Guarded
  BY <1>1 DEF Init, Store!Init, CodesAreIssued, CallsAgree, At, Guarded, LiveOf
<1> QED  BY <1>1, <1>2, <1>3, <1>4 DEF IInv

LEMMA IInvStep == IInv /\ [Next]_vars => IInv'
<1> SUFFICES ASSUME IInv, [Next]_vars PROVE IInv'
  OBVIOUS
<1>0. Goal  BY RoutesStep DEF IInv
<1>1. ASSUME NEW p \in Person, Join(p) PROVE IInv'
  BY <1>0, <1>1, NobodysStep DEF Join, storeVars, IInv, TypeOK
<1>2. CASE UNCHANGED vars
  BY <1>0, <1>2, NobodysStep DEF vars, IInv, TypeOK
<1>3. ASSUME NEW t \in Token, LogOut(t) PROVE IInv'
  BY <1>0, <1>3, NobodysStep DEF LogOut, access, Store!RevokeSession, Store!asked, IInv, TypeOK
<1>4. ASSUME NEW t \in Token, NEW at \in Instant, RefreshRefused(t, at) PROVE IInv'
  BY <1>0, <1>4, NobodysStep
     DEF RefreshRefused, access, Store!RotateLate, Store!RotateReplay, Store!asked, IInv, TypeOK
<1> QED
  BY <1>1, <1>2, <1>3, <1>4, MintKeeps, PairKeeps, RedeemKeeps, RedeemRefusedKeeps, RefreshKeeps,
     StillKeeps, NotOfKeeps, RevokeKeeps, AskedKeeps, FirstPassKeeps, WriteKeeps, WriteOverKeeps,
     SecondCalledKeeps, SecondPassKeeps, FailureKeeps DEF Next

\* Every live session of a stranger is covered by a request, until a pass fails.
LEMMA Invariance == Spec => []IInv
BY IInvInit, IInvStep, PTL DEF Spec

\* Requests, roles and the store keep their types.
THEOREM TypeCorrect == Spec => []TypeOK
<1>1. IInv => TypeOK  BY DEF IInv
<1> QED  BY <1>1, Invariance, PTL

\* Somebody who was removed or suspended has no live session once the requests that
\* concern them are over and none failed: whatever code they redeemed or token they
\* refreshed meanwhile, a pass over the sessions or the check of an answer has ended it.
THEOREM StrangersNeverKeepSessions == Spec => []StrangersHaveNoSession
<1>1. ASSUME IInv PROVE StrangersHaveNoSession
  <2> SUFFICES ASSUME NEW p \in Person, p \notin active, ~failed, Settled(p),
                      NEW t \in Store!SessionsOf({p}), Store!Live(t)
               PROVE  FALSE
    BY DEF StrangersHaveNoSession
  <2>1. t \in Token /\ LiveOf(p, t)  BY DEF Store!SessionsOf, Store!Live, LiveOf
  <2>2. PICK c \in Caller : Covers(c, p, t)  BY <1>1, <2>1 DEF IInv, Guarded
  <2>3. requests[c] # Nothing  BY <2>2 DEF Covers, At
  <2>4. CASE At(c, "check") \/ At(c, "revoke")
    <3>1. requests[c] \in SessionRequest  BY <1>1, <2>3, <2>4, Kinds DEF IInv, At
    <3>2. "who" \notin DOMAIN requests[c]  BY <3>1 DEF SessionRequest
    <3>3. requests[c].person = p  BY <2>2, <2>4 DEF Covers, At
    <3> QED  BY <2>3, <3>2, <3>3 DEF Settled
  <2>5. CASE At(c, "second")
    <3>1. requests[c] \in AccessRequest  BY <1>1, <2>3, <2>5, Kinds DEF IInv, At
    <3>2. "who" \in DOMAIN requests[c]  BY <3>1 DEF AccessRequest
    <3>3. p \in requests[c].who  BY <2>2, <2>5 DEF Covers, At
    <3> QED  BY <2>3, <3>2, <3>3 DEF Settled
  <2> QED  BY <2>2, <2>4, <2>5 DEF Covers
<1> QED  BY <1>1, Invariance, PTL

-----------------------------------------------------------------------------
(* What a restoration gives back.                                            *)

\* A request that has started its first pass waits for the chains it found, and what it
\* found has ended when it comes to write.
Restores(c) ==
    /\ At(c, "first") => ending[c] # Nothing /\ ending[c].chains = requests[c].chains
    /\ At(c, "write") /\ requests[c].found =>
          /\ requests[c].chains \subseteq Token \cap issued
          /\ \A r \in requests[c].chains : S!Ended(r)

RestoringEnds == \A c \in Caller : Restores(c)

\* A session that ended stays so, whatever the routes do.
LEMMA EndedStays ==
    ASSUME IInv, Goal, NEW r \in Token \cap issued, S!Ended(r)
    PROVE  S!Ended(r)'
<1>1. [S!Next]_(S!vars)  BY SameStore DEF Goal, StoreStep, storeVars, S!vars
<1> QED  BY <1>1, S!EndedStep, StoreAssumptions DEF IInv

\* A request that does not move restores what it restored.
LEMMA RestoresStill ==
    ASSUME IInv, Goal, NEW d \in Caller, Restores(d),
           requests'[d] = requests[d], ending'[d] = ending[d]
    PROVE  Restores(d)'
<1>1. issued \subseteq issued'  BY StoreKeeps DEF IInv, Goal
<1>2. \A r \in Token \cap issued : S!Ended(r) => S!Ended(r)'  BY EndedStays
<1> QED  BY <1>1, <1>2 DEF Restores, At

\* The step of one caller, once it is shown of that caller.
LEMMA OneRestores ==
    ASSUME IInv, RestoringEnds, Goal, NEW c \in Caller,
           \A d \in Caller \ {c} : requests'[d] = requests[d] /\ ending'[d] = ending[d],
           Restores(c)'
    PROVE  RestoringEnds'
<1> SUFFICES ASSUME NEW d \in Caller, d # c PROVE Restores(d)'
  BY DEF RestoringEnds
<1>1. Restores(d)  BY DEF RestoringEnds
<1> QED  BY <1>1, RestoresStill

\* A request that is over, or goes on to another step than its write, restores nothing.
LEMMA OthersRestoreNothing ==
    ASSUME IInv, RestoringEnds, Goal, NEW c \in Caller, NEW request, Serve(c, request),
           \A d \in Caller \ {c} : ending'[d] = ending[d],
           \/ request = Nothing
           \/ request.step \notin {"first", "write"}
           \/ request.step = "write" /\ request.found = FALSE
    PROVE  RestoringEnds'
<1>1. requests'[c] = request /\ \A d \in Caller \ {c} : requests'[d] = requests[d]
  BY DEF Serve, IInv, TypeOK
<1>2. Restores(c)'  BY <1>1 DEF Restores, At
<1> QED  BY <1>1, <1>2, OneRestores

\* The requests on a session restore nothing, and have no call of the store.
LEMMA SessionRequestsRestoreNothing ==
    ASSUME IInv, RestoringEnds, NEW c \in Caller,
           \/ \E k \in Code, p \in Person, at \in Instant : MintAllowed(c, k, p, at)
           \/ \E n \in Name : Mint(c, n)
           \/ \E k \in Code, at \in Instant : Pair(c, k, at)
           \/ \E t \in Token : Redeem(c, t)
           \/ RedeemRefused(c)
           \/ \E t, s \in Token, at \in Instant : Refresh(c, t, s, at)
           \/ StillOfTheWorkspace(c) \/ NotOfTheWorkspace(c) \/ RevokeOpened(c)
    PROVE  RestoringEnds'
<1> DEFINE Over == \E request : /\ Serve(c, request)
                                /\ request = Nothing \/ request.step \notin {"first", "write"}
<1>0. Goal  BY PairingRoutes, RefreshRoutes DEF IInv
<1>1. ending' = ending
  BY DEF MintAllowed, Mint, Pair, Redeem, RedeemRefused, Refresh, StillOfTheWorkspace,
         NotOfTheWorkspace, RevokeOpened, storeVars, Store!CreatePairing, Store!Purge,
         Store!RedeemPairing, Store!RotateFirst, Store!RotateAgain, Store!RevokeSession, Store!asked
<1>2. ASSUME NEW request, Serve(c, request), request = Nothing \/ request.step \notin {"first", "write"}
      PROVE  Over
  BY <1>2
<1> HIDE DEF Over
<1>3. ASSUME NEW k \in Code, NEW p \in Person, NEW at \in Instant, MintAllowed(c, k, p, at)
      PROVE  Over
  BY <1>2, <1>3 DEF MintAllowed
<1>4. ASSUME NEW k \in Code, NEW at \in Instant, Pair(c, k, at)
      PROVE  Over
  BY <1>2, <1>4 DEF Pair
<1>5. ASSUME NEW t \in Token, Redeem(c, t)
      PROVE  Over
  <2>1. requests[c] \in SessionRequest  BY <1>5, Kinds DEF Redeem, At, IInv
  <2>2. [requests[c] EXCEPT !.step = "check", !.token = t].step = "check"
    BY <2>1 DEF SessionRequest
  <2> QED  BY <1>2, <1>5, <2>2 DEF Redeem
<1>6. ASSUME NEW t \in Token, NEW s \in Token, NEW at \in Instant, Refresh(c, t, s, at)
      PROVE  Over
  BY <1>2, <1>6 DEF Refresh
<1>7. ASSUME NotOfTheWorkspace(c) PROVE Over
  <2>1. requests[c] # Nothing /\ requests[c].step = "check" /\ Step(c, "revoke")
    BY <1>7 DEF NotOfTheWorkspace, At
  <2>2. PICK request : request = [requests[c] EXCEPT !.step = "revoke"]  OBVIOUS
  <2>3. requests[c] \in SessionRequest  BY <2>1, Kinds DEF IInv
  <2>4. request.step = "revoke"  BY <2>2, <2>3 DEF SessionRequest
  <2>5. Serve(c, request)  BY <2>1, <2>2 DEF Step
  <2> QED  BY <1>2, <2>4, <2>5
<1>8. ASSUME \/ \E n \in Name : Mint(c, n)
             \/ RedeemRefused(c) \/ StillOfTheWorkspace(c) \/ RevokeOpened(c)
      PROVE  Over
  <2>1. Serve(c, Nothing)
    BY <1>8 DEF Mint, RedeemRefused, StillOfTheWorkspace, RevokeOpened
  <2> QED  BY <1>2, <2>1
<1>9. Over  BY <1>3, <1>4, <1>5, <1>6, <1>7, <1>8
<1>10. PICK request : /\ Serve(c, request)
                      /\ request = Nothing \/ request.step \notin {"first", "write"}
  BY <1>9 DEF Over
<1> QED  BY <1>0, <1>1, <1>10, OthersRestoreNothing

\* A pass that is asked for has what it found to end.
LEMMA AskingRestores ==
    ASSUME IInv, RestoringEnds, NEW c \in Caller, NEW who \in Scope,
           \/ Remove(c, who) \/ Leave(c, who) \/ Suspend(c, who)
           \/ Restore(c, who) \/ RestoreUnsuspended(c, who)
    PROVE  RestoringEnds'
<1>0. Goal  BY AccessAsked DEF IInv
<1>2. CASE Remove(c, who) \/ Restore(c, who)
  <2>1. PICK does, found : Asking(c, does, who, "first", found)
    BY <1>2 DEF Remove, Restore
  <2>2. Store!EndSessionsCalled(c, who)  BY <1>2 DEF Remove, Restore
  <2>3. PICK called : /\ called = [who |-> who, chains |-> Store!ChainsOf(who), codes |-> Store!CodesOf(who)]
                      /\ ending' = [ending EXCEPT ![c] = called]
    BY <2>2 DEF Store!EndSessionsCalled
  <2>4. called.chains = Store!ChainsOf(who)  BY <2>3
  <2>5. called # Nothing
    <3>1. called \in Store!EndCall
      <4>1. \A t \in Store!SessionsOf(who) : sessions[t].root \in Token
        BY DEF Store!SessionsOf, IInv, TypeOK, Store!TypeOK, Store!SessionRow
      <4> QED  BY <2>3, <4>1 DEF Store!EndCall, Store!ChainsOf, Store!CodesOf
    <3> QED  BY <3>1, NullAssumption
  <2>6. ending'[c] = called /\ \A d \in Caller \ {c} : ending'[d] = ending[d]
    BY <2>3 DEF IInv, S!IInv, S!TypeOK
  <2>7. PICK request : /\ request = [step |-> "first", does |-> does, who |-> who,
                                     chains |-> ChainsOf(who), found |-> found]
                       /\ Serve(c, request)
    BY <2>1 DEF Asking
  <2>8. request.step = "first" /\ request.chains = Store!ChainsOf(who)  BY <2>7 DEF ChainsOf
  <2>9. requests'[c] = request /\ \A d \in Caller \ {c} : requests'[d] = requests[d]
    BY <2>7 DEF Serve, IInv, TypeOK
  <2>10. Restores(c)'  BY <2>4, <2>5, <2>6, <2>8, <2>9 DEF Restores, At
  <2> QED  BY <1>0, <2>6, <2>9, <2>10, OneRestores
<1>3. CASE Leave(c, who) \/ Suspend(c, who) \/ RestoreUnsuspended(c, who)
  <2>1. PICK does : Asking(c, does, who, "write", FALSE)
    BY <1>3 DEF Leave, Suspend, RestoreUnsuspended
  <2>2. PICK request : /\ request = [step |-> "write", does |-> does, who |-> who,
                                     chains |-> ChainsOf(who), found |-> FALSE]
                       /\ Serve(c, request)
    BY <2>1 DEF Asking
  <2>3. request.step = "write" /\ request.found = FALSE  BY <2>2
  <2>4. ending' = ending  BY <1>3 DEF Leave, Suspend, RestoreUnsuspended, storeVars
  <2> QED  BY <1>0, <2>2, <2>3, <2>4, OthersRestoreNothing
<1> QED  BY <1>2, <1>3

\* The first pass ends every chain that the request found.
LEMMA FirstPassRestores ==
    ASSUME IInv, RestoringEnds, S!EndingOwnsItsChains, NEW c \in Caller, FirstPass(c)
    PROVE  RestoringEnds'
<1>0. Goal  BY AccessDone DEF IInv
<1>1. requests[c] \in AccessRequest /\ requests[c].step = "first"
  BY Kinds DEF FirstPass, At, IInv
<1>2. PICK request : request = [requests[c] EXCEPT !.step = "write"] /\ Serve(c, request)
  BY DEF FirstPass, Step
<1>3. request.step = "write" /\ request.chains = requests[c].chains
  BY <1>1, <1>2 DEF AccessRequest
<1>4. requests'[c] = request /\ \A d \in Caller \ {c} : requests'[d] = requests[d]
  BY <1>2 DEF Serve, IInv, TypeOK
<1>5. ending[c] # Nothing /\ ending[c].chains = requests[c].chains
  BY DEF RestoringEnds, Restores, FirstPass
<1>6. S!EndSessionsOf(c)
  BY DEF FirstPass, Store!EndSessionsOf, S!EndSessionsOf, Store!SessionsOf, S!SessionsOf,
         Store!CodesOf, S!CodesOf, Store!Revoking, S!Revoking, Store!Spending, S!Spending
<1>7. \A r \in request.chains : S!Ended(r)'
  BY <1>3, <1>5, <1>6, S!EndingStepEnds, StoreAssumptions DEF IInv
<1>8. request.chains \subseteq Token \cap issued'
  <2>1. request.chains \subseteq Token  BY <1>1, <1>3 DEF AccessRequest
  <2>2. request.chains \subseteq issued  BY <1>3, <1>5 DEF S!EndingOwnsItsChains
  <2> QED  BY <2>1, <2>2, <1>6 DEF S!EndSessionsOf
<1>9. \A d \in Caller \ {c} : ending'[d] = ending[d]
  BY <1>6 DEF S!EndSessionsOf, IInv, S!IInv, S!TypeOK
<1>10. Restores(c)'  BY <1>3, <1>4, <1>7, <1>8 DEF Restores, At
<1> QED  BY <1>0, <1>4, <1>9, <1>10, OneRestores

\* Whatever comes after the first pass restores nothing more.
LEMMA DoneRestores ==
    ASSUME IInv, RestoringEnds, NEW c \in Caller,
           \/ FirstPassFailed(c) \/ WriteRemoval(c) \/ WriteSuspension(c) \/ WriteBack(c)
           \/ WriteRefused(c) \/ SecondPassCalled(c) \/ SecondPass(c) \/ SecondPassFailed(c)
           \/ Stopped(c)
    PROVE  RestoringEnds'
<1>0. Goal  BY AccessDone DEF IInv
<1>1. \A d \in Caller \ {c} : ending'[d] = ending[d]
  BY DEF FirstPassFailed, WriteRemoval, WriteSuspension, WriteBack, WriteRefused, SecondPassCalled,
         SecondPass, SecondPassFailed, Stopped, storeVars, Store!EndSessionsFailed,
         Store!EndSessionsCalled, Store!EndSessionsOf, IInv, S!IInv, S!TypeOK
<1>2. CASE \/ FirstPassFailed(c) \/ WriteBack(c) \/ WriteRefused(c) \/ SecondPass(c)
           \/ SecondPassFailed(c) \/ Stopped(c)
  <2>1. Serve(c, Nothing)
    BY <1>2 DEF FirstPassFailed, WriteBack, WriteRefused, SecondPass, SecondPassFailed, Stopped
  <2> QED  BY <1>0, <1>1, <2>1, OthersRestoreNothing
<1>3. CASE WriteRemoval(c) \/ WriteSuspension(c)
  <2>1. requests[c] # Nothing /\ requests[c].step = "write" /\ Step(c, "second")
    BY <1>3 DEF WriteRemoval, WriteSuspension, At
  <2>2. PICK request \in Request : Moves(c, request) /\ request.step = "second"
    BY <2>1, StepMoves DEF IInv
  <2>3. Restores(c)'  BY <2>2 DEF Restores, At, Moves
  <2> QED  BY <1>0, <1>1, <2>2, <2>3, OneRestores DEF Moves
<1>4. CASE SecondPassCalled(c)
  <2>1. requests' = requests /\ requests[c].step = "second"  BY <1>4 DEF SecondPassCalled, At
  <2>2. Restores(c)'  BY <2>1 DEF Restores, At
  <2> QED  BY <1>0, <1>1, <2>1, <2>2, OneRestores
<1> QED  BY <1>2, <1>3, <1>4

LEMMA RestoringStep == IInv /\ S!EndingOwnsItsChains /\ RestoringEnds /\ [Next]_vars => RestoringEnds'
<1> SUFFICES ASSUME IInv, S!EndingOwnsItsChains, RestoringEnds, [Next]_vars PROVE RestoringEnds'
  OBVIOUS
<1>1. Goal  BY RoutesStep DEF IInv
<1>2. ASSUME requests' = requests, ending' = ending PROVE RestoringEnds'
  BY <1>1, <1>2, RestoresStill DEF RestoringEnds
<1>3. ASSUME NEW p \in Person, Join(p) PROVE RestoringEnds'
  BY <1>2, <1>3 DEF Join, storeVars
<1>4. CASE UNCHANGED vars
  BY <1>2, <1>4 DEF vars
<1>5. ASSUME NEW t \in Token, LogOut(t) PROVE RestoringEnds'
  BY <1>2, <1>5 DEF LogOut, Store!RevokeSession, Store!asked
<1>6. ASSUME NEW t \in Token, NEW at \in Instant, RefreshRefused(t, at) PROVE RestoringEnds'
  BY <1>2, <1>6 DEF RefreshRefused, Store!RotateLate, Store!RotateReplay, Store!asked
<1> QED
  BY <1>3, <1>4, <1>5, <1>6, SessionRequestsRestoreNothing, AskingRestores, FirstPassRestores,
     DoneRestores DEF Next

\* A restoration that found its account suspended gives back none of the sessions it found,
\* whatever failed before it and whatever refreshes ran meanwhile.
THEOREM RestoredFromNothingAlways == Spec => RestoredFromNothing
<1> DEFINE Gives == \A c \in Caller : WriteBack(c) /\ requests[c].found
                        => \A r \in requests[c].chains : Store!Ended(r)'
<1>1. Init => RestoringEnds
  BY DEF Init, RestoringEnds, Restores, At
<1>2. Spec => [](S!EndingOwnsItsChains)
  <2>1. S!Spec => [](S!IInv /\ S!EndingOwnsItsChains)  BY S!EndingOwns, StoreAssumptions
  <2>2. S!IInv /\ S!EndingOwnsItsChains => S!EndingOwnsItsChains  OBVIOUS
  <2>3. [Store!Next]_(Store!vars) => [S!Next]_(S!vars)  BY SameStore DEF Store!vars, S!vars
  <2>4. Store!Init => S!Init  BY SameStore
  <2> QED  BY <2>1, <2>2, <2>3, <2>4, RoutesUseTheStore, PTL DEF Store!Spec, S!Spec
<1>3. Spec => [](IInv /\ RestoringEnds)
  BY <1>1, <1>2, RestoringStep, Invariance, PTL DEF Spec
<1>4. ASSUME IInv, RestoringEnds PROVE Gives
  <2> SUFFICES ASSUME NEW c \in Caller, WriteBack(c), requests[c].found, NEW r \in requests[c].chains
               PROVE  Store!Ended(r)'
    OBVIOUS
  <2>1. S!Ended(r)  BY <1>4 DEF RestoringEnds, Restores, WriteBack
  <2>2. sessions' = sessions  BY DEF WriteBack, storeVars
  <2> QED  BY <2>1, <2>2 DEF S!Ended, S!Live, Store!Ended, Store!Live
<1>5. IInv /\ RestoringEnds => [Gives]_vars
  BY <1>4
<1> HIDE DEF Gives
<1>6. Spec => [][Gives]_vars
  BY <1>3, <1>5, PTL
<1> QED  BY <1>6 DEF Gives, RestoredFromNothing
=============================================================================
