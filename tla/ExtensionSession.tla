-------------------------- MODULE ExtensionSession --------------------------
(***************************************************************************)
(* The session that the browser extension holds with one worker              *)
(* (apps/extension/src/session.ts, session-storage.ts): its refresh token in  *)
(* storage.local under a key per run, the epoch that says which run counts,   *)
(* and the access token in storage.session.                                   *)
(*                                                                           *)
(* Every page of the extension and its background are a CONTEXT with its own  *)
(* `refreshing` map; they share the two storage areas, which have no           *)
(* transaction and no compare-and-set, and the worker, which is                *)
(* SessionPromise.  One access to storage or one answer of the worker is one   *)
(* step.  A generation is drawn with the refresh token it is stored with, so a *)
(* grant is known here by that token.                                          *)
(***************************************************************************)
EXTENDS Integers, FiniteSets

CONSTANTS Token, Code, Person, Name, Instant, SessionTtl, PairingTtl, Grace,
          NoRow, NoToken, Nothing,
          Context,    \* where calls refresh: the background, and the pages that call the worker
          Page,       \* the contexts where a reviewer pairs and logs out
          MaxEpoch,   \* bound: how many epochs a run of the model draws
          MaxAdrift,  \* bound: how many late requests the network keeps
          MaxCalls    \* bound: how many calls are under way at once

ASSUME NullAssumption == NoToken \notin Token
ASSUME BoundAssumption == MaxEpoch \in Nat /\ MaxAdrift \in Nat /\ MaxCalls \in Nat

VARIABLES sessions, pairings, issued,  \* the worker
          runs,        \* storage.local: the refresh token under the key of each run
          epoch,       \* storage.local: the run that counts
          grant,       \* storage.session: the token that the access token is of
          refreshing,  \* the refresh under way in each context
          clicks,      \* the pairing or the log out under way in each page
          adrift,      \* requests that the worker may still receive, and nobody waits for
          last,        \* ghost: the chain of the last pairing, none after a log out
          doubled      \* ghost: two contexts spent one token at once, or a retry overtook its request

store == <<sessions, pairings, issued>>
local == <<runs, epoch, last>>
vars == <<sessions, pairings, issued, runs, epoch, grant,
          refreshing, clicks, adrift, last, doubled>>

\* Nobody ends or renames the sessions of a person in this module.
Store == INSTANCE SessionPromise WITH
            Caller <- {}, Scope <- {}, ending <- <<>>, renaming <- <<>>

\* An epoch is known by how many were drawn before it: none comes back.  0 is the
\* one of an endpoint that was never paired: no key.
Epoch == 0..MaxEpoch

Tokens == Token \cup {NoToken}

Refresh == [step: {"asked", "issued", "put", "look", "sweep",
                   "refused", "end", "after", "session", "grant", "drop"},
            spent: Token, at: Epoch, token: Tokens, gone: SUBSET Epoch]

Click == [step: {"pair", "adopt", "grant", "put", "look", "sweep",
                 "revoke", "forget", "drop", "dropping"},
          code: Code \cup {Nothing}, at: Epoch, token: Tokens, gone: SUBSET Epoch,
          dropped: BOOLEAN]

Request == [asks: {"refresh", "revoke"}, token: Token]

TypeOK ==
    /\ Store!TypeOK
    /\ runs \in [Epoch -> Tokens]
    /\ epoch \in Epoch
    /\ grant \in Tokens
    /\ refreshing \in [Context -> Refresh \cup {Nothing}]
    /\ clicks \in [Page -> Click \cup {Nothing}]
    /\ adrift \subseteq Request
    /\ last \in Tokens
    /\ doubled \in BOOLEAN

\* The worker has no row, and a context does nothing.
ASSUME NothingAssumption ==
    /\ Nothing \notin Refresh \cup Click
    /\ NoRow \notin Store!SessionRow /\ NoRow \notin Store!PairingRow

ASSUME TimeAssumption == /\ Instant \subseteq Nat
                         /\ SessionTtl \in Nat /\ PairingTtl \in Nat /\ Grace \in Nat

-----------------------------------------------------------------------------
\* sessions.read(): one snapshot, and the run of its epoch alone (stillOpen).
held == runs[epoch]

\* `matches`: the grant was minted for the session that is there now.
MatchesWhatever(g) == g # NoToken
Matches(g) == g # NoToken /\ g = held

Root(t) == sessions[t].root

\* The snapshot that `put` and `drop` remove from.
RunsOver == {e \in Epoch : runs[e] # NoToken /\ e # epoch}
RunsHeld == {e \in Epoch : runs[e] # NoToken}

Init ==
    /\ Store!Init
    /\ runs = [e \in Epoch |-> NoToken]
    /\ epoch = 0
    /\ grant = NoToken
    /\ refreshing = [x \in Context |-> Nothing]
    /\ clicks = [p \in Page |-> Nothing]
    /\ adrift = {}
    /\ last = NoToken
    /\ doubled = FALSE

Refreshing(x, step) == refreshing[x] # Nothing /\ refreshing[x].step = step

RefreshGoes(x, call) == refreshing' = [refreshing EXCEPT ![x] = call]

RefreshStep(x, step) == RefreshGoes(x, [refreshing[x] EXCEPT !.step = step])

Clicked(p, step) == clicks[p] # Nothing /\ clicks[p].step = step

ClickGoes(p, call) == clicks' = [clicks EXCEPT ![p] = call]

ClickStep(p, step) == ClickGoes(p, [clicks[p] EXCEPT !.step = step])

\* One more call may start, within the bound.
MayCall ==
    Cardinality({x \in Context : refreshing[x] # Nothing})
        + Cardinality({p \in Page : clicks[p] # Nothing}) < MaxCalls

\* Requests that nobody waits for any more: each is lost, or arrives later.
StillReceived(requests) ==
    {left \in SUBSET (adrift \cup requests) :
        adrift \subseteq left /\ (left = adrift \/ Cardinality(left) <= MaxAdrift)}

-----------------------------------------------------------------------------
(* A refresh: refreshOnce, refresh, keepIfCurrent and endSpent.             *)

\* The access token is stale, of another session, or refused by a route.  Another
\* call of this context would join the refresh under way.
RefreshStarts(x) ==
    /\ refreshing[x] = Nothing
    /\ MayCall
    /\ held # NoToken
    /\ RefreshGoes(x, [step |-> "asked", spent |-> held, at |-> epoch,
                       token |-> NoToken, gone |-> {}])
    /\ doubled' = (\/ doubled
                   \/ \E y \in Context : refreshing[y] # Nothing /\ refreshing[y].spent = held)
    /\ UNCHANGED <<store, local, grant, clicks, adrift>>

\* A request of this token that is adrift can only arrive later than this one now.
Rotated(x, s, at) ==
    /\ Refreshing(x, "asked")
    /\ \/ Store!RotateFirst(refreshing[x].spent, s, at)
       \/ Store!RotateAgain(refreshing[x].spent, s, at)
    /\ RefreshGoes(x, [refreshing[x] EXCEPT !.step = "issued", !.token = s])
    /\ doubled' = (doubled \/ [asks |-> "refresh", token |-> refreshing[x].spent] \in adrift)
    /\ UNCHANGED <<local, grant, clicks, adrift>>

\* Expired, or of a chain that has no live token.
Dead(t, at) ==
    \/ at >= sessions[t].expires
    \/ \A u \in Store!Chain(Root(t)) : ~Store!Live(u)

\* 401.
Refused(x, at) ==
    /\ Refreshing(x, "asked")
    /\ \/ Store!RotateLate(refreshing[x].spent, at)
       \/ Store!RotateReplay(refreshing[x].spent, at)
       \/ Dead(refreshing[x].spent, at) /\ UNCHANGED store
    /\ RefreshStep(x, "refused")
    /\ UNCHANGED <<local, grant, clicks, adrift, doubled>>

\* keepIfCurrent compares and stamps with one read: what it writes later is of the
\* run it read, whatever happened since.
KeepIfCurrent(x) ==
    /\ Refreshing(x, "issued")
    /\ IF held = refreshing[x].spent
       THEN RefreshGoes(x, [refreshing[x] EXCEPT !.step = "put", !.at = epoch])
       ELSE RefreshGoes(x, Nothing)
    /\ UNCHANGED <<store, local, grant, clicks, adrift, doubled>>

\* Mutant of Put: the stamp is of the run that counts when the write leaves.
PutInTheRunNow(x) ==
    /\ Refreshing(x, "put")
    /\ runs' = [runs EXCEPT ![epoch] = refreshing[x].token]
    /\ RefreshStep(x, "look")
    /\ UNCHANGED <<store, epoch, last, grant, clicks, adrift, doubled>>

\* sessions.put: the write, then a snapshot, then the runs that it shows as over.
Put(x) ==
    /\ Refreshing(x, "put")
    /\ runs' = [runs EXCEPT ![refreshing[x].at] = refreshing[x].token]
    /\ RefreshStep(x, "look")
    /\ UNCHANGED <<store, epoch, last, grant, clicks, adrift, doubled>>

PutLooked(x) ==
    /\ Refreshing(x, "look")
    /\ RefreshGoes(x, [refreshing[x] EXCEPT !.step = "sweep", !.gone = RunsOver])
    /\ UNCHANGED <<store, local, grant, clicks, adrift, doubled>>

PutSwept(x, e) ==
    /\ Refreshing(x, "sweep")
    /\ e \in refreshing[x].gone
    /\ runs' = [runs EXCEPT ![e] = NoToken]
    /\ RefreshGoes(x, [refreshing[x] EXCEPT !.gone = @ \ {e}])
    /\ UNCHANGED <<store, epoch, last, grant, clicks, adrift, doubled>>

WriteGrant(x) ==
    /\ Refreshing(x, "sweep")
    /\ refreshing[x].gone = {}
    /\ grant' = refreshing[x].token
    /\ RefreshGoes(x, Nothing)
    /\ UNCHANGED <<store, local, clicks, adrift, doubled>>

\* Mutant of EndLooked: a refused refresh clears the endpoint, whatever it holds.
EndWhatIsHeld(x) ==
    /\ Refreshing(x, "refused")
    /\ RefreshGoes(x, [refreshing[x] EXCEPT !.step = "end", !.at = epoch])
    /\ UNCHANGED <<store, local, grant, clicks, adrift, doubled>>

\* endSpent: the run that was read is removed while it holds the token it spent.
EndLooked(x) ==
    /\ Refreshing(x, "refused")
    /\ RefreshStep(x, IF runs[refreshing[x].at] = refreshing[x].spent THEN "end" ELSE "after")
    /\ UNCHANGED <<store, local, grant, clicks, adrift, doubled>>

End(x) ==
    /\ Refreshing(x, "end")
    /\ runs' = [runs EXCEPT ![refreshing[x].at] = NoToken]
    /\ RefreshStep(x, "after")
    /\ UNCHANGED <<store, epoch, last, grant, clicks, adrift, doubled>>

\* The session and the grant are read at once, and answer in either order.
AfterSession(x) ==
    /\ Refreshing(x, "after")
    /\ RefreshGoes(x, [refreshing[x] EXCEPT !.step = "session", !.token = held])
    /\ UNCHANGED <<store, local, grant, clicks, adrift, doubled>>

AfterGrant(x) ==
    /\ Refreshing(x, "after")
    /\ RefreshGoes(x, [refreshing[x] EXCEPT !.step = "grant", !.token = grant])
    /\ UNCHANGED <<store, local, grant, clicks, adrift, doubled>>

\* The grant goes unless it belongs to a session that storage still holds.
AfterBoth(x) ==
    /\ \/ /\ Refreshing(x, "session") /\ grant # NoToken /\ grant # refreshing[x].token
          /\ RefreshStep(x, "drop")
       \/ /\ Refreshing(x, "session") /\ grant \in {NoToken, refreshing[x].token}
          /\ RefreshGoes(x, Nothing)
       \/ /\ Refreshing(x, "grant") /\ refreshing[x].token \notin {NoToken, held}
          /\ RefreshStep(x, "drop")
       \/ /\ Refreshing(x, "grant") /\ refreshing[x].token \in {NoToken, held}
          /\ RefreshGoes(x, Nothing)
    /\ UNCHANGED <<store, local, grant, clicks, adrift, doubled>>

EndDropped(x) ==
    /\ Refreshing(x, "drop")
    /\ grant' = NoToken
    /\ RefreshGoes(x, Nothing)
    /\ UNCHANGED <<store, local, clicks, adrift, doubled>>

\* No answer, an answer that is neither 200 nor 401, a page that closes, a service
\* worker that stops, a write that storage refuses.  The worker may still receive
\* what was asked.
RefreshStops(x) ==
    /\ refreshing[x] # Nothing
    /\ RefreshGoes(x, Nothing)
    /\ adrift' \in StillReceived(IF refreshing[x].step = "asked"
                                THEN {[asks |-> "refresh", token |-> refreshing[x].spent]}
                                ELSE {})
    /\ UNCHANGED <<store, local, grant, clicks, doubled>>

-----------------------------------------------------------------------------
(* A pairing: pair and adopt.  A claim of a sign-in is kept the same way.    *)

\* The reviewer gives a code that the console just minted.  What an old code answers
\* is a refusal, as in ClickStops.
Pair(p, k) ==
    /\ clicks[p] = Nothing
    /\ MayCall
    /\ \E who \in Person, n \in Name, at \in Instant : Store!CreatePairing(k, who, n, at)
    /\ ClickGoes(p, [step |-> "pair", code |-> k, at |-> 0, token |-> NoToken,
                     gone |-> {}, dropped |-> FALSE])
    /\ UNCHANGED <<local, grant, refreshing, adrift, doubled>>

Paired(p, t, at) ==
    /\ Clicked(p, "pair")
    /\ Store!RedeemPairing(clicks[p].code, t, at)
    /\ ClickGoes(p, [clicks[p] EXCEPT !.step = "adopt", !.token = t])
    /\ UNCHANGED <<local, grant, refreshing, adrift, doubled>>

\* A new epoch ends the run that counted, and starts one for this chain or for none.
NewEpoch(chain) ==
    /\ epoch < MaxEpoch
    /\ epoch' = epoch + 1
    /\ last' = chain
    /\ UNCHANGED runs

Adopt(p) ==
    /\ Clicked(p, "adopt")
    /\ NewEpoch(clicks[p].token)
    /\ ClickGoes(p, [clicks[p] EXCEPT !.step = "grant", !.at = epoch + 1])
    /\ UNCHANGED <<store, grant, refreshing, adrift, doubled>>

\* Mutant of AdoptGrant: the code in the place of the token.
AdoptGrantOfTheCode(p) ==
    /\ Clicked(p, "grant")
    /\ grant' = clicks[p].code
    /\ ClickStep(p, "put")
    /\ UNCHANGED <<store, local, refreshing, adrift, doubled>>

\* The grant before the session it belongs to.
AdoptGrant(p) ==
    /\ Clicked(p, "grant")
    /\ grant' = clicks[p].token
    /\ ClickStep(p, "put")
    /\ UNCHANGED <<store, local, refreshing, adrift, doubled>>

AdoptSession(p) ==
    /\ Clicked(p, "put")
    /\ runs' = [runs EXCEPT ![clicks[p].at] = clicks[p].token]
    /\ ClickStep(p, "look")
    /\ UNCHANGED <<store, epoch, last, grant, refreshing, adrift, doubled>>

AdoptLooked(p) ==
    /\ Clicked(p, "look")
    /\ ClickGoes(p, [clicks[p] EXCEPT !.step = "sweep", !.gone = RunsOver])
    /\ UNCHANGED <<store, local, grant, refreshing, adrift, doubled>>

-----------------------------------------------------------------------------
(* A log out: the worker first, then the new epoch, then the two drops.      *)

LogOut(p) ==
    /\ clicks[p] = Nothing
    /\ MayCall
    /\ ClickGoes(p, [step |-> IF held = NoToken THEN "forget" ELSE "revoke", code |-> Nothing,
                     at |-> 0, token |-> held, gone |-> {}, dropped |-> FALSE])
    /\ UNCHANGED <<store, local, grant, refreshing, adrift, doubled>>

Revoked(p) ==
    /\ Clicked(p, "revoke")
    /\ Store!RevokeSession(clicks[p].token)
    /\ ClickStep(p, "forget")
    /\ UNCHANGED <<local, grant, refreshing, adrift, doubled>>

\* The local clear happens whatever the call answers.
RevokeUnanswered(p) ==
    /\ Clicked(p, "revoke")
    /\ ClickStep(p, "forget")
    /\ adrift' \in StillReceived({[asks |-> "revoke", token |-> clicks[p].token]})
    /\ UNCHANGED <<store, local, grant, refreshing, doubled>>

\* Mutant of Forget: the credentials are dropped, and no epoch is minted.
ForgetOnlyDrops(p) ==
    /\ Clicked(p, "forget")
    /\ last' = NoToken
    /\ ClickStep(p, "drop")
    /\ UNCHANGED <<store, runs, epoch, grant, refreshing, adrift, doubled>>

Forget(p) ==
    /\ Clicked(p, "forget")
    /\ NewEpoch(NoToken)
    /\ ClickStep(p, "drop")
    /\ UNCHANGED <<store, grant, refreshing, adrift, doubled>>

\* Storage refused the epoch: the drops run all the same.
ForgetUnmarked(p) ==
    /\ Clicked(p, "forget")
    /\ ClickStep(p, "drop")
    /\ UNCHANGED <<store, local, grant, refreshing, adrift, doubled>>

DropLooked(p) ==
    /\ Clicked(p, "drop")
    /\ ClickGoes(p, [clicks[p] EXCEPT !.step = "dropping", !.gone = RunsHeld])
    /\ UNCHANGED <<store, local, grant, refreshing, adrift, doubled>>

DropGrant(p) ==
    /\ Clicked(p, "drop") \/ Clicked(p, "dropping")
    /\ ~clicks[p].dropped
    /\ grant' = NoToken
    /\ ClickGoes(p, [clicks[p] EXCEPT !.dropped = TRUE])
    /\ UNCHANGED <<store, local, refreshing, adrift, doubled>>

\* The loop of `put` and the one of `drop`: one key removed at a time.
ClickSwept(p, e) ==
    /\ Clicked(p, "sweep") \/ Clicked(p, "dropping")
    /\ e \in clicks[p].gone
    /\ runs' = [runs EXCEPT ![e] = NoToken]
    /\ ClickGoes(p, [clicks[p] EXCEPT !.gone = @ \ {e}])
    /\ UNCHANGED <<store, epoch, last, grant, refreshing, adrift, doubled>>

ClickDone(p) ==
    /\ Clicked(p, "sweep") \/ (Clicked(p, "dropping") /\ clicks[p].dropped)
    /\ clicks[p].gone = {}
    /\ ClickGoes(p, Nothing)
    /\ UNCHANGED <<store, local, grant, refreshing, adrift, doubled>>

\* Refused, unanswered, or the page closes.
ClickStops(p) ==
    /\ clicks[p] # Nothing
    /\ ClickGoes(p, Nothing)
    /\ adrift' \in StillReceived(IF clicks[p].step = "revoke"
                                THEN {[asks |-> "revoke", token |-> clicks[p].token]}
                                ELSE {})
    /\ UNCHANGED <<store, local, grant, refreshing, doubled>>

-----------------------------------------------------------------------------
(* What happens outside: late requests, the console, the browser.            *)

AdriftHandled(r, s, at) ==
    /\ r \in adrift
    /\ \/ /\ r.asks = "refresh"
          /\ \/ Store!RotateFirst(r.token, s, at)
             \/ Store!RotateAgain(r.token, s, at)
             \/ Store!RotateLate(r.token, at)
             \/ Store!RotateReplay(r.token, at)
       \/ r.asks = "revoke" /\ Store!RevokeSession(r.token)
    /\ adrift' = adrift \ {r}
    /\ UNCHANGED <<local, grant, refreshing, clicks, doubled>>

\* The browser empties storage.session, and every context is gone.
BrowserCloses ==
    /\ grant' = NoToken
    /\ refreshing' = [x \in Context |-> Nothing]
    /\ clicks' = [p \in Page |-> Nothing]
    /\ adrift' \in StillReceived(
            {[asks |-> "refresh", token |-> refreshing[x].spent] :
                x \in {y \in Context : Refreshing(y, "asked")}}
            \cup {[asks |-> "revoke", token |-> clicks[p].token] :
                p \in {q \in Page : Clicked(q, "revoke")}})
    /\ UNCHANGED <<store, local, doubled>>

Next ==
    \/ \E x \in Context :
        \/ RefreshStarts(x) \/ KeepIfCurrent(x) \/ Put(x) \/ PutLooked(x) \/ WriteGrant(x)
        \/ EndLooked(x) \/ End(x) \/ AfterSession(x) \/ AfterGrant(x) \/ AfterBoth(x)
        \/ EndDropped(x) \/ RefreshStops(x)
        \/ \E e \in Epoch : PutSwept(x, e)
        \/ \E at \in Instant : Refused(x, at) \/ \E s \in Token : Rotated(x, s, at)
    \/ \E p \in Page :
        \/ LogOut(p) \/ Revoked(p) \/ RevokeUnanswered(p) \/ Forget(p) \/ ForgetUnmarked(p)
        \/ DropLooked(p) \/ DropGrant(p) \/ ClickDone(p) \/ ClickStops(p)
        \/ Adopt(p) \/ AdoptGrant(p) \/ AdoptSession(p) \/ AdoptLooked(p)
        \/ \E e \in Epoch : ClickSwept(p, e)
        \/ \E k \in Code : Pair(p, k)
        \/ \E t \in Token, at \in Instant : Paired(p, t, at)
    \/ \E r \in adrift : \E s \in Token, at \in Instant : AdriftHandled(r, s, at)
    \/ BrowserCloses

Spec == Init /\ [][Next]_vars

-----------------------------------------------------------------------------
(* Properties.                                                               *)

\* The session that storage answers is of the last pairing, and there is none after a
\* log out, whatever a refresh of another context was about to write; no other access
\* token is honoured (FRU-61, FRU-64, FRU-65).
HeldIsOfTheLastPairing ==
    /\ held # NoToken => Root(held) = last
    /\ Matches(grant) => Root(grant) = last

\* While no two contexts spent one token at once and no retry was answered before the
\* request it repeats, the refresh token that storage answers is not revoked unless its whole
\* chain is: a lost answer, a late request that arrives before its retry, a page that closes
\* or a restart of the browser never leaves the extension with the token of another branch.
\* The worker may still refuse a live token that was rotated, once the grace passed, and ends
\* its chain then (RotateLate); and a late request after its retry revokes what is held.
HeldTokenIsLive ==
    held # NoToken /\ (\E u \in Store!Chain(Root(held)) : Store!Live(u)) /\ ~doubled
        => Store!Live(held)

\* A session leaves the extension by a log out, by a new pairing, or after the worker
\* ended its chain: a refused refresh takes no pairing made since with it.
OnlyTheDeadAreEnded ==
    [][held # NoToken /\ held' = NoToken /\ epoch' = epoch
        => \/ \E p \in Page : Clicked(p, "dropping") /\ clicks'[p] # clicks[p]
           \/ \E at \in Instant : Dead(held, at)]_vars
=============================================================================
