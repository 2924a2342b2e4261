---------------------------- MODULE SessionRoutes ----------------------------
(***************************************************************************)
(* Who keeps a session: the routes that open and refresh one               *)
(* (session-routes.ts), and the handlers that make somebody a stranger or    *)
(* let them back: a removal and a departure (auth.ts, auth-organization.ts), *)
(* a suspension, a restoration and a deletion (instance-admin.ts,            *)
(* console-api.ts).                                                          *)
(*                                                                           *)
(* A request is a few calls of the session store and of the accounts, and     *)
(* other requests run between two of them.  The store is SessionPromise: what *)
(* it promises is all that this module relies on, and endSessionsOf promises  *)
(* less than "no session is left": a redemption in flight may escape it.      *)
(***************************************************************************)
EXTENDS Integers

CONSTANTS Token, Code, Person, Scope, Name, Caller, Instant,
          SessionTtl, PairingTtl, Grace, NoRow, NoToken, Nothing

VARIABLES sessions, pairings, issued, ending, renaming,
          members,     \* of the workspace of the persons
          suspended,   \* whose account is suspended
          requests,    \* the request that each caller serves
          failed       \* a request stopped, or a pass over the sessions failed

storeVars == <<sessions, pairings, issued, ending, renaming>>
vars == <<sessions, pairings, issued, ending, renaming, members, suspended, requests, failed>>
access == <<members, suspended>>

Store == INSTANCE SessionPromise

\* A request that opens or refreshes a session, from the person it is for.
SessionRequest == [step: {"mint", "redeem", "check", "revoke"}, person: Person,
                   token: Token \cup {NoToken}, code: Code, at: Instant]

\* A request that changes what somebody may do.  `chains` are the sessions they had
\* when it started, `found` is what isSuspended answered to a restoration.
AccessRequest == [step: {"first", "write", "second"}, does: {"remove", "suspend", "restore"},
                  who: Scope, chains: SUBSET Token, found: BOOLEAN]

\* A call that names nobody throws, so no scope is empty.
ASSUME ScopeAssumption == Scope \subseteq (SUBSET Person) \ {{}}
ASSUME TimeAssumption == /\ Instant \subseteq Nat
                         /\ SessionTtl \in Nat /\ PairingTtl \in Nat /\ Grace \in Nat
ASSUME NullAssumption ==
    /\ NoToken \notin Token
    /\ NoRow \notin Store!SessionRow /\ NoRow \notin Store!PairingRow
    /\ Nothing \notin Store!EndCall /\ Nothing \notin Store!RenameCall
    /\ Nothing \notin SessionRequest \cup AccessRequest

TypeOK ==
    /\ Store!TypeOK
    /\ members \subseteq Person
    /\ suspended \subseteq Person
    /\ requests \in [Caller -> SessionRequest \cup AccessRequest \cup {Nothing}]
    /\ failed \in BOOLEAN

\* What roleIn and accountActive read: a suspended account has no role anywhere.
active == members \ suspended

Init ==
    /\ Store!Init
    /\ members = Person
    /\ suspended = {}
    /\ requests = [c \in Caller |-> Nothing]
    /\ failed = FALSE

At(c, step) == requests[c] # Nothing /\ requests[c].step = step

Serve(c, request) == requests' = [requests EXCEPT ![c] = request]

Step(c, step) == Serve(c, [requests[c] EXCEPT !.step = step])

-----------------------------------------------------------------------------
(* A code, and the session it buys.                                         *)

\* The console mints a code for whoever asks, once it has read that they may.
MintAllowed(c, k, p, at) ==
    /\ requests[c] = Nothing
    /\ p \in active
    /\ Serve(c, [step |-> "mint", person |-> p, token |-> NoToken, code |-> k, at |-> at])
    /\ UNCHANGED <<storeVars, access, failed>>

Mint(c, n) ==
    /\ At(c, "mint")
    /\ Store!CreatePairing(requests[c].code, requests[c].person, n, requests[c].at)
    /\ Serve(c, Nothing)
    /\ UNCHANGED <<access, failed>>

\* POST /session/pair.  It purges, then redeems, at the one instant it read.
Pair(c, k, at) ==
    /\ requests[c] = Nothing
    /\ pairings[k] # NoRow
    /\ Store!Purge(at)
    /\ Serve(c, [step |-> "redeem", person |-> pairings[k].subject, token |-> NoToken,
                 code |-> k, at |-> at])
    /\ UNCHANGED <<access, failed>>

\* Mutant of Redeem: the digest of the code in the place of the one of the token.
RedeemForTheCode(c, t) ==
    /\ At(c, "redeem")
    /\ Store!RedeemPairing(requests[c].code, t, requests[c].at)
    /\ Serve(c, [requests[c] EXCEPT !.step = "check", !.token = requests[c].code])
    /\ UNCHANGED <<access, failed>>

Redeem(c, t) ==
    /\ At(c, "redeem")
    /\ Store!RedeemPairing(requests[c].code, t, requests[c].at)
    /\ Serve(c, [requests[c] EXCEPT !.step = "check", !.token = t])
    /\ UNCHANGED <<access, failed>>

\* The code is spent or expired: 401.
RedeemRefused(c) ==
    /\ At(c, "redeem")
    /\ \/ pairings[requests[c].code] = NoRow
       \/ pairings[requests[c].code].redeemed
       \/ pairings[requests[c].code].expires <= requests[c].at
    /\ Serve(c, Nothing)
    /\ UNCHANGED <<storeVars, access, failed>>

-----------------------------------------------------------------------------
(* POST /session/refresh and POST /session/revoke.                          *)

\* The answer of a rotation is checked before it is given.
Refresh(c, t, s, at) ==
    /\ requests[c] = Nothing
    /\ Store!RotateFirst(t, s, at) \/ Store!RotateAgain(t, s, at)
    /\ \E k \in Code : Serve(c, [step |-> "check", person |-> sessions[t].subject, token |-> s,
                                 code |-> k, at |-> at])
    /\ UNCHANGED <<access, failed>>

\* 401 for a replay and for a token past its grace.
RefreshRefused(t, at) ==
    /\ Store!RotateLate(t, at) \/ Store!RotateReplay(t, at)
    /\ UNCHANGED <<access, requests, failed>>

LogOut(t) ==
    /\ Store!RevokeSession(t)
    /\ UNCHANGED <<access, requests, failed>>

\* Mutant of StillOfTheWorkspace: the answer of the store is given as it is.
AnswerUnchecked(c) ==
    /\ At(c, "check")
    /\ Serve(c, Nothing)
    /\ UNCHANGED <<storeVars, access, failed>>

\* stillOfTheWorkspace: the second lock.
StillOfTheWorkspace(c) ==
    /\ At(c, "check")
    /\ requests[c].person \in active
    /\ Serve(c, Nothing)
    /\ UNCHANGED <<storeVars, access, failed>>

NotOfTheWorkspace(c) ==
    /\ At(c, "check")
    /\ requests[c].person \notin active
    /\ Step(c, "revoke")
    /\ UNCHANGED <<storeVars, access, failed>>

RevokeOpened(c) ==
    /\ At(c, "revoke")
    /\ \/ Store!RevokeSession(requests[c].token)
       \/ sessions[requests[c].token] = NoRow /\ UNCHANGED storeVars
    /\ Serve(c, Nothing)
    /\ UNCHANGED <<access, failed>>

-----------------------------------------------------------------------------
(* Somebody goes, or comes back.                                            *)

ChainsOf(who) == Store!ChainsOf(who)

Asking(c, does, who, step, found) ==
    Serve(c, [step |-> step, does |-> does, who |-> who, chains |-> ChainsOf(who),
              found |-> found])

\* removeMember, and the deletion of an account: their sessions end before the
\* write, and once more after it.
Remove(c, who) ==
    /\ requests[c] = Nothing
    /\ who \cap members # {}
    /\ Store!EndSessionsCalled(c, who)
    /\ Asking(c, "remove", who, "first", FALSE)
    /\ UNCHANGED <<access, failed>>

\* A departure, and the deletion of a workspace, write first.
Leave(c, who) ==
    /\ requests[c] = Nothing
    /\ who \cap members # {}
    /\ Asking(c, "remove", who, "write", FALSE)
    /\ UNCHANGED <<storeVars, access, failed>>

\* changeSuspension.  A suspension that changes nothing ends the sessions again.
Suspend(c, who) ==
    /\ requests[c] = Nothing
    /\ Asking(c, "suspend", who, "write", FALSE)
    /\ UNCHANGED <<storeVars, access, failed>>

\* Mutant of Restore: the account is restored with the sessions it had.
RestoreAtOnce(c, who) ==
    /\ requests[c] = Nothing
    /\ who \subseteq suspended
    /\ Asking(c, "restore", who, "write", TRUE)
    /\ UNCHANGED <<storeVars, access, failed>>

\* A restoration of an account that it reads as suspended ends its sessions, then
\* commits.
Restore(c, who) ==
    /\ requests[c] = Nothing
    /\ who \subseteq suspended
    /\ Store!EndSessionsCalled(c, who)
    /\ Asking(c, "restore", who, "first", TRUE)
    /\ UNCHANGED <<access, failed>>

\* It reads an account that is not suspended, ends nothing, and writes all the same.
RestoreUnsuspended(c, who) ==
    /\ requests[c] = Nothing
    /\ who \cap suspended = {}
    /\ Asking(c, "restore", who, "write", FALSE)
    /\ UNCHANGED <<storeVars, access, failed>>

FirstPass(c) ==
    /\ At(c, "first")
    /\ Store!EndSessionsOf(c)
    /\ Step(c, "write")
    /\ UNCHANGED <<access, failed>>

\* Nothing is written after a first pass that failed.
FirstPassFailed(c) ==
    /\ At(c, "first")
    /\ Store!EndSessionsFailed(c)
    /\ Serve(c, Nothing)
    /\ UNCHANGED <<access, failed>>

WriteRemoval(c) ==
    /\ At(c, "write")
    /\ requests[c].does = "remove"
    /\ members' = members \ requests[c].who
    /\ Step(c, "second")
    /\ UNCHANGED <<storeVars, suspended, failed>>

WriteSuspension(c) ==
    /\ At(c, "write")
    /\ requests[c].does = "suspend"
    /\ suspended' = suspended \cup requests[c].who
    /\ Step(c, "second")
    /\ UNCHANGED <<storeVars, members, failed>>

WriteBack(c) ==
    /\ At(c, "write")
    /\ requests[c].does = "restore"
    /\ suspended' = suspended \ requests[c].who
    /\ Serve(c, Nothing)
    /\ UNCHANGED <<storeVars, members, failed>>

\* The actor is not an administrator any more, or the last one would go: no pass
\* follows a write that was refused.
WriteRefused(c) ==
    /\ At(c, "write")
    /\ Serve(c, Nothing)
    /\ UNCHANGED <<storeVars, access, failed>>

SecondPassCalled(c) ==
    /\ At(c, "second")
    /\ Store!EndSessionsCalled(c, requests[c].who)
    /\ UNCHANGED <<access, requests, failed>>

SecondPass(c) ==
    /\ At(c, "second")
    /\ Store!EndSessionsOf(c)
    /\ Serve(c, Nothing)
    /\ UNCHANGED <<access, failed>>

\* A removal says nothing of it, the others answer an error: nobody tries again.
SecondPassFailed(c) ==
    /\ At(c, "second")
    /\ Store!EndSessionsFailed(c)
    /\ Serve(c, Nothing)
    /\ failed' = TRUE
    /\ UNCHANGED access

\* Somebody accepts an invitation: no pass over their sessions goes before it.
Join(p) ==
    /\ members' = members \cup {p}
    /\ UNCHANGED <<storeVars, suspended, requests, failed>>

\* The worker stops, or the accounts cannot be read: the request is over.  A pass
\* that was running is rolled back.
Stopped(c) ==
    /\ requests[c] # Nothing
    /\ \/ ending[c] = Nothing /\ UNCHANGED storeVars
       \/ Store!EndSessionsFailed(c)
    /\ Serve(c, Nothing)
    /\ failed' = TRUE
    /\ UNCHANGED access

Next ==
    \/ \E c \in Caller, k \in Code, p \in Person, at \in Instant : MintAllowed(c, k, p, at)
    \/ \E c \in Caller, n \in Name : Mint(c, n)
    \/ \E c \in Caller, k \in Code, at \in Instant : Pair(c, k, at)
    \/ \E c \in Caller, t \in Token : Redeem(c, t)
    \/ \E c \in Caller : RedeemRefused(c)
    \/ \E c \in Caller, t, s \in Token, at \in Instant : Refresh(c, t, s, at)
    \/ \E t \in Token, at \in Instant : RefreshRefused(t, at)
    \/ \E t \in Token : LogOut(t)
    \/ \E c \in Caller :
          \/ StillOfTheWorkspace(c) \/ NotOfTheWorkspace(c) \/ RevokeOpened(c)
          \/ FirstPass(c) \/ FirstPassFailed(c)
          \/ WriteRemoval(c) \/ WriteSuspension(c) \/ WriteBack(c) \/ WriteRefused(c)
          \/ SecondPassCalled(c) \/ SecondPass(c) \/ SecondPassFailed(c)
          \/ Stopped(c)
    \/ \E p \in Person : Join(p)
    \/ \E c \in Caller, who \in Scope :
          \/ Remove(c, who) \/ Leave(c, who) \/ Suspend(c, who)
          \/ Restore(c, who) \/ RestoreUnsuspended(c, who)

Spec == Init /\ [][Next]_vars

-----------------------------------------------------------------------------
\* Once the requests that concern a person are over and none of them failed, a
\* person who is not active has no live session: neither the two passes nor the
\* check after the store answers would be enough alone.
Settled(p) ==
    \A c \in Caller : requests[c] # Nothing =>
        IF "who" \in DOMAIN requests[c] THEN p \notin requests[c].who
                                        ELSE requests[c].person # p

StrangersHaveNoSession ==
    \A p \in Person : p \notin active /\ ~failed /\ Settled(p)
        => \A t \in Store!SessionsOf({p}) : ~Store!Live(t)

\* "A session that a failed suspension left live is ended before the account can
\* act again": a restoration that read the suspension gives back none of the
\* sessions it found, whatever failed before it and whatever refreshes meanwhile.
RestoredFromNothing ==
    [][\A c \in Caller : WriteBack(c) /\ requests[c].found
          => \A r \in requests[c].chains : Store!Ended(r)']_vars
=============================================================================
