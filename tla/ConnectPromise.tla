---------------------------- MODULE ConnectPromise ----------------------------
(***************************************************************************)
(* What a request of the extension becomes (apps/worker/src/connect.ts,     *)
(* ConnectStore): it waits, it is answered once, by one account, it is        *)
(* claimed once, and what a claim opens is a session of the account that      *)
(* approved.  A request that is forgotten never comes back.                   *)
(***************************************************************************)

CONSTANTS Request, Account, Connection, Nobody, NoSession

VARIABLES stages,     \* of each request: [at, by]
          sessions    \* of each connection

vars == <<stages, sessions>>

Stage(at, by) == [at |-> at, by |-> by]

Init ==
    /\ stages = [r \in Request |-> Stage("new", Nobody)]
    /\ sessions = [k \in Connection |-> NoSession]

Moves(r, from, to) ==
    /\ stages[r] = from
    /\ stages' = [stages EXCEPT ![r] = to]

Ask(r) == Moves(r, Stage("new", Nobody), Stage("pending", Nobody)) /\ UNCHANGED sessions

Approve(r, a) ==
    /\ Moves(r, Stage("pending", Nobody), Stage("approved", a))
    /\ UNCHANGED sessions

Refuse(r) == Moves(r, Stage("pending", Nobody), Stage("refused", Nobody)) /\ UNCHANGED sessions

Claim(r, a, k) ==
    /\ Moves(r, Stage("approved", a), Stage("claimed", a))
    /\ sessions[k] = NoSession
    /\ sessions' = [sessions EXCEPT ![k] = [request |-> r, account |-> a, live |-> TRUE]]

Forget(gone) ==
    /\ \A r \in gone : stages[r].at # "new"
    /\ stages' = [r \in Request |-> IF r \in gone THEN Stage("gone", Nobody) ELSE stages[r]]
    /\ UNCHANGED sessions

End(ended) ==
    /\ \A k \in ended : sessions[k] # NoSession
    /\ sessions' = [k \in Connection |->
            IF k \in ended THEN [sessions[k] EXCEPT !.live = FALSE] ELSE sessions[k]]
    /\ UNCHANGED stages

Next ==
    \/ \E r \in Request : Ask(r) \/ Refuse(r)
    \/ \E r \in Request, a \in Account : Approve(r, a)
    \/ \E r \in Request, a \in Account, k \in Connection : Claim(r, a, k)
    \/ \E gone \in SUBSET Request : Forget(gone)
    \/ \E ended \in SUBSET Connection : End(ended)

Spec == Init /\ [][Next]_vars
=============================================================================
