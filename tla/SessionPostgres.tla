--------------------------- MODULE SessionPostgres ---------------------------
(***************************************************************************)
(* The session store on PostgreSQL, one step per SQL statement             *)
(* (apps/worker/src/session-postgres.ts), and what READ COMMITTED gives a  *)
(* statement:                                                               *)
(*                                                                          *)
(*   - it finds its rows in one snapshot: what is committed when it starts,  *)
(*     and what its own transaction wrote;                                   *)
(*   - it then takes the rows one at a time and locks each.  A row that      *)
(*     another transaction holds is waited for, and its WHERE is read again   *)
(*     on the version that the other one left.  A row written after the      *)
(*     snapshot is never seen;                                               *)
(*   - SELECT ... ORDER BY token_hash FOR UPDATE takes them in that order,   *)
(*     UPDATE and DELETE take them in any order;                             *)
(*   - COMMIT shows every write at once and releases the rows.  A wait cycle *)
(*     costs one of its transactions.                                        *)
(*                                                                          *)
(* Digests are integers, and their order is that of the column: a draw may   *)
(* give any of them.  `now` is read when a call starts and never again.      *)
(***************************************************************************)
EXTENDS Integers

CONSTANTS Token, Code, Person, Scope, Name, Email, Caller,
          SessionTtl, PairingTtl, Grace,
          MaxClock,    \* the bound on the clock
          Ops,         \* the operations that a run lets callers start
          NoRow, NoToken, Nothing,
          Nobody,      \* holds the rows that no transaction holds
          Untouched    \* a row that a transaction did not write

Digest == Token \cup Code
NotRotated == -1

SessionRow == [subject: Person, name: Name, email: Email, expires: Nat, revoked: BOOLEAN,
               rotated: Nat \cup {NotRotated}, pred: Token \cup {NoToken}, root: Token, code: Code]

CodeRow == [subject: Person, name: Name, email: Email, expires: Nat, redeemed: BOOLEAN]

\* The rows as a caller knows them: SessionOf and CodeOf leave the address out.
KnownSession == [subject: Person, name: Name, expires: Nat, revoked: BOOLEAN,
                 rotated: Nat \cup {NotRotated}, pred: Token \cup {NoToken}, root: Token, code: Code]

KnownCode == [subject: Person, name: Name, expires: Nat, redeemed: BOOLEAN]

\* What a caller keeps of the call it is in: `does` is its statement, `todo` the rows
\* that this found and did not take yet, `pc` where it goes on.
Op == {"pair", "refresh", "logout", "end", "rename", "readdress"}
Does == {"hold", "revoke", "mark", "delete", "redeem", "spend", "nameSession", "nameCode"}
Place == {"start", "codesPurged", "purgeSessions", "sessionsPurged", "readCode", "spendCode",
          "openSession", "holdChain", "decide", "sweepHead", "insertSuccessor", "markRotated",
          "retire", "revokeToken", "revokeChain", "endSessions", "endCodes", "holdSessions",
          "rewriteSessions", "rewriteCodes", "commit"}
CallRecord ==
    [op: Op, pc: Place, does: Does, todo: SUBSET Digest, at: 0..MaxClock,
     key: Digest \cup {NoToken}, root: Token \cup {NoToken}, keep: Token \cup {NoToken},
     email: Email \cup {Nothing}, who: SUBSET Person, chains: SUBSET Token, codes: SUBSET Code,
     set: Name \cup Email \cup {Nothing}]

ASSUME DigestAssumption == Token \subseteq Nat /\ Code \subseteq Nat /\ Token \cap Code = {}
ASSUME ClockAssumption == MaxClock \in Nat
ASSUME TtlAssumption == SessionTtl \in Nat /\ PairingTtl \in Nat /\ Grace \in Nat
ASSUME ScopeAssumption == Scope \subseteq SUBSET Person
ASSUME OpsAssumption == Ops \subseteq Op
ASSUME NullAssumption ==
    /\ NoRow \notin SessionRow \cup CodeRow \cup KnownSession \cup KnownCode
    /\ Untouched \notin SessionRow \cup CodeRow \cup {NoRow}
    /\ NoToken \notin Digest
    /\ Nobody \notin Caller
    /\ Nothing \notin CallRecord
    /\ Nothing \notin [who: Scope, chains: SUBSET Token, codes: SUBSET Code]
    /\ Nothing \notin [who: Scope, chains: SUBSET Token, codes: SUBSET Code,
                       name: Name, at: 0..MaxClock]

VARIABLES table,   \* the committed rows of both tables, by digest
          draft,   \* what each transaction wrote and did not commit
          holder,  \* the transaction that holds each row
          calls,   \* the call that each caller is in
          issued,  \* the digests ever committed
          clock

rows == <<table, draft, holder>>
vars == <<table, draft, holder, calls, issued, clock>>

View(c) == [k \in Digest |-> IF draft[c][k] = Untouched THEN table[k] ELSE draft[c][k]]

Present(c) == {k \in Digest : View(c)[k] # NoRow}

SessionsOf(who) == {t \in Token : table[t] # NoRow /\ table[t].subject \in who}
CodesOf(who) == {k \in Code : table[k] # NoRow /\ table[k].subject \in who}

\* A head has no root_hash: chainOf names it its own root.  A sweep by root_hash
\* does not reach it, which is why revokeChain writes the head on its own.
Links(c, root) == {t \in Present(c) \cap Token : View(c)[t].root = root /\ t # root}

-----------------------------------------------------------------------------
(* A statement.                                                             *)

\* The part of a WHERE that a row can leave: the rest names columns that
\* nothing writes twice.
Applies(call, row) ==
    CASE call.does = "hold"         -> TRUE
      [] call.does = "revoke"       -> ~row.revoked
      [] call.does = "mark"         -> row.rotated = NotRotated
      [] call.does = "delete"       -> row.expires <= call.at
      [] call.does = "redeem"       -> ~row.redeemed
      [] call.does = "spend"        -> ~row.redeemed /\ call.at < row.expires
      [] call.does = "nameSession"  -> ~row.revoked /\ call.at < row.expires
      [] call.does = "nameCode"     -> ~row.redeemed /\ call.at < row.expires

Result(call, row) ==
    CASE call.does = "hold"         -> Untouched
      [] call.does = "revoke"       -> [row EXCEPT !.revoked = TRUE]
      [] call.does = "mark"         -> [row EXCEPT !.rotated = call.at]
      [] call.does = "delete"       -> NoRow
      [] call.does \in {"redeem", "spend"} -> [row EXCEPT !.redeemed = TRUE]
      [] call.does \in {"nameSession", "nameCode"} ->
            IF call.op = "rename" THEN [row EXCEPT !.name = call.set]
                                  ELSE [row EXCEPT !.email = call.set]

\* A call runs a statement on these rows, and goes on at `next` when it is done.
Running(c, call, does, found, next) ==
    LET run == [call EXCEPT !.does = does, !.pc = next]
    IN [run EXCEPT !.todo = {k \in found \cap Present(c) : Applies(run, View(c)[k])}]

Run(c, does, found, next) ==
    /\ calls' = [calls EXCEPT ![c] = Running(c, calls[c], does, found, next)]
    /\ UNCHANGED <<rows, issued, clock>>

\* The call is in a transaction, between two statements.
At(c, pc) == calls[c] # Nothing /\ calls[c].pc = pc /\ calls[c].todo = {}

\* A hold takes its rows in the order of their digests.
NextRows(call) == {k \in call.todo : call.does = "hold" => \A j \in call.todo : k <= j}

\* The statement takes one more row.  It holds the row even when the row no
\* longer answers its WHERE: it locked the version it read again.
Visit(c) ==
    /\ calls[c] # Nothing
    /\ \E k \in NextRows(calls[c]) :
        /\ holder[k] \in {Nobody, c}
        /\ calls' = [calls EXCEPT ![c].todo = @ \ {k}]
        /\ IF View(c)[k] = NoRow
           THEN UNCHANGED rows
           ELSE /\ holder' = [holder EXCEPT ![k] = c]
                /\ draft' = IF calls[c].does # "hold" /\ Applies(calls[c], View(c)[k])
                            THEN [draft EXCEPT ![c][k] = Result(calls[c], View(c)[k])]
                            ELSE draft
                /\ UNCHANGED table
    /\ UNCHANGED <<issued, clock>>

Insert(c, k, row, next) ==
    /\ draft' = [draft EXCEPT ![c][k] = row]
    /\ calls' = [calls EXCEPT ![c].pc = next]
    /\ UNCHANGED <<table, holder, issued, clock>>

\* A digest that no committed row had and no transaction is about to commit.
Fresh(t) == t \notin issued /\ \A d \in Caller : draft[d][t] = Untouched

Released(c) == [k \in Digest |-> IF holder[k] = c THEN Nobody ELSE holder[k]]

Clean(c) == [draft EXCEPT ![c] = [k \in Digest |-> Untouched]]

\* COMMIT.  The call goes on outside of the transaction, or answers.
CommitThen(c, call) ==
    /\ table' = View(c)
    /\ issued' = issued \cup Present(c)
    /\ draft' = Clean(c)
    /\ holder' = Released(c)
    /\ calls' = [calls EXCEPT ![c] = call]
    /\ UNCHANGED clock

\* Mutant of Commit: the COMMIT is sent on another connection of the pool.
CommitElsewhere(c) ==
    /\ At(c, "commit")
    /\ calls' = [calls EXCEPT ![c] = Nothing]
    /\ UNCHANGED <<rows, issued, clock>>

Commit(c) == At(c, "commit") /\ CommitThen(c, Nothing)

Init ==
    /\ table = [k \in Digest |-> NoRow]
    /\ draft = [c \in Caller |-> [k \in Digest |-> Untouched]]
    /\ holder = [k \in Digest |-> Nobody]
    /\ calls = [c \in Caller |-> Nothing]
    /\ issued = {}
    /\ clock = 0

\* A call, before its first statement.  Fields that an operation has no use for
\* keep these values.
Call(op) ==
    [op |-> op, pc |-> "start", does |-> "hold", todo |-> {}, at |-> clock,
     key |-> NoToken, root |-> NoToken, keep |-> NoToken, email |-> Nothing,
     who |-> {}, chains |-> {}, codes |-> {}, set |-> Nothing]

Free(c, op) == op \in Ops /\ calls[c] = Nothing

-----------------------------------------------------------------------------
(* createPairing, and redeemPairing with the purge it starts with.          *)

\* One INSERT, in no transaction.
CreatePairing(k, p, n, e) ==
    /\ Fresh(k)
    /\ table' = [table EXCEPT ![k] =
            [subject |-> p, name |-> n, email |-> e, expires |-> clock + PairingTtl,
             redeemed |-> FALSE]]
    /\ issued' = issued \cup {k}
    /\ UNCHANGED <<draft, holder, calls, clock>>

PairCalled(c, k) ==
    /\ Free(c, "pair")
    /\ calls' = [calls EXCEPT ![c] =
            Running(c, [Call("pair") EXCEPT !.key = k], "delete", Code, "codesPurged")]
    /\ UNCHANGED <<rows, issued, clock>>

\* Each DELETE of the purge commits on its own.
PurgedCodes(c) ==
    /\ At(c, "codesPurged")
    /\ CommitThen(c, [calls[c] EXCEPT !.pc = "purgeSessions"])

PurgeSessions(c) == At(c, "purgeSessions") /\ Run(c, "delete", Token, "sessionsPurged")

PurgedSessions(c) ==
    /\ At(c, "sessionsPurged")
    /\ CommitThen(c, [calls[c] EXCEPT !.pc = "readCode"])

\* The identity, read with no lock.
ReadCode(c) ==
    /\ At(c, "readCode")
    /\ LET row == table[calls[c].key]
       IN calls' = [calls EXCEPT ![c] =
            IF row = NoRow THEN [@ EXCEPT !.pc = "commit"]
                           ELSE [@ EXCEPT !.pc = "spendCode", !.email = row.email]]
    /\ UNCHANGED <<rows, issued, clock>>

SpendCode(c) == At(c, "spendCode") /\ Run(c, "spend", {calls[c].key}, "openSession")

\* The name is the one that the spend returned, the email the one read before.
OpenSession(c) ==
    /\ At(c, "openSession")
    /\ draft[c][calls[c].key] # Untouched
    /\ \E t \in Token :
        /\ Fresh(t)
        /\ Insert(c, t,
            [subject |-> draft[c][calls[c].key].subject, name |-> draft[c][calls[c].key].name,
             email |-> calls[c].email, expires |-> calls[c].at + SessionTtl, revoked |-> FALSE,
             rotated |-> NotRotated, pred |-> NoToken, root |-> t, code |-> calls[c].key],
            "commit")

\* Another call spent the code, or it expired.
NotSpent(c) ==
    /\ At(c, "openSession")
    /\ draft[c][calls[c].key] = Untouched
    /\ calls' = [calls EXCEPT ![c].pc = "commit"]
    /\ UNCHANGED <<rows, issued, clock>>

-----------------------------------------------------------------------------
(* rotateSession and revokeSession.                                         *)

\* holdChain reads the root of the chain with no lock: it never changes.  An
\* unknown token has nothing to rotate or to end.
ChainCalled(c, op, t) ==
    /\ Free(c, op)
    /\ table[t] # NoRow
    /\ calls' = [calls EXCEPT ![c] =
            [Call(op) EXCEPT !.key = t, !.root = table[t].root, !.pc = "holdChain"]]
    /\ UNCHANGED <<rows, issued, clock>>

\* Mutant of HoldChain: two rotations of a token read it at once.
HoldNothing(c) ==
    /\ At(c, "holdChain")
    /\ Run(c, "hold", {}, IF calls[c].op = "refresh" THEN "decide" ELSE "revokeToken")

HoldChain(c) ==
    /\ At(c, "holdChain")
    /\ Run(c, "hold", {calls[c].root, calls[c].key},
           IF calls[c].op = "refresh" THEN "decide" ELSE "revokeToken")

\* Mutant of Gone: the expiry of the token is not read.
GoneWhateverItsAge(c) ==
    LET row == View(c)[calls[c].key]
    IN row # NoRow =>
          /\ row.revoked
          /\ \A t \in Links(c, calls[c].root) \cup ({calls[c].root} \cap Present(c)) :
                View(c)[t].revoked

\* What the four cases of decide find.  The token is read again, now that its
\* chain is held, and chainHasLive reads the chain.
Gone(c) ==
    LET row == View(c)[calls[c].key]
    IN row # NoRow =>
          \/ row.expires <= calls[c].at
          \/ /\ row.revoked
             /\ \A t \in Links(c, calls[c].root) \cup ({calls[c].root} \cap Present(c)) :
                    View(c)[t].revoked

Rotated(c) == View(c)[calls[c].key].rotated # NotRotated

Late(c) == Rotated(c) /\ calls[c].at > View(c)[calls[c].key].rotated + Grace

DecideGone(c) ==
    /\ At(c, "decide")
    /\ Gone(c)
    /\ calls' = [calls EXCEPT ![c].pc = "commit"]
    /\ UNCHANGED <<rows, issued, clock>>

\* revokeChain, over the whole chain or all of it but the token that stays.
Sweep(c, keep, next) ==
    /\ calls' = [calls EXCEPT ![c] =
            Running(c, [@ EXCEPT !.keep = keep], "revoke",
                    Links(c, calls[c].root) \ {keep}, next)]
    /\ UNCHANGED <<rows, issued, clock>>

\* A replay, or a token past the grace: the chain goes.
DecideEnd(c) ==
    /\ At(c, "decide")
    /\ ~Gone(c)
    /\ View(c)[calls[c].key].revoked \/ Late(c)
    /\ Sweep(c, NoToken, "sweepHead")

\* A retry inside the grace: the successor that nobody received is dropped.
DecideAgain(c) ==
    /\ At(c, "decide")
    /\ ~Gone(c)
    /\ ~View(c)[calls[c].key].revoked
    /\ Rotated(c) /\ ~Late(c)
    /\ Sweep(c, calls[c].key, "sweepHead")

DecideFirst(c) ==
    /\ At(c, "decide")
    /\ ~Gone(c)
    /\ ~View(c)[calls[c].key].revoked
    /\ ~Rotated(c)
    /\ calls' = [calls EXCEPT ![c].pc = "insertSuccessor"]
    /\ UNCHANGED <<rows, issued, clock>>

\* Mutant of SweepHead: the retry drops the successor and issues no other.
SweepHeadAndAnswer(c) ==
    /\ At(c, "sweepHead")
    /\ Run(c, "revoke", {calls[c].root} \ {calls[c].keep}, "commit")

SweepHead(c) ==
    /\ At(c, "sweepHead")
    /\ Run(c, "revoke", {calls[c].root} \ {calls[c].keep},
           IF calls[c].keep = NoToken THEN "commit" ELSE "insertSuccessor")

InsertSuccessor(c) ==
    /\ At(c, "insertSuccessor")
    /\ \E s \in Token :
        /\ Fresh(s)
        /\ Insert(c, s,
            [View(c)[calls[c].key] EXCEPT !.pred = calls[c].key, !.root = calls[c].root,
                                          !.rotated = NotRotated, !.revoked = FALSE],
            "markRotated")

MarkRotated(c) == At(c, "markRotated") /\ Run(c, "mark", {calls[c].key}, "retire")

\* The predecessor is not held: only the head and the token are.
Retire(c) ==
    /\ At(c, "retire")
    /\ Run(c, "revoke", {View(c)[calls[c].key].pred}, "commit")

\* A log out.
RevokeToken(c) == At(c, "revokeToken") /\ Run(c, "revoke", {calls[c].key}, "revokeChain")

RevokeChain(c) == At(c, "revokeChain") /\ Sweep(c, NoToken, "sweepHead")

-----------------------------------------------------------------------------
(* endSessionsOf and rewriteSessionsOf: the calls on a person.              *)

\* Mutant of EndCalled: the rows are not held before they are ended.
EndCalledUnheld(c, who) ==
    /\ Free(c, "end")
    /\ LET call == [Call("end") EXCEPT !.who = who, !.codes = CodesOf(who),
                        !.chains = {table[t].root : t \in SessionsOf(who)}]
       IN calls' = [calls EXCEPT ![c] = [call EXCEPT !.pc = "endSessions"]]
    /\ UNCHANGED <<rows, issued, clock>>

\* The call and its first statement are one step: it holds nothing before.
EndCalled(c, who) ==
    /\ Free(c, "end")
    /\ LET call == [Call("end") EXCEPT !.who = who, !.codes = CodesOf(who),
                        !.chains = {table[t].root : t \in SessionsOf(who)}]
       IN calls' = [calls EXCEPT ![c] =
            Running(c, call, "hold", SessionsOf(who), "endSessions")]
    /\ UNCHANGED <<rows, issued, clock>>

EndSessions(c) ==
    /\ At(c, "endSessions")
    /\ Run(c, "revoke", SessionsOf(calls[c].who), "endCodes")

EndCodes(c) ==
    /\ At(c, "endCodes")
    /\ Run(c, "redeem", CodesOf(calls[c].who), "commit")

RewriteCalled(c, op, who, value) ==
    /\ Free(c, op)
    /\ LET call == [Call(op) EXCEPT !.who = who, !.codes = CodesOf(who), !.set = value,
                        !.chains = {table[t].root : t \in SessionsOf(who)}]
       IN calls' = [calls EXCEPT ![c] =
            Running(c, call, "hold", CodesOf(who), "holdSessions")]
    /\ UNCHANGED <<rows, issued, clock>>

\* Mutant of HoldSessions: the sessions are not held before they are renamed.
HoldNoSession(c) == At(c, "holdSessions") /\ Run(c, "hold", {}, "rewriteSessions")

HoldSessions(c) ==
    /\ At(c, "holdSessions")
    /\ Run(c, "hold", SessionsOf(calls[c].who), "rewriteSessions")

RewriteSessions(c) ==
    /\ At(c, "rewriteSessions")
    /\ Run(c, "nameSession", SessionsOf(calls[c].who), "rewriteCodes")

RewriteCodes(c) ==
    /\ At(c, "rewriteCodes")
    /\ Run(c, "nameCode", CodesOf(calls[c].who), "commit")

-----------------------------------------------------------------------------
(* What else happens to a transaction.                                      *)

Waits(c) ==
    /\ calls[c] # Nothing
    /\ calls[c].todo # {}
    /\ \A k \in NextRows(calls[c]) : holder[k] \notin {Nobody, c}

WaitsFor(c, d) == Waits(c) /\ \E k \in NextRows(calls[c]) : holder[k] = d

\* The callers wait for each other, in a circle.
Deadlocked(circle) ==
    /\ circle # {}
    /\ \A c \in circle : (\E d \in circle : WaitsFor(c, d)) /\ (\E d \in circle : WaitsFor(d, c))

\* ROLLBACK: the call throws, and its caller answers 502.
Rollback(c) ==
    /\ draft' = Clean(c)
    /\ holder' = Released(c)
    /\ calls' = [calls EXCEPT ![c] = Nothing]
    /\ UNCHANGED <<table, issued, clock>>

\* PostgreSQL ends one transaction of a circle.
Victim(c) == (\E circle \in SUBSET Caller : c \in circle /\ Deadlocked(circle)) /\ Rollback(c)

\* The connection is lost, or the worker stops: what is not committed is not done.
Lost(c) == calls[c] # Nothing /\ Rollback(c)

\* The bound on draws: a call that finds no digest left stops as if it were lost.
OutOfDigests(c) ==
    /\ At(c, "insertSuccessor") \/ (At(c, "openSession") /\ draft[c][calls[c].key] # Untouched)
    /\ ~\E t \in Token : Fresh(t)
    /\ Rollback(c)

Tick ==
    /\ clock < MaxClock
    /\ clock' = clock + 1
    /\ UNCHANGED <<rows, calls, issued>>

\* The next step of the call of this caller, between two rows of a statement.
Statement(c) ==
    \/ PurgedCodes(c) \/ PurgeSessions(c) \/ PurgedSessions(c)
    \/ ReadCode(c) \/ SpendCode(c) \/ OpenSession(c) \/ NotSpent(c)
    \/ HoldChain(c) \/ DecideGone(c) \/ DecideEnd(c) \/ DecideAgain(c) \/ DecideFirst(c)
    \/ SweepHead(c) \/ InsertSuccessor(c) \/ MarkRotated(c) \/ Retire(c)
    \/ RevokeToken(c) \/ RevokeChain(c)
    \/ EndSessions(c) \/ EndCodes(c)
    \/ HoldSessions(c) \/ RewriteSessions(c) \/ RewriteCodes(c)
    \/ Commit(c) \/ OutOfDigests(c)

Called(c) ==
    \/ \E k \in Code \cap issued : PairCalled(c, k)
    \/ \E t \in Token, op \in {"refresh", "logout"} : ChainCalled(c, op, t)
    \/ \E who \in Scope : EndCalled(c, who)
    \/ \E who \in Scope, n \in Name : RewriteCalled(c, "rename", who, n)
    \/ \E who \in Scope, e \in Email : RewriteCalled(c, "readdress", who, e)

Next ==
    \/ \E k \in Code, p \in Person, n \in Name, e \in Email : CreatePairing(k, p, n, e)
    \/ \E c \in Caller : Called(c)
    \/ \E c \in Caller : Statement(c)
    \/ \E c \in Caller : Visit(c)
    \/ \E c \in Caller : Victim(c)
    \/ \E c \in Caller : Lost(c)
    \/ Tick

Spec == Init /\ [][Next]_vars

\* A worker goes on with a call it started, and PostgreSQL breaks a circle of
\* waits.  A row is given to those who wait for it in the order they came, so a
\* statement that could take its row again and again does take it.
FairSpec ==
    /\ Spec
    /\ \A c \in Caller : WF_vars(Statement(c)) /\ SF_vars(Visit(c)) /\ WF_vars(Victim(c))

-----------------------------------------------------------------------------
(* What the callers are promised.                                           *)

Asked(op) == {c \in Caller : calls[c] # Nothing /\ calls[c].op = op}

\* A committed session as the promise knows it, with the field that `label`
\* chooses as its name.
SessionOf(t, label) ==
    IF table[t] = NoRow THEN NoRow
    ELSE [subject |-> table[t].subject, name |-> table[t][label], expires |-> table[t].expires,
          revoked |-> table[t].revoked, rotated |-> table[t].rotated, pred |-> table[t].pred,
          root |-> table[t].root, code |-> table[t].code]

CodeOf(k, label) ==
    IF table[k] = NoRow THEN NoRow
    ELSE [subject |-> table[k].subject, name |-> table[k][label],
          expires |-> table[k].expires, redeemed |-> table[k].redeemed]

EndingOf(c) ==
    IF c \in Asked("end")
    THEN [who |-> calls[c].who, chains |-> calls[c].chains, codes |-> calls[c].codes]
    ELSE Nothing

RewritingOf(c, op) ==
    IF c \in Asked(op)
    THEN [who |-> calls[c].who, chains |-> calls[c].chains, codes |-> calls[c].codes,
          name |-> calls[c].set, at |-> calls[c].at]
    ELSE Nothing

Promise == INSTANCE SessionPromise WITH
    Instant <- 0..MaxClock,
    sessions <- [t \in Token |-> SessionOf(t, "name")],
    pairings <- [k \in Code |-> CodeOf(k, "name")],
    ending <- [c \in Caller |-> EndingOf(c)],
    renaming <- [c \in Caller |-> RewritingOf(c, "rename")]

\* Every step of a statement is a step the promise allows, or changes nothing
\* that a caller can see.
\* Promise!Spec, with the stuttering step, which is the usual one, tried first.
PromiseIsKept ==
    Promise!Init /\ [][UNCHANGED Promise!vars \/ Promise!Next]_(Promise!vars)

Joined(root) == {t \in Token : table[t] # NoRow /\ table[t].root = root /\ t # root}

\* "No reachable state has the head as the only live row" of a chain where a token
\* was revoked: chainHasLive finds a live token by root_hash, and a replay ends its
\* chain, even though the head carries no root_hash.
HeadIsNeverAlone ==
    \A r \in Token :
        /\ table[r] # NoRow /\ table[r].root = r /\ ~table[r].revoked
        /\ \E t \in Joined(r) : table[t].revoked
        => \E t \in Joined(r) : ~table[t].revoked
=============================================================================
