--------------------------- MODULE ConnectRequests ---------------------------
(***************************************************************************)
(* How a browser is connected to an account: the extension asks and claims,  *)
(* the console answers (connect-routes.ts), over the table of the requests   *)
(* (createPostgresConnectStore of session-postgres.ts), while an             *)
(* administrator suspends accounts and brings them back.                     *)
(*                                                                          *)
(* A request of HTTP is a few statements, each on its own: the row a          *)
(* statement changes is read again by its WHERE, so a statement is one step.  *)
(* The transaction of a claim is one step too: what it holds is the row of    *)
(* its request, and every other statement on that row waits for it.  The      *)
(* reads that a route starts with are one step: what runs between them may    *)
(* run after the last.                                                        *)
(* A connection is a chain of sessions, live or ended.                        *)
(***************************************************************************)
EXTENDS Integers, FiniteSets

CONSTANTS Request, Account, Connection, Caller,
          MaxLive,     \* MAX_LIVE_REQUESTS
          MaxMisses,   \* MAX_WORD_MISSES
          Ttl,         \* CONNECT_TTL_SECONDS
          MaxClock,    \* the bound on the clock
          NoRow, Nothing, Nobody, NoSession

Row == [outcome: {"none", "approved", "refused"}, account: Account \cup {Nobody},
        claimed: BOOLEAN, misses: Nat, expires: Nat]

Session == [request: Request, account: Account, live: BOOLEAN]

\* `word`: the word of the body is the one of the row.
StartCall == [step: {"count", "insert"}, at: Nat]
AnswerCall == [step: {"miss", "answer"}, at: Nat, request: Request, account: Account,
               outcome: {"approved", "refused"}, word: BOOLEAN]
ClaimCall == [step: {"open", "spend"}, request: Request, account: Account]

ASSUME LimitsAssumption == MaxLive \in Nat \ {0} /\ MaxMisses \in Nat \ {0} /\ Ttl \in Nat
\* The calls that run at once are finitely many.
ASSUME CallersAssumption == IsFiniteSet(Caller)
ASSUME NullAssumption ==
    /\ Nobody \notin Account
    /\ NoRow \notin Row
    /\ NoSession \notin Session
    /\ Nothing \notin StartCall \cup AnswerCall \cup ClaimCall

VARIABLES table,     \* connect_requests
          asked,     \* the requests ever made
          sessions,  \* the connections
          active,    \* the accounts that are there and not suspended
          calls,     \* the call that each caller serves
          heard,     \* the wrong words each request in the table was answered with: a history
          clock

vars == <<table, asked, sessions, active, calls, heard, clock>>

TypeOK ==
    /\ table \in [Request -> Row \cup {NoRow}]
    /\ asked \subseteq Request
    /\ sessions \in [Connection -> Session \cup {NoSession}]
    /\ active \subseteq Account
    /\ calls \in [Caller -> StartCall \cup AnswerCall \cup ClaimCall \cup {Nothing}]
    /\ heard \in [Request -> Nat]
    /\ clock \in Nat

Init ==
    /\ table = [r \in Request |-> NoRow]
    /\ asked = {}
    /\ sessions = [k \in Connection |-> NoSession]
    /\ active = Account
    /\ calls = [c \in Caller |-> Nothing]
    /\ heard = [r \in Request |-> 0]
    /\ clock = 0

At(c, step) == calls[c] # Nothing /\ calls[c].step = step

Serve(c, call) == calls' = [calls EXCEPT ![c] = call]

Starts(c, call) == calls[c] = Nothing /\ Serve(c, call)

GoesOn(c, step) == Serve(c, [calls[c] EXCEPT !.step = step])

Answers(c) == Serve(c, Nothing)

\* The WHERE of each answer: nobody answered, nobody claimed, not expired.
Waiting(r, at) ==
    /\ table[r] # NoRow
    /\ table[r].outcome = "none"
    /\ ~table[r].claimed
    /\ at < table[r].expires

-----------------------------------------------------------------------------
(* POST /session/connect.                                                   *)

Expired == {r \in Request : table[r] # NoRow /\ table[r].expires <= clock}

\* It starts with a purge.
StartCalled(c) ==
    /\ Starts(c, [step |-> "count", at |-> clock])
    /\ table' = [r \in Request |-> IF r \in Expired THEN NoRow ELSE table[r]]
    /\ heard' = [r \in Request |-> IF r \in Expired THEN 0 ELSE heard[r]]
    /\ UNCHANGED <<asked, sessions, active, clock>>

\* Mutant of Counted: one place more.
CountedWithOneMore(c) ==
    /\ At(c, "count")
    /\ Cardinality({r \in Request : Waiting(r, calls[c].at)}) <= MaxLive
    /\ GoesOn(c, "insert")
    /\ UNCHANGED <<table, asked, sessions, active, heard, clock>>

Counted(c) ==
    /\ At(c, "count")
    /\ Cardinality({r \in Request : Waiting(r, calls[c].at)}) < MaxLive
    /\ GoesOn(c, "insert")
    /\ UNCHANGED <<table, asked, sessions, active, heard, clock>>

Busy(c) ==
    /\ At(c, "count")
    /\ Cardinality({r \in Request : Waiting(r, calls[c].at)}) >= MaxLive
    /\ Answers(c)
    /\ UNCHANGED <<table, asked, sessions, active, heard, clock>>

\* Counted, then written: in no transaction.
Created(c, r) ==
    /\ At(c, "insert")
    /\ r \notin asked
    /\ table' = [table EXCEPT ![r] =
            [outcome |-> "none", account |-> Nobody, claimed |-> FALSE, misses |-> 0,
             expires |-> calls[c].at + Ttl]]
    /\ asked' = asked \cup {r}
    /\ Answers(c)
    /\ UNCHANGED <<sessions, active, heard, clock>>

-----------------------------------------------------------------------------
(* POST /console/connect/<request>/approve and /refuse.                     *)

AnswerStarts(c, step, r, a, outcome, word) ==
    /\ a \in active
    /\ Starts(c, [step |-> step, at |-> clock, request |-> r, account |-> a,
                  outcome |-> outcome, word |-> word])
    /\ UNCHANGED <<table, asked, sessions, active, heard, clock>>

\* The word is compared only while the request waits.
WordDiffers(c, r, a) == Waiting(r, clock) /\ AnswerStarts(c, "miss", r, a, "approved", FALSE)

WordAgrees(c, r, a, word) ==
    /\ table[r] # NoRow
    /\ Waiting(r, clock) => word
    /\ AnswerStarts(c, "answer", r, a, "approved", word)

\* A refusal takes no word.
Refuses(c, r, a) == table[r] # NoRow /\ AnswerStarts(c, "answer", r, a, "refused", FALSE)

\* Mutant of Missed: the last word allowed leaves the request to answer.
MissedForEver(c) ==
    LET r == calls[c].request IN
    /\ At(c, "miss")
    /\ Waiting(r, calls[c].at)
    /\ table' = [table EXCEPT ![r].misses = @ + 1]
    /\ heard' = [heard EXCEPT ![r] = @ + 1]
    /\ Answers(c)
    /\ UNCHANGED <<asked, sessions, active, clock>>

\* The statement that counts the last word allowed refuses the request.
Missed(c) ==
    LET r == calls[c].request IN
    /\ At(c, "miss")
    /\ Waiting(r, calls[c].at)
    /\ table' = [table EXCEPT ![r].misses = @ + 1,
                              ![r].outcome = IF table[r].misses + 1 >= MaxMisses
                                             THEN "refused" ELSE "none"]
    /\ heard' = [heard EXCEPT ![r] = @ + 1]
    /\ Answers(c)
    /\ UNCHANGED <<asked, sessions, active, clock>>

\* No longer pending: the answer below says so.
MissedNothing(c) ==
    /\ At(c, "miss")
    /\ ~Waiting(calls[c].request, calls[c].at)
    /\ GoesOn(c, "answer")
    /\ UNCHANGED <<table, asked, sessions, active, heard, clock>>

\* Mutant of Answered: the expiry is not read.
AnsweredWhateverItsAge(c) ==
    LET r == calls[c].request IN
    /\ At(c, "answer")
    /\ table[r] # NoRow /\ table[r].outcome = "none" /\ ~table[r].claimed
    /\ table' = [table EXCEPT ![r].outcome = calls[c].outcome, ![r].account = calls[c].account]
    /\ Answers(c)
    /\ UNCHANGED <<asked, sessions, active, heard, clock>>

Answered(c) ==
    LET r == calls[c].request IN
    /\ At(c, "answer")
    /\ Waiting(r, calls[c].at)
    /\ table' = [table EXCEPT ![r].outcome = calls[c].outcome, ![r].account = calls[c].account]
    /\ Answers(c)
    /\ UNCHANGED <<asked, sessions, active, heard, clock>>

\* Answered already, expired or purged.
AnswerRefused(c) ==
    /\ At(c, "answer")
    /\ ~Waiting(calls[c].request, calls[c].at)
    /\ Answers(c)
    /\ UNCHANGED <<table, asked, sessions, active, heard, clock>>

-----------------------------------------------------------------------------
(* POST /session/connect/claim.                                             *)

\* Read with no lock: neither the outcome nor the expiry goes back.  A claim that
\* finds anything else changes nothing.  The pace of `slow-down` is not modelled: a
\* poll comes at any instant.
ClaimFound(c, r) ==
    /\ table[r] # NoRow
    /\ clock < table[r].expires
    /\ table[r].outcome = "approved"
    /\ table[r].account # Nobody
    /\ Starts(c, [step |-> "open", request |-> r, account |-> table[r].account])
    /\ UNCHANGED <<table, asked, sessions, active, heard, clock>>

\* The account as it is now, read before the transaction.
AccountOpens(c) ==
    /\ At(c, "open")
    /\ calls[c].account \in active
    /\ GoesOn(c, "spend")
    /\ UNCHANGED <<table, asked, sessions, active, heard, clock>>

AccountGone(c) ==
    /\ At(c, "open")
    /\ calls[c].account \notin active
    /\ Answers(c)
    /\ UNCHANGED <<table, asked, sessions, active, heard, clock>>

\* The WHERE of the spend.
Unclaimed(r) == table[r] # NoRow /\ ~table[r].claimed

\* Mutant of Opened: the session names nobody.
OpenedForNobody(c, k) ==
    /\ sessions[k] = NoSession
    /\ sessions' = [sessions EXCEPT ![k] =
            [request |-> calls[c].request, account |-> Nobody, live |-> TRUE]]

Opened(c, k) ==
    /\ sessions[k] = NoSession
    /\ sessions' = [sessions EXCEPT ![k] =
            [request |-> calls[c].request, account |-> calls[c].account, live |-> TRUE]]

\* Mutant of Spent: `claimed_at` is not read again.
SpentTwice(c, k) ==
    LET r == calls[c].request IN
    /\ At(c, "spend")
    /\ table[r] # NoRow
    /\ table' = [table EXCEPT ![r].claimed = TRUE]
    /\ Opened(c, k)
    /\ Answers(c)
    /\ UNCHANGED <<asked, active, heard, clock>>

\* The spend and the session, in one transaction.
Spent(c, k) ==
    LET r == calls[c].request IN
    /\ At(c, "spend")
    /\ Unclaimed(r)
    /\ table' = [table EXCEPT ![r].claimed = TRUE]
    /\ Opened(c, k)
    /\ Answers(c)
    /\ UNCHANGED <<asked, active, heard, clock>>

NotSpent(c) ==
    /\ At(c, "spend")
    /\ ~Unclaimed(calls[c].request)
    /\ Answers(c)
    /\ UNCHANGED <<table, asked, sessions, active, heard, clock>>

-----------------------------------------------------------------------------
(* The end of a connection.                                                 *)

Ending(ended) ==
    sessions' = [k \in Connection |->
            IF k \in ended THEN [sessions[k] EXCEPT !.live = FALSE] ELSE sessions[k]]

OpenOf(a) == {k \in Connection : sessions[k] # NoSession /\ sessions[k].account = a}

\* DELETE /console/me/browsers/<id>, of this account only.
EndBrowser(a, k) ==
    /\ a \in active
    /\ k \in OpenOf(a)
    /\ Ending({k})
    /\ UNCHANGED <<table, asked, active, calls, heard, clock>>

\* A log out, a replay, or a refresh that finds no active account.
ConnectionEnds(k) ==
    /\ sessions[k] # NoSession
    /\ Ending({k})
    /\ UNCHANGED <<table, asked, active, calls, heard, clock>>

\* What a suspension, a deletion and a restoration do here, one by one: which of them
\* ends sessions before or after its write is in SessionRoutes.
Suspend(a) ==
    /\ active' = active \ {a}
    /\ UNCHANGED <<table, asked, sessions, calls, heard, clock>>

Restore(a) ==
    /\ active' = active \cup {a}
    /\ UNCHANGED <<table, asked, sessions, calls, heard, clock>>

EndSessionsOf(a) ==
    /\ Ending(OpenOf(a))
    /\ UNCHANGED <<table, asked, active, calls, heard, clock>>

-----------------------------------------------------------------------------

\* The worker stops or the database does not answer: the call is over.
Stopped(c) ==
    /\ calls[c] # Nothing
    /\ Answers(c)
    /\ UNCHANGED <<table, asked, sessions, active, heard, clock>>

Tick ==
    /\ clock < MaxClock
    /\ clock' = clock + 1
    /\ UNCHANGED <<table, asked, sessions, active, calls, heard>>

Next ==
    \/ \E c \in Caller :
          \/ StartCalled(c) \/ Counted(c) \/ Busy(c)
          \/ Missed(c) \/ MissedNothing(c) \/ Answered(c) \/ AnswerRefused(c)
          \/ AccountOpens(c) \/ AccountGone(c) \/ NotSpent(c)
          \/ Stopped(c)
    \/ \E c \in Caller, r \in Request : Created(c, r) \/ ClaimFound(c, r)
    \/ \E c \in Caller, r \in Request, a \in Account : WordDiffers(c, r, a) \/ Refuses(c, r, a)
    \/ \E c \in Caller, r \in Request, a \in Account, word \in BOOLEAN : WordAgrees(c, r, a, word)
    \/ \E c \in Caller, k \in Connection : Spent(c, k)
    \/ \E a \in Account, k \in Connection : EndBrowser(a, k)
    \/ \E a \in Account : Suspend(a) \/ Restore(a) \/ EndSessionsOf(a)
    \/ \E k \in Connection : ConnectionEnds(k)
    \/ Tick

Spec == Init /\ [][Next]_vars

-----------------------------------------------------------------------------
(* What the extension and the console are promised.                         *)

StageOf(r) ==
    IF r \notin asked THEN [at |-> "new", by |-> Nobody]
    ELSE IF table[r] = NoRow THEN [at |-> "gone", by |-> Nobody]
    ELSE IF table[r].claimed THEN [at |-> "claimed", by |-> table[r].account]
    ELSE IF table[r].outcome = "approved" THEN [at |-> "approved", by |-> table[r].account]
    ELSE [at |-> IF table[r].outcome = "none" THEN "pending" ELSE "refused", by |-> Nobody]

Promise == INSTANCE ConnectPromise WITH stages <- [r \in Request |-> StageOf(r)]

\* Every step of the statements is a step of ConnectPromise: a request is answered
\* once and claimed once, and its session is of the account that approved it,
\* whatever the polls, the answers and the purges that run at once.
PromiseIsKept ==
    Promise!Init /\ [][UNCHANGED Promise!vars \/ Promise!Next]_(Promise!vars)

\* MAX_WORD_MISSES: whoever guesses, and however many at once, is told of that many
\* wrong words at most, and the request is refused with the last.
WrongWordsAreCounted ==
    \A r \in Request :
        /\ heard[r] <= MaxMisses
        /\ heard[r] = MaxMisses /\ table[r] # NoRow => table[r].outcome = "refused"

\* A request is approved with its word only, although the route goes on to the
\* answer when the request no longer waits for the word it compared, or did not
\* compare.
ApprovedWithTheWord ==
    [][\A r \in Request :
          StageOf(r).at = "pending" /\ StageOf(r)'.at = "approved"
             => \E c \in Caller : At(c, "answer") /\ calls[c].request = r /\ calls[c].word]_vars

\* MAX_LIVE_REQUESTS: the requests that wait are one per call in flight too many, and
\* no more.
BurstIsBounded ==
    Cardinality({r \in Request : Waiting(r, clock)})
        + Cardinality({c \in Caller : At(c, "insert")}) <= MaxLive + Cardinality(Caller) - 1
=============================================================================
