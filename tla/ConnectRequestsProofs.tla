------------------------ MODULE ConnectRequestsProofs ------------------------
(***************************************************************************)
(* What holds of the requests of the extension for any accounts, limits and *)
(* number of callers.                                                       *)
(*                                                                          *)
(* A claim and an approval go on from what an earlier statement read, with    *)
(* no lock.  IInv says what of it is still true when they write: what they    *)
(* read never goes back.                                                      *)
(***************************************************************************)
EXTENDS ConnectRequests, FiniteSetTheorems, TLAPS

\* A row is of a request that was made: a request whose row is purged is not made again.
RowsAreAsked == \A r \in Request : table[r] # NoRow => r \in asked

\* What a claim read of its request is still what the row says.
ClaimsAreApproved ==
    \A c \in Caller : At(c, "open") \/ At(c, "spend") =>
        LET r == calls[c].request
        IN /\ r \in asked
           /\ table[r] # NoRow => table[r].outcome = "approved" /\ table[r].account = calls[c].account

\* An approval with another word finds a request that no longer waits, now and later.
WordsWereCompared ==
    \A c \in Caller : At(c, "miss") \/ At(c, "answer") =>
        /\ calls[c].request \in asked
        /\ At(c, "answer") /\ calls[c].outcome = "approved" /\ ~calls[c].word
              => ~Waiting(calls[c].request, calls[c].at)
        /\ At(c, "miss") => calls[c].outcome = "approved" /\ ~calls[c].word

\* The column counts what was answered.
MissesAreHeard ==
    \A r \in Request : heard[r] = IF table[r] = NoRow THEN 0 ELSE table[r].misses

IInv ==
    /\ TypeOK
    /\ RowsAreAsked
    /\ ClaimsAreApproved
    /\ WordsWereCompared
    /\ MissesAreHeard
    /\ WrongWordsAreCounted

-----------------------------------------------------------------------------
(* The calls of a caller, and the steps that only move one.                 *)

\* The step of a call tells which call it is.
LEMMA StepsTellCalls ==
    ASSUME TypeOK, NEW c \in Caller
    PROVE  /\ At(c, "count") \/ At(c, "insert") => calls[c] \in StartCall
           /\ At(c, "miss") \/ At(c, "answer") => calls[c] \in AnswerCall
           /\ At(c, "open") \/ At(c, "spend") => calls[c] \in ClaimCall
BY DEF TypeOK, At, StartCall, AnswerCall, ClaimCall

\* The steps of callers and accounts that write no row and open or end no connection.
Reads ==
    \/ \E c \in Caller :
          \/ Counted(c) \/ Busy(c) \/ MissedNothing(c) \/ AnswerRefused(c)
          \/ AccountOpens(c) \/ AccountGone(c) \/ NotSpent(c) \/ Stopped(c)
    \/ \E c \in Caller, r \in Request : ClaimFound(c, r)
    \/ \E c \in Caller, r \in Request, a \in Account : WordDiffers(c, r, a) \/ Refuses(c, r, a)
    \/ \E c \in Caller, r \in Request, a \in Account, word \in BOOLEAN : WordAgrees(c, r, a, word)

\* The steps that end connections.
Ends ==
    \/ \E a \in Account, k \in Connection : EndBrowser(a, k)
    \/ \E a \in Account : EndSessionsOf(a)
    \/ \E k \in Connection : ConnectionEnds(k)

\* The steps that neither a row, a call nor a connection is changed by.
Others == Tick \/ (\E a \in Account : Suspend(a) \/ Restore(a))

\* The step relation, by what a step writes.
LEMMA NextByWrites ==
    Next <=> \/ \E c \in Caller : StartCalled(c) \/ Missed(c) \/ Answered(c)
             \/ \E c \in Caller, r \in Request : Created(c, r)
             \/ \E c \in Caller, k \in Connection : Spent(c, k)
             \/ Reads \/ Ends \/ Others
BY DEF Next, Reads, Ends, Others

LEMMA ReadsWriteNothing ==
    Reads => UNCHANGED <<table, asked, sessions, heard, clock, active>>
BY DEF Reads, Counted, Busy, MissedNothing, AnswerRefused, AccountOpens, AccountGone, NotSpent,
       Stopped, ClaimFound, WordDiffers, Refuses, WordAgrees, AnswerStarts

LEMMA EndsKeepRows ==
    Ends => UNCHANGED <<table, asked, heard, clock, active, calls>>
BY DEF Ends, EndBrowser, EndSessionsOf, ConnectionEnds

LEMMA OthersKeepRows ==
    Others => UNCHANGED <<table, asked, heard, sessions, calls>>
BY DEF Others, Tick, Suspend, Restore

\* Ends changes only whether connections are live.
LEMMA EndsOnlyEnd ==
    ASSUME TypeOK, Ends
    PROVE  \E ended \in SUBSET Connection :
              /\ \A k \in ended : sessions[k] # NoSession
              /\ Ending(ended)
<1>1. ASSUME NEW a \in Account, NEW k \in Connection, EndBrowser(a, k)
      PROVE  (\A j \in {k} : sessions[j] # NoSession) /\ Ending({k})
  BY <1>1 DEF EndBrowser, OpenOf
<1>2. ASSUME NEW a \in Account, EndSessionsOf(a)
      PROVE  (\A j \in OpenOf(a) : sessions[j] # NoSession) /\ Ending(OpenOf(a))
  BY <1>2 DEF EndSessionsOf, OpenOf
<1>3. ASSUME NEW k \in Connection, ConnectionEnds(k)
      PROVE  (\A j \in {k} : sessions[j] # NoSession) /\ Ending({k})
  BY <1>3 DEF ConnectionEnds
<1>4. \A a \in Account : OpenOf(a) \subseteq Connection
  BY DEF OpenOf
<1>. QED  BY <1>1, <1>2, <1>3, <1>4 DEF Ends

-----------------------------------------------------------------------------
(* Type correctness.                                                        *)

LEMMA ReadsKeepTypes ==
    ASSUME TypeOK, Reads
    PROVE  calls' \in [Caller -> StartCall \cup AnswerCall \cup ClaimCall \cup {Nothing}]
<1>. USE DEF At, Serve, Starts, GoesOn, Answers
<1>1. ASSUME NEW c \in Caller,
             Counted(c) \/ Busy(c) \/ MissedNothing(c) \/ AnswerRefused(c)
      PROVE  calls'[c] \in StartCall \cup AnswerCall \cup {Nothing} /\ calls' = [calls EXCEPT ![c] = calls'[c]]
  BY <1>1, StepsTellCalls DEF TypeOK, Counted, Busy, MissedNothing, AnswerRefused, StartCall, AnswerCall
<1>2. ASSUME NEW c \in Caller, AccountOpens(c) \/ AccountGone(c) \/ NotSpent(c) \/ Stopped(c)
      PROVE  calls'[c] \in ClaimCall \cup {Nothing} /\ calls' = [calls EXCEPT ![c] = calls'[c]]
  BY <1>2, StepsTellCalls DEF TypeOK, AccountOpens, AccountGone, NotSpent, Stopped, ClaimCall
<1>3. ASSUME NEW c \in Caller, NEW r \in Request, ClaimFound(c, r)
      PROVE  calls'[c] \in ClaimCall /\ calls' = [calls EXCEPT ![c] = calls'[c]]
  BY <1>3 DEF TypeOK, ClaimFound, ClaimCall, Row
<1>4. ASSUME NEW c \in Caller, NEW r \in Request, NEW a \in Account,
             WordDiffers(c, r, a) \/ Refuses(c, r, a)
      PROVE  calls'[c] \in AnswerCall /\ calls' = [calls EXCEPT ![c] = calls'[c]]
  <2>1. CASE WordDiffers(c, r, a)
    BY <2>1 DEF TypeOK, WordDiffers, AnswerStarts, AnswerCall
  <2>2. CASE Refuses(c, r, a)
    BY <2>2 DEF TypeOK, Refuses, AnswerStarts, AnswerCall
  <2>. QED  BY <1>4, <2>1, <2>2
<1>5. ASSUME NEW c \in Caller, NEW r \in Request, NEW a \in Account, NEW word \in BOOLEAN,
             WordAgrees(c, r, a, word)
      PROVE  calls'[c] \in AnswerCall /\ calls' = [calls EXCEPT ![c] = calls'[c]]
  BY <1>5 DEF TypeOK, WordAgrees, AnswerStarts, AnswerCall
<1>. QED  BY <1>1, <1>2, <1>3, <1>4, <1>5 DEF Reads, TypeOK

LEMMA TypeStep ==
    ASSUME TypeOK, Next
    PROVE  TypeOK'
<1>. USE LimitsAssumption, NullAssumption DEF At, Serve, Starts, Answers
<1>1. ASSUME NEW c \in Caller, StartCalled(c)  PROVE TypeOK'
  BY <1>1 DEF TypeOK, StartCalled, StartCall, Expired
<1>2. ASSUME NEW c \in Caller, Missed(c)  PROVE TypeOK'
  <2>1. calls[c].request \in Request
    BY <1>2, StepsTellCalls DEF Missed, AnswerCall
  <2>. QED  BY <1>2, <2>1 DEF TypeOK, Missed, Waiting, Row
<1>3. ASSUME NEW c \in Caller, Answered(c)  PROVE TypeOK'
  <2>1. calls[c] \in AnswerCall
    BY <1>3, StepsTellCalls DEF Answered
  <2>. QED  BY <1>3, <2>1 DEF TypeOK, Answered, Waiting, Row, AnswerCall
<1>4. ASSUME NEW c \in Caller, NEW r \in Request, Created(c, r)  PROVE TypeOK'
  <2>1. calls[c] \in StartCall
    BY <1>4, StepsTellCalls DEF Created
  <2>. QED  BY <1>4, <2>1 DEF TypeOK, Created, Row, StartCall
<1>5. ASSUME NEW c \in Caller, NEW k \in Connection, Spent(c, k)  PROVE TypeOK'
  <2>1. calls[c] \in ClaimCall
    BY <1>5, StepsTellCalls DEF Spent
  <2>2. table' \in [Request -> Row \cup {NoRow}]
    <3>1. calls[c].request \in Request
      BY <2>1 DEF ClaimCall
    <3>2. [table[calls[c].request] EXCEPT !.claimed = TRUE] \in Row
      BY <1>5, <3>1 DEF TypeOK, Spent, Unclaimed, Row
    <3>. QED  BY <1>5, <3>1, <3>2 DEF TypeOK, Spent
  <2>3. sessions' \in [Connection -> Session \cup {NoSession}]
    BY <1>5, <2>1 DEF TypeOK, Spent, Opened, ClaimCall, Session
  <2>. QED  BY <1>5, <2>2, <2>3 DEF TypeOK, Spent
<1>6. CASE Reads
  BY <1>6, ReadsKeepTypes, ReadsWriteNothing DEF TypeOK
<1>7. CASE Ends
  <2>1. PICK ended \in SUBSET Connection :
           (\A k \in ended : sessions[k] # NoSession) /\ Ending(ended)
    BY <1>7, EndsOnlyEnd
  <2>2. sessions' \in [Connection -> Session \cup {NoSession}]
    BY <2>1 DEF TypeOK, Ending, Session
  <2>. QED  BY <1>7, <2>2, EndsKeepRows DEF TypeOK
<1>8. CASE Others
  BY <1>8 DEF TypeOK, Others, Tick, Suspend, Restore
<1>. QED  BY <1>1, <1>2, <1>3, <1>4, <1>5, <1>6, <1>7, <1>8, NextByWrites

-----------------------------------------------------------------------------
(* What a statement read stays true.                                        *)

\* A request that stopped waiting never waits again, as of any instant.
LEMMA WaitingGoesForGood ==
    ASSUME TypeOK, RowsAreAsked, Next, NEW r \in asked, NEW at \in Nat, ~Waiting(r, at)
    PROVE  ~Waiting(r, at)'
<1>. USE LimitsAssumption, NullAssumption
<1>0. r \in Request
  BY DEF TypeOK
<1>1. ASSUME NEW c \in Caller, StartCalled(c)  PROVE ~Waiting(r, at)'
  BY <1>0, <1>1 DEF TypeOK, StartCalled, Waiting
<1>2. ASSUME NEW c \in Caller, Missed(c)  PROVE ~Waiting(r, at)'
  <2>1. calls[c].request \in Request
    BY <1>2, StepsTellCalls DEF Missed, AnswerCall
  <2>. QED  BY <1>0, <1>2, <2>1 DEF TypeOK, Missed, Waiting, Row
<1>3. ASSUME NEW c \in Caller, Answered(c)  PROVE ~Waiting(r, at)'
  <2>1. calls[c].request \in Request /\ calls[c].outcome # "none"
    BY <1>3, StepsTellCalls DEF Answered, AnswerCall
  <2>. QED  BY <1>0, <1>3, <2>1 DEF TypeOK, Answered, Waiting, Row
<1>4. ASSUME NEW c \in Caller, NEW s \in Request, Created(c, s)  PROVE ~Waiting(r, at)'
  BY <1>0, <1>4 DEF TypeOK, Created, Waiting
<1>5. ASSUME NEW c \in Caller, NEW k \in Connection, Spent(c, k)  PROVE ~Waiting(r, at)'
  <2>1. calls[c].request \in Request
    BY <1>5, StepsTellCalls DEF Spent, ClaimCall
  <2>. QED  BY <1>0, <1>5, <2>1 DEF TypeOK, Spent, Unclaimed, Waiting, Row
<1>6. CASE UNCHANGED table
  BY <1>6 DEF Waiting
<1>. QED
  BY <1>1, <1>2, <1>3, <1>4, <1>5, <1>6, NextByWrites, ReadsWriteNothing, EndsKeepRows, OthersKeepRows

\* The answer of a request never changes, nor the account that gave it.
LEMMA ApprovalsStay ==
    ASSUME TypeOK, RowsAreAsked, Next, NEW r \in Request,
           table[r] # NoRow, table[r].outcome = "approved", table'[r] # NoRow
    PROVE  table'[r].outcome = "approved" /\ table'[r].account = table[r].account
<1>. USE NullAssumption
<1>1. ASSUME NEW c \in Caller, StartCalled(c)  PROVE table'[r] = table[r]
  BY <1>1 DEF TypeOK, StartCalled
<1>2. ASSUME NEW c \in Caller, Missed(c) \/ Answered(c)  PROVE table'[r] = table[r]
  <2>1. calls[c].request \in Request
    BY <1>2, StepsTellCalls DEF Missed, Answered, AnswerCall
  <2>. QED  BY <1>2, <2>1 DEF TypeOK, Missed, Answered, Waiting
<1>4. ASSUME NEW c \in Caller, NEW s \in Request, Created(c, s)  PROVE table'[r] = table[r]
  BY <1>4 DEF TypeOK, Created, RowsAreAsked
<1>5. ASSUME NEW c \in Caller, NEW k \in Connection, Spent(c, k)
      PROVE  table'[r].outcome = "approved" /\ table'[r].account = table[r].account
  <2>1. calls[c].request \in Request
    BY <1>5, StepsTellCalls DEF Spent, ClaimCall
  <2>. QED  BY <1>5, <2>1 DEF TypeOK, Spent, Row
<1>. QED
  BY <1>1, <1>2, <1>4, <1>5, NextByWrites, ReadsWriteNothing, EndsKeepRows, OthersKeepRows

\* `asked` only grows.
LEMMA AskedGrows ==
    ASSUME TypeOK, Next  PROVE asked \subseteq asked'
BY NextByWrites, ReadsWriteNothing, EndsKeepRows, OthersKeepRows
   DEF StartCalled, Missed, Answered, Created, Spent

LEMMA RowsAreAskedStep ==
    ASSUME TypeOK, RowsAreAsked, Next
    PROVE  RowsAreAsked'
<1>1. ASSUME NEW c \in Caller, StartCalled(c)  PROVE RowsAreAsked'
  BY <1>1 DEF TypeOK, StartCalled, RowsAreAsked
<1>2. ASSUME NEW c \in Caller, Missed(c) \/ Answered(c)  PROVE RowsAreAsked'
  BY <1>2 DEF TypeOK, Missed, Answered, Waiting, RowsAreAsked
<1>3. ASSUME NEW c \in Caller, NEW r \in Request, Created(c, r)  PROVE RowsAreAsked'
  BY <1>3 DEF TypeOK, Created, RowsAreAsked
<1>4. ASSUME NEW c \in Caller, NEW k \in Connection, Spent(c, k)  PROVE RowsAreAsked'
  BY <1>4 DEF TypeOK, Spent, Unclaimed, RowsAreAsked
<1>5. CASE UNCHANGED <<table, asked>>
  BY <1>5 DEF RowsAreAsked
<1>. QED
  BY <1>1, <1>2, <1>3, <1>4, <1>5, NextByWrites, ReadsWriteNothing, EndsKeepRows, OthersKeepRows

\* A request whose row is gone is not made again.
LEMMA RowsComeOnce ==
    ASSUME TypeOK, RowsAreAsked, Next, NEW r \in asked, table'[r] # NoRow
    PROVE  table[r] # NoRow
<1>0. r \in Request
  BY DEF TypeOK
<1>1. ASSUME NEW c \in Caller, StartCalled(c)  PROVE table[r] # NoRow
  BY <1>0, <1>1 DEF TypeOK, StartCalled
<1>2. ASSUME NEW c \in Caller, Missed(c) \/ Answered(c)  PROVE table[r] # NoRow
  BY <1>0, <1>2 DEF TypeOK, Missed, Answered, Waiting
<1>3. ASSUME NEW c \in Caller, NEW s \in Request, Created(c, s)  PROVE table[r] # NoRow
  BY <1>0, <1>3 DEF TypeOK, Created
<1>4. ASSUME NEW c \in Caller, NEW k \in Connection, Spent(c, k)  PROVE table[r] # NoRow
  BY <1>0, <1>4 DEF TypeOK, Spent, Unclaimed
<1>. QED
  BY <1>1, <1>2, <1>3, <1>4, NextByWrites, ReadsWriteNothing, EndsKeepRows, OthersKeepRows

-----------------------------------------------------------------------------
(* What a call went on from.                                                *)

\* A claim that goes on to open a session found its request, then its account.
LEMMA ClaimsMove ==
    ASSUME TypeOK, Next, NEW c \in Caller, (At(c, "open") \/ At(c, "spend"))'
    PROVE  calls'[c] = calls[c] \/ (\E r \in Request : ClaimFound(c, r)) \/ AccountOpens(c)
<1>. USE NullAssumption DEF TypeOK, At, Serve, Starts, GoesOn, Answers
<1>1. ASSUME NEW d \in Caller, StartCalled(d) \/ Missed(d) \/ Answered(d)
      PROVE  calls'[c] = calls[c]
  BY <1>1 DEF StartCalled, Missed, Answered
<1>2. ASSUME NEW d \in Caller, NEW r \in Request, Created(d, r)  PROVE calls'[c] = calls[c]
  BY <1>2 DEF Created
<1>3. ASSUME NEW d \in Caller, NEW k \in Connection, Spent(d, k)  PROVE calls'[c] = calls[c]
  BY <1>3 DEF Spent
<1>4. ASSUME NEW d \in Caller, Counted(d) \/ Busy(d) \/ MissedNothing(d) \/ AnswerRefused(d)
      PROVE  calls'[c] = calls[c]
  BY <1>4, StepsTellCalls DEF Counted, Busy, MissedNothing, AnswerRefused, StartCall, AnswerCall
<1>5. ASSUME NEW d \in Caller,
             AccountOpens(d) \/ AccountGone(d) \/ NotSpent(d) \/ Stopped(d)
      PROVE  calls'[c] = calls[c] \/ AccountOpens(c)
  BY <1>5 DEF AccountOpens, AccountGone, NotSpent, Stopped
<1>6. ASSUME NEW d \in Caller, NEW r \in Request, ClaimFound(d, r)
      PROVE  calls'[c] = calls[c] \/ ClaimFound(c, r)
  BY <1>6 DEF ClaimFound
<1>7. ASSUME NEW d \in Caller, NEW r \in Request, NEW a \in Account, NEW word \in BOOLEAN,
             WordDiffers(d, r, a) \/ Refuses(d, r, a) \/ WordAgrees(d, r, a, word)
      PROVE  calls'[c] = calls[c]
  <2>1. \E step \in {"miss", "answer"} : calls'[d].step = step /\ calls' = [calls EXCEPT ![d] = calls'[d]]
    <3>1. CASE WordDiffers(d, r, a)
      BY <3>1 DEF WordDiffers, AnswerStarts
    <3>2. CASE Refuses(d, r, a)
      BY <3>2 DEF Refuses, AnswerStarts
    <3>3. CASE WordAgrees(d, r, a, word)
      BY <3>3 DEF WordAgrees, AnswerStarts
    <3>. QED  BY <1>7, <3>1, <3>2, <3>3
  <2>. QED  BY <2>1
<1>. HIDE DEF TypeOK, At, Serve, Starts, GoesOn, Answers
<1>8. CASE Reads
  BY <1>4, <1>5, <1>6, <1>7, <1>8 DEF Reads
<1>. QED  BY <1>1, <1>2, <1>3, <1>8, NextByWrites, EndsKeepRows, OthersKeepRows

\* An answer comes from the console, or from a word that was not counted.
LEMMA AnswersMove ==
    ASSUME TypeOK, Next, NEW c \in Caller, (At(c, "miss") \/ At(c, "answer"))'
    PROVE  \/ calls'[c] = calls[c]
           \/ MissedNothing(c)
           \/ \E r \in Request, a \in Account, word \in BOOLEAN :
                 WordDiffers(c, r, a) \/ Refuses(c, r, a) \/ WordAgrees(c, r, a, word)
<1>. USE NullAssumption DEF TypeOK, At, Serve, Starts, GoesOn, Answers
<1>1. ASSUME NEW d \in Caller, StartCalled(d) \/ Missed(d) \/ Answered(d)
      PROVE  calls'[c] = calls[c]
  BY <1>1 DEF StartCalled, Missed, Answered
<1>2. ASSUME NEW d \in Caller, NEW r \in Request, Created(d, r)  PROVE calls'[c] = calls[c]
  BY <1>2 DEF Created
<1>3. ASSUME NEW d \in Caller, NEW k \in Connection, Spent(d, k)  PROVE calls'[c] = calls[c]
  BY <1>3 DEF Spent
<1>4. ASSUME NEW d \in Caller, Counted(d) \/ Busy(d) \/ MissedNothing(d) \/ AnswerRefused(d)
      PROVE  calls'[c] = calls[c] \/ MissedNothing(c)
  BY <1>4, StepsTellCalls DEF Counted, Busy, MissedNothing, AnswerRefused, StartCall
<1>5. ASSUME NEW d \in Caller,
             AccountOpens(d) \/ AccountGone(d) \/ NotSpent(d) \/ Stopped(d)
      PROVE  calls'[c] = calls[c]
  <2>1. CASE AccountOpens(d)
    <3>1. calls[d] \in ClaimCall
      BY <2>1, StepsTellCalls DEF AccountOpens
    <3>2. [calls[d] EXCEPT !.step = "spend"].step = "spend"
      BY <3>1 DEF ClaimCall
    <3>. QED  BY <2>1, <3>2 DEF AccountOpens
  <2>2. CASE AccountGone(d) \/ NotSpent(d) \/ Stopped(d)
    BY <2>2 DEF AccountGone, NotSpent, Stopped
  <2>. QED  BY <1>5, <2>1, <2>2
<1>6. ASSUME NEW d \in Caller, NEW r \in Request, ClaimFound(d, r)
      PROVE  calls'[c] = calls[c]
  BY <1>6 DEF ClaimFound
<1>7. ASSUME NEW d \in Caller, NEW r \in Request, NEW a \in Account, NEW word \in BOOLEAN,
             WordDiffers(d, r, a) \/ Refuses(d, r, a) \/ WordAgrees(d, r, a, word)
      PROVE  calls'[c] = calls[c] \/ WordDiffers(c, r, a) \/ Refuses(c, r, a) \/ WordAgrees(c, r, a, word)
  BY <1>7 DEF WordDiffers, Refuses, WordAgrees, AnswerStarts
<1>8. CASE Reads
  BY <1>4, <1>5, <1>6, <1>7, <1>8 DEF Reads
<1>. QED  BY <1>1, <1>2, <1>3, <1>8, NextByWrites, EndsKeepRows, OthersKeepRows

LEMMA ClaimsAreApprovedStep ==
    ASSUME TypeOK, RowsAreAsked, ClaimsAreApproved, Next
    PROVE  ClaimsAreApproved'
<1>. SUFFICES ASSUME NEW c \in Caller, (At(c, "open") \/ At(c, "spend"))'
              PROVE  /\ calls'[c].request \in asked'
                     /\ table'[calls'[c].request] # NoRow =>
                           /\ table'[calls'[c].request].outcome = "approved"
                           /\ table'[calls'[c].request].account = calls'[c].account
  BY DEF ClaimsAreApproved, At
<1>1. CASE calls'[c] = calls[c]
  <2>1. (At(c, "open") \/ At(c, "spend")) /\ calls[c].request \in asked
    BY <1>1 DEF At, ClaimsAreApproved
  <2>2. calls[c].request \in Request
    BY <2>1 DEF TypeOK
  <2>3. ASSUME table'[calls[c].request] # NoRow
        PROVE  /\ table'[calls[c].request].outcome = "approved"
               /\ table'[calls[c].request].account = calls[c].account
    <3>1. table[calls[c].request] # NoRow
      BY <2>1, <2>3, RowsComeOnce
    <3>2. /\ table[calls[c].request].outcome = "approved"
          /\ table[calls[c].request].account = calls[c].account
      BY <2>1, <3>1 DEF ClaimsAreApproved
    <3>. QED  BY <2>2, <2>3, <3>1, <3>2, ApprovalsStay
  <2>. QED  BY <1>1, <2>1, <2>3, AskedGrows
<1>2. ASSUME NEW r \in Request, ClaimFound(c, r)
      PROVE  /\ calls'[c].request = r /\ calls'[c].account = table[r].account
             /\ r \in asked /\ table[r].outcome = "approved" /\ UNCHANGED <<table, asked>>
  BY <1>2 DEF ClaimFound, Starts, Serve, TypeOK, RowsAreAsked
<1>3. CASE AccountOpens(c)
  <2>1. At(c, "open") /\ calls[c] \in ClaimCall
    BY <1>3, StepsTellCalls DEF AccountOpens
  <2>2. calls'[c].request = calls[c].request /\ calls'[c].account = calls[c].account
    BY <1>3, <2>1 DEF AccountOpens, GoesOn, Serve, TypeOK, ClaimCall
  <2>3. UNCHANGED <<table, asked>>
    BY <1>3 DEF AccountOpens
  <2>. QED  BY <2>1, <2>2, <2>3 DEF ClaimsAreApproved
<1>. QED  BY <1>1, <1>2, <1>3, ClaimsMove

LEMMA WordsWereComparedStep ==
    ASSUME TypeOK, RowsAreAsked, WordsWereCompared, Next
    PROVE  WordsWereCompared'
<1>. SUFFICES ASSUME NEW c \in Caller, (At(c, "miss") \/ At(c, "answer"))'
              PROVE  /\ calls'[c].request \in asked'
                     /\ (At(c, "answer") /\ calls[c].outcome = "approved" /\ ~calls[c].word)'
                           => ~Waiting(calls[c].request, calls[c].at)'
                     /\ At(c, "miss")' => (calls[c].outcome = "approved" /\ ~calls[c].word)'
  BY DEF WordsWereCompared
<1>1. CASE calls'[c] = calls[c]
  <2>1. (At(c, "miss") \/ At(c, "answer")) /\ calls[c].request \in asked
    BY <1>1 DEF At, WordsWereCompared
  <2>2. calls[c].at \in Nat
    BY <2>1, StepsTellCalls DEF AnswerCall
  <2>3. (~Waiting(calls[c].request, calls[c].at)) => ~Waiting(calls[c].request, calls[c].at)'
    <3>1. ~Waiting(calls[c].request, calls[c].at)
             => (~(/\ table'[calls[c].request] # NoRow
                   /\ table'[calls[c].request].outcome = "none"
                   /\ ~table'[calls[c].request].claimed
                   /\ calls[c].at < table'[calls[c].request].expires))
      BY <2>1, <2>2, WaitingGoesForGood DEF Waiting
    <3>. QED  BY <1>1, <3>1 DEF Waiting
  <2>. QED  BY <1>1, <2>1, <2>3, AskedGrows DEF At, WordsWereCompared
<1>2. CASE MissedNothing(c)
  <2>1. At(c, "miss") /\ calls[c] \in AnswerCall
    BY <1>2, StepsTellCalls DEF MissedNothing
  <2>2. /\ calls'[c].request = calls[c].request /\ calls'[c].at = calls[c].at
        /\ ~At(c, "miss")' /\ UNCHANGED <<table, asked>>
    BY <1>2, <2>1 DEF MissedNothing, GoesOn, Serve, TypeOK, AnswerCall, At
  <2>. QED  BY <1>2, <2>1, <2>2 DEF MissedNothing, Waiting, WordsWereCompared
<1>3. ASSUME NEW r \in Request, NEW a \in Account, WordDiffers(c, r, a)
      PROVE  /\ calls'[c].request = r /\ r \in asked /\ asked' = asked
             /\ ~At(c, "answer")' /\ calls'[c].outcome = "approved" /\ ~calls'[c].word
  BY <1>3 DEF WordDiffers, AnswerStarts, Starts, Serve, TypeOK, RowsAreAsked, Waiting, At
<1>4. ASSUME NEW r \in Request, NEW a \in Account, Refuses(c, r, a)
      PROVE  /\ calls'[c].request = r /\ r \in asked /\ asked' = asked
             /\ calls'[c].outcome = "refused" /\ ~At(c, "miss")'
  BY <1>4 DEF Refuses, AnswerStarts, Starts, Serve, TypeOK, RowsAreAsked, At
<1>5. ASSUME NEW r \in Request, NEW a \in Account, NEW word \in BOOLEAN, WordAgrees(c, r, a, word)
      PROVE  /\ calls'[c].request = r /\ r \in asked /\ asked' = asked /\ ~At(c, "miss")'
             /\ calls'[c].word = word /\ calls'[c].at = clock /\ table' = table
             /\ Waiting(r, clock) => word
  BY <1>5 DEF WordAgrees, AnswerStarts, Starts, Serve, TypeOK, RowsAreAsked, At
<1>6. ASSUME NEW r \in Request, NEW a \in Account, NEW word \in BOOLEAN, WordAgrees(c, r, a, word)
      PROVE  ~calls'[c].word => ~Waiting(calls[c].request, calls[c].at)'
  BY <1>5, <1>6 DEF Waiting
<1>. QED  BY <1>1, <1>2, <1>3, <1>4, <1>5, <1>6, AnswersMove

-----------------------------------------------------------------------------
(* The words.                                                               *)

\* A row with one more wrong word.
LEMMA MissedRow ==
    ASSUME NEW row \in Row, NEW outcome \in {"none", "refused"},
           NEW new, new = [row EXCEPT !.misses = row.misses + 1, !.outcome = outcome]
    PROVE  /\ new \in Row /\ new.misses = row.misses + 1
           /\ new.outcome = outcome /\ new.claimed = row.claimed
<1>1. /\ row.misses \in Nat /\ row.account \in Account \cup {Nobody}
      /\ row.expires \in Nat /\ row.claimed \in BOOLEAN
  BY DEF Row
<1>2. new = [outcome |-> outcome, account |-> row.account, claimed |-> row.claimed,
             misses |-> row.misses + 1, expires |-> row.expires]
  BY DEF Row
<1>. QED  BY <1>1, <1>2 DEF Row

LEMMA MissesStep ==
    ASSUME TypeOK, RowsAreAsked, MissesAreHeard, WrongWordsAreCounted, Next
    PROVE  MissesAreHeard' /\ WrongWordsAreCounted'
<1>. USE LimitsAssumption, NullAssumption DEF TypeOK, MissesAreHeard, WrongWordsAreCounted
<1>1. ASSUME NEW c \in Caller, StartCalled(c)  PROVE MissesAreHeard' /\ WrongWordsAreCounted'
  BY <1>1 DEF StartCalled
<1>2. ASSUME NEW c \in Caller, Missed(c)  PROVE MissesAreHeard' /\ WrongWordsAreCounted'
  <2>. DEFINE r == calls[c].request
  <2>1. r \in Request
    BY <1>2, StepsTellCalls DEF Missed, AnswerCall
  <2>2. table[r] \in Row /\ table[r].outcome = "none" /\ heard[r] = table[r].misses
    BY <1>2, <2>1 DEF Missed, Waiting
  <2>3. heard[r] < MaxMisses
    BY <1>2, <2>1, <2>2 DEF Missed, Waiting
  <2>4. /\ table'[r] # NoRow /\ table'[r].misses = table[r].misses + 1
        /\ table'[r].outcome = (IF table[r].misses + 1 >= MaxMisses THEN "refused" ELSE "none")
        /\ heard'[r] = heard[r] + 1
        /\ \A s \in Request \ {r} : table'[s] = table[s] /\ heard'[s] = heard[s]
    <3>1. /\ table' = [table EXCEPT ![r] = [table[r] EXCEPT
                  !.misses = table[r].misses + 1,
                  !.outcome = IF table[r].misses + 1 >= MaxMisses THEN "refused" ELSE "none"]]
          /\ heard' = [heard EXCEPT ![r] = heard[r] + 1]
      BY <1>2, <2>1, <2>2 DEF Missed, Row
    <3>2. /\ table'[r] = [table[r] EXCEPT
                  !.misses = table[r].misses + 1,
                  !.outcome = IF table[r].misses + 1 >= MaxMisses THEN "refused" ELSE "none"]
          /\ heard'[r] = heard[r] + 1
          /\ \A s \in Request \ {r} : table'[s] = table[s] /\ heard'[s] = heard[s]
      BY <2>1, <3>1
    <3>3. (IF table[r].misses + 1 >= MaxMisses THEN "refused" ELSE "none") \in {"none", "refused"}
      OBVIOUS
    <3>. HIDE DEF r, TypeOK
    <3>4. table'[r] \in Row /\ table'[r].misses = table[r].misses + 1
          /\ table'[r].outcome = (IF table[r].misses + 1 >= MaxMisses THEN "refused" ELSE "none")
      BY <2>2, <3>2, <3>3, MissedRow
    <3>. QED  BY <3>2, <3>4
  <2>. QED  BY <2>1, <2>2, <2>3, <2>4
<1>3. ASSUME NEW c \in Caller, Answered(c)  PROVE MissesAreHeard' /\ WrongWordsAreCounted'
  <2>. DEFINE r == calls[c].request
  <2>1. r \in Request
    BY <1>3, StepsTellCalls DEF Answered, AnswerCall
  <2>2. table[r] \in Row /\ table[r].outcome = "none" /\ heard[r] = table[r].misses
    BY <1>3, <2>1 DEF Answered, Waiting
  <2>3. heard[r] < MaxMisses
    BY <1>3, <2>1, <2>2 DEF Answered, Waiting
  <2>4. /\ table'[r] # NoRow /\ table'[r].misses = table[r].misses /\ heard' = heard
        /\ \A s \in Request \ {r} : table'[s] = table[s]
    <3>1. calls[c].outcome \in {"approved", "refused"} /\ calls[c].account \in Account
      BY <1>3, StepsTellCalls DEF Answered, AnswerCall
    <3>2. table'[r] \in Row
      BY <1>3, <2>1, <2>2, <3>1 DEF Answered, Row
    <3>. QED  BY <1>3, <2>1, <2>2, <3>2 DEF Answered, Row
  <2>. QED  BY <2>1, <2>2, <2>3, <2>4
<1>4. ASSUME NEW c \in Caller, NEW r \in Request, Created(c, r)
      PROVE  MissesAreHeard' /\ WrongWordsAreCounted'
  <2>1. table[r] = NoRow /\ heard[r] = 0
    BY <1>4 DEF Created, RowsAreAsked
  <2>2. table'[r].misses = 0 /\ heard' = heard /\ \A s \in Request \ {r} : table'[s] = table[s]
    BY <1>4 DEF Created
  <2>3. table'[r] # NoRow
    <3>1. calls[c].at \in Nat
      BY <1>4, StepsTellCalls DEF Created, StartCall
    <3>2. table'[r] \in Row
      BY <1>4, <3>1 DEF Created, Row
    <3>. QED  BY <3>2
  <2>. QED  BY <2>1, <2>2, <2>3
<1>5. ASSUME NEW c \in Caller, NEW k \in Connection, Spent(c, k)
      PROVE  MissesAreHeard' /\ WrongWordsAreCounted'
  <2>. DEFINE r == calls[c].request
  <2>1. r \in Request
    BY <1>5, StepsTellCalls DEF Spent, ClaimCall
  <2>2. table[r] \in Row
    BY <1>5, <2>1 DEF Spent, Unclaimed
  <2>3. /\ table'[r] # NoRow /\ table'[r].misses = table[r].misses
        /\ table'[r].outcome = table[r].outcome /\ heard' = heard
        /\ \A s \in Request \ {r} : table'[s] = table[s]
    BY <1>5, <2>1, <2>2 DEF Spent, Row
  <2>. QED  BY <2>1, <2>2, <2>3
<1>6. CASE UNCHANGED <<table, heard>>
  BY <1>6
<1>. QED
  BY <1>1, <1>2, <1>3, <1>4, <1>5, <1>6, NextByWrites, ReadsWriteNothing, EndsKeepRows, OthersKeepRows

-----------------------------------------------------------------------------
(* The invariant.                                                           *)

LEMMA IInvHoldsFirst == Init => IInv
BY LimitsAssumption
   DEF Init, IInv, TypeOK, RowsAreAsked, ClaimsAreApproved, WordsWereCompared, MissesAreHeard,
       WrongWordsAreCounted, At

LEMMA IInvStep == IInv /\ [Next]_vars => IInv'
<1>1. ASSUME IInv, Next  PROVE IInv'
  BY <1>1, TypeStep, RowsAreAskedStep, ClaimsAreApprovedStep, WordsWereComparedStep, MissesStep
     DEF IInv
<1>2. ASSUME IInv, UNCHANGED vars  PROVE IInv'
  BY <1>2
     DEF IInv, vars, TypeOK, RowsAreAsked, ClaimsAreApproved, WordsWereCompared, MissesAreHeard,
         WrongWordsAreCounted, At, Waiting
<1>. QED  BY <1>1, <1>2

LEMMA IInvHolds == Spec => []IInv
BY IInvHoldsFirst, IInvStep, PTL DEF Spec

\* Every row, call and connection is of its kind: no connection names nobody.
THEOREM TypeCorrect == Spec => []TypeOK
<1>1. IInv => TypeOK
  BY DEF IInv
<1>. QED  BY <1>1, IInvHolds, PTL

\* However many callers guess at once, MAX_WORD_MISSES wrong words are answered at
\* most, and the last refuses the request.
THEOREM WrongWordsAlwaysCounted == Spec => []WrongWordsAreCounted
<1>1. IInv => WrongWordsAreCounted
  BY DEF IInv
<1>. QED  BY <1>1, IInvHolds, PTL

-----------------------------------------------------------------------------
(* The stages of a request.                                                 *)

\* A step that changes one row moves one request.
LEMMA OneRowOneStage ==
    ASSUME NEW r \in Request, UNCHANGED asked,
           \A s \in Request \ {r} : table'[s] = table[s]
    PROVE  \A s \in Request \ {r} : StageOf(s)' = StageOf(s)
BY DEF StageOf

LEMMA StartCalledForgets ==
    ASSUME TypeOK, RowsAreAsked, NEW c \in Caller, StartCalled(c)
    PROVE  /\ \A r \in Expired : StageOf(r).at # "new"
           /\ \A r \in Request : StageOf(r)' = IF r \in Expired THEN [at |-> "gone", by |-> Nobody]
                                               ELSE StageOf(r)
<1>1. \A r \in Expired : r \in asked /\ table[r] # NoRow
  BY DEF Expired, RowsAreAsked
<1>2. \A r \in Expired : StageOf(r).at # "new"
  BY <1>1 DEF StageOf
<1>3. \A r \in Request : /\ table'[r] = IF r \in Expired THEN NoRow ELSE table[r]
                         /\ asked' = asked
  BY DEF StartCalled
<1>. QED  BY <1>1, <1>2, <1>3 DEF StageOf

\* The stage of a request before and after its row is written.
LEMMA CreatedAsks ==
    ASSUME TypeOK, RowsAreAsked, NEW c \in Caller, NEW r \in Request, Created(c, r)
    PROVE  /\ StageOf(r) = [at |-> "new", by |-> Nobody]
           /\ StageOf(r)' = [at |-> "pending", by |-> Nobody]
           /\ \A s \in Request \ {r} : StageOf(s)' = StageOf(s)
<1>. USE NullAssumption, LimitsAssumption
<1>1. calls[c].at \in Nat
  BY StepsTellCalls DEF Created, StartCall
<1>2. /\ table'[r] \in Row /\ table'[r].outcome = "none" /\ ~table'[r].claimed
      /\ \A s \in Request \ {r} : table'[s] = table[s]
  BY <1>1 DEF Created, TypeOK, Row
<1>3. r \notin asked /\ asked' = asked \cup {r}
  BY DEF Created
<1>. QED  BY <1>2, <1>3 DEF StageOf

LEMMA AnsweredAnswers ==
    ASSUME TypeOK, RowsAreAsked, NEW c \in Caller, Answered(c),
           NEW r, r = calls[c].request
    PROVE  /\ r \in Request
           /\ StageOf(r) = [at |-> "pending", by |-> Nobody]
           /\ calls[c].outcome \in {"approved", "refused"}
           /\ calls[c].account \in Account
           /\ StageOf(r)' = IF calls[c].outcome = "approved"
                            THEN [at |-> "approved", by |-> calls[c].account]
                            ELSE [at |-> "refused", by |-> Nobody]
           /\ \A s \in Request \ {r} : StageOf(s)' = StageOf(s)
<1>. USE NullAssumption
<1>1. calls[c] \in AnswerCall
  BY StepsTellCalls DEF Answered
<1>2. /\ r \in Request /\ calls[c].outcome \in {"approved", "refused"}
      /\ calls[c].account \in Account
  BY <1>1 DEF AnswerCall
<1>3. /\ table[r] \in Row /\ table[r] # NoRow /\ table[r].outcome = "none" /\ ~table[r].claimed
      /\ r \in asked /\ asked' = asked
  BY <1>2 DEF Answered, Waiting, TypeOK, RowsAreAsked
<1>4. /\ table'[r] \in Row /\ table'[r].outcome = calls[c].outcome
      /\ table'[r].account = calls[c].account /\ ~table'[r].claimed
      /\ \A s \in Request \ {r} : table'[s] = table[s]
  BY <1>2, <1>3 DEF Answered, TypeOK, Row
<1>. QED  BY <1>2, <1>3, <1>4, OneRowOneStage DEF StageOf

LEMMA MissedRefusesOrNot ==
    ASSUME TypeOK, RowsAreAsked, NEW c \in Caller, Missed(c),
           NEW r, r = calls[c].request
    PROVE  /\ r \in Request
           /\ StageOf(r) = [at |-> "pending", by |-> Nobody]
           /\ StageOf(r)' \in {StageOf(r), [at |-> "refused", by |-> Nobody]}
           /\ \A s \in Request \ {r} : StageOf(s)' = StageOf(s)
<1>. USE NullAssumption
<1>1. r \in Request
  BY StepsTellCalls DEF Missed, AnswerCall
<1>2. /\ table[r] \in Row /\ table[r] # NoRow /\ table[r].outcome = "none" /\ ~table[r].claimed
      /\ r \in asked /\ asked' = asked
  BY <1>1 DEF Missed, Waiting, TypeOK, RowsAreAsked
<1>. DEFINE outcome == IF table[r].misses + 1 >= MaxMisses THEN "refused" ELSE "none"
<1>3. outcome \in {"none", "refused"}
  OBVIOUS
<1>4. /\ table'[r] = [table[r] EXCEPT !.misses = table[r].misses + 1, !.outcome = outcome]
      /\ \A s \in Request \ {r} : table'[s] = table[s]
  <2>1. table' = [table EXCEPT
            ![r] = [table[r] EXCEPT !.misses = table[r].misses + 1, !.outcome = outcome]]
    BY <1>1, <1>2 DEF Missed, Row
  <2>. QED  BY <1>1, <2>1 DEF TypeOK
<1>. HIDE DEF outcome
<1>5. /\ table'[r] \in Row /\ table'[r].claimed = table[r].claimed
      /\ table'[r].outcome = outcome
  <2>1. /\ table[r].misses \in Nat /\ table[r].account \in Account \cup {Nobody}
        /\ table[r].expires \in Nat /\ table[r].claimed \in BOOLEAN
    BY <1>2 DEF Row
  <2>2. table'[r] = [outcome |-> outcome, account |-> table[r].account,
                     claimed |-> table[r].claimed, misses |-> table[r].misses + 1,
                     expires |-> table[r].expires]
    BY <1>2, <1>4 DEF Row
  <2>. QED  BY <1>3, <2>1, <2>2 DEF Row
<1>. QED  BY <1>1, <1>2, <1>3, <1>4, <1>5, OneRowOneStage DEF StageOf

LEMMA SpentClaims ==
    ASSUME TypeOK, RowsAreAsked, ClaimsAreApproved, NEW c \in Caller, NEW k \in Connection,
           Spent(c, k), NEW r, r = calls[c].request, NEW a, a = calls[c].account
    PROVE  /\ r \in Request /\ a \in Account
           /\ StageOf(r) = [at |-> "approved", by |-> a]
           /\ StageOf(r)' = [at |-> "claimed", by |-> a]
           /\ \A s \in Request \ {r} : StageOf(s)' = StageOf(s)
           /\ sessions[k] = NoSession
           /\ sessions' = [sessions EXCEPT ![k] = [request |-> r, account |-> a, live |-> TRUE]]
<1>. USE NullAssumption
<1>1. r \in Request /\ a \in Account
  BY StepsTellCalls DEF Spent, ClaimCall
<1>2. /\ table[r] \in Row /\ table[r] # NoRow /\ ~table[r].claimed
      /\ table[r].outcome = "approved" /\ table[r].account = a
      /\ r \in asked /\ asked' = asked
  BY <1>1 DEF Spent, Unclaimed, TypeOK, RowsAreAsked, ClaimsAreApproved
<1>3. /\ table'[r] = [table[r] EXCEPT !.claimed = TRUE]
      /\ \A s \in Request \ {r} : table'[s] = table[s]
  BY <1>1, <1>2 DEF Spent, TypeOK, Row
<1>4. table'[r] \in Row /\ table'[r].account = a /\ table'[r].claimed
  BY <1>2, <1>3 DEF Row
<1>5. StageOf(r) = [at |-> "approved", by |-> a] /\ StageOf(r)' = [at |-> "claimed", by |-> a]
  BY <1>2, <1>4 DEF StageOf
<1>. QED  BY <1>1, <1>2, <1>3, <1>5, OneRowOneStage DEF Spent, Opened

-----------------------------------------------------------------------------
(* What the extension and the console are promised.                         *)

\* The stages, as the promise sees them.
Stages == [r \in Request |-> StageOf(r)]

LEMMA StagesMove ==
    ASSUME NEW r \in Request, NEW to, StageOf(r)' = to,
           \A s \in Request \ {r} : StageOf(s)' = StageOf(s)
    PROVE  Stages' = [Stages EXCEPT ![r] = to]
BY DEF Stages

\* The steps that keep every stage.
LEMMA StagesStay ==
    ASSUME UNCHANGED <<table, asked>>
    PROVE  Stages' = Stages
BY DEF Stages, StageOf

LEMMA PromisedFirst == Init => Promise!Init
<1>. SUFFICES ASSUME Init  PROVE Promise!Init
  OBVIOUS
<1>1. \A r \in Request : StageOf(r) = [at |-> "new", by |-> Nobody]
  BY DEF Init, StageOf
<1>. QED  BY <1>1 DEF Init, Promise!Init, Promise!Stage

LEMMA PromisedStep ==
    ASSUME IInv, Next
    PROVE  UNCHANGED <<Stages, sessions>> \/ Promise!Next
<1>. USE DEF IInv
<1>1. ASSUME NEW c \in Caller, StartCalled(c)  PROVE Promise!Next
  <2>1. Expired \in SUBSET Request
    BY DEF Expired
  <2>2. /\ \A r \in Expired : StageOf(r).at # "new"
        /\ \A r \in Request : StageOf(r)' = IF r \in Expired THEN [at |-> "gone", by |-> Nobody]
                                            ELSE StageOf(r)
    BY <1>1, StartCalledForgets
  <2>3. Promise!Forget(Expired)
    BY <1>1, <2>1, <2>2 DEF StartCalled, Promise!Forget, Promise!Stage
  <2>. QED  BY <2>1, <2>3 DEF Promise!Next
<1>2. ASSUME NEW c \in Caller, Missed(c)  PROVE UNCHANGED <<Stages, sessions>> \/ Promise!Next
  <2>1. PICK r : r = calls[c].request
    OBVIOUS
  <2>2. /\ r \in Request
        /\ StageOf(r) = [at |-> "pending", by |-> Nobody]
        /\ StageOf(r)' \in {StageOf(r), [at |-> "refused", by |-> Nobody]}
        /\ \A s \in Request \ {r} : StageOf(s)' = StageOf(s)
    BY <1>2, <2>1, MissedRefusesOrNot
  <2>3. sessions' = sessions
    BY <1>2 DEF Missed
  <2>4. CASE StageOf(r)' = StageOf(r)
    BY <2>2, <2>3, <2>4 DEF Stages
  <2>5. CASE StageOf(r)' = [at |-> "refused", by |-> Nobody]
    <3>1. Stages' = [Stages EXCEPT ![r] = [at |-> "refused", by |-> Nobody]]
      BY <2>2, <2>5, StagesMove
    <3>2. Promise!Refuse(r)
      BY <2>2, <2>3, <3>1 DEF Promise!Refuse, Promise!Moves, Promise!Stage, Stages
    <3>. QED  BY <2>2, <3>2 DEF Promise!Next
  <2>. QED  BY <2>2, <2>4, <2>5
<1>3. ASSUME NEW c \in Caller, Answered(c)  PROVE Promise!Next
  <2>1. PICK r : r = calls[c].request
    OBVIOUS
  <2>2. PICK a : a = calls[c].account
    OBVIOUS
  <2>3. /\ r \in Request /\ a \in Account
        /\ StageOf(r) = [at |-> "pending", by |-> Nobody]
        /\ \/ StageOf(r)' = [at |-> "approved", by |-> a]
           \/ StageOf(r)' = [at |-> "refused", by |-> Nobody]
        /\ \A s \in Request \ {r} : StageOf(s)' = StageOf(s)
    BY <1>3, <2>1, <2>2, AnsweredAnswers
  <2>4. sessions' = sessions
    BY <1>3 DEF Answered
  <2>5. CASE StageOf(r)' = [at |-> "approved", by |-> a]
    <3>1. Stages' = [Stages EXCEPT ![r] = [at |-> "approved", by |-> a]]
      BY <2>3, <2>5, StagesMove
    <3>2. Promise!Approve(r, a)
      BY <2>3, <2>4, <3>1 DEF Promise!Approve, Promise!Moves, Promise!Stage, Stages
    <3>. QED  BY <2>3, <3>2 DEF Promise!Next
  <2>6. CASE StageOf(r)' = [at |-> "refused", by |-> Nobody]
    <3>1. Stages' = [Stages EXCEPT ![r] = [at |-> "refused", by |-> Nobody]]
      BY <2>3, <2>6, StagesMove
    <3>2. Promise!Refuse(r)
      BY <2>3, <2>4, <3>1 DEF Promise!Refuse, Promise!Moves, Promise!Stage, Stages
    <3>. QED  BY <2>3, <3>2 DEF Promise!Next
  <2>. QED  BY <2>3, <2>5, <2>6
<1>4. ASSUME NEW c \in Caller, NEW r \in Request, Created(c, r)  PROVE Promise!Next
  <2>1. /\ StageOf(r) = [at |-> "new", by |-> Nobody]
        /\ StageOf(r)' = [at |-> "pending", by |-> Nobody]
        /\ \A s \in Request \ {r} : StageOf(s)' = StageOf(s)
    BY <1>4, CreatedAsks
  <2>2. Stages' = [Stages EXCEPT ![r] = [at |-> "pending", by |-> Nobody]]
    BY <2>1, StagesMove
  <2>3. sessions' = sessions
    BY <1>4 DEF Created
  <2>4. Promise!Ask(r)
    BY <2>1, <2>2, <2>3 DEF Promise!Ask, Promise!Moves, Promise!Stage, Stages
  <2>. QED  BY <2>4 DEF Promise!Next
<1>5. ASSUME NEW c \in Caller, NEW k \in Connection, Spent(c, k)  PROVE Promise!Next
  <2>1. PICK r : r = calls[c].request
    OBVIOUS
  <2>2. PICK a : a = calls[c].account
    OBVIOUS
  <2>3. /\ r \in Request /\ a \in Account
        /\ StageOf(r) = [at |-> "approved", by |-> a]
        /\ StageOf(r)' = [at |-> "claimed", by |-> a]
        /\ \A s \in Request \ {r} : StageOf(s)' = StageOf(s)
        /\ sessions[k] = NoSession
        /\ sessions' = [sessions EXCEPT ![k] = [request |-> r, account |-> a, live |-> TRUE]]
    BY <1>5, <2>1, <2>2, SpentClaims
  <2>4. Stages' = [Stages EXCEPT ![r] = [at |-> "claimed", by |-> a]]
    BY <2>3, StagesMove
  <2>5. Promise!Claim(r, a, k)
    BY <2>3, <2>4 DEF Promise!Claim, Promise!Moves, Promise!Stage, Stages
  <2>. QED  BY <2>3, <2>5 DEF Promise!Next
<1>6. CASE Reads
  BY <1>6, ReadsWriteNothing, StagesStay
<1>7. CASE Ends
  <2>1. PICK ended \in SUBSET Connection :
           (\A k \in ended : sessions[k] # NoSession) /\ Ending(ended)
    BY <1>7, EndsOnlyEnd
  <2>2. Stages' = Stages
    BY <1>7, EndsKeepRows, StagesStay
  <2>3. Promise!End(ended)
    BY <2>1, <2>2 DEF Promise!End, Ending, Stages
  <2>. QED  BY <2>3 DEF Promise!Next
<1>8. CASE Others
  BY <1>8, OthersKeepRows, StagesStay
<1>. QED  BY <1>1, <1>2, <1>3, <1>4, <1>5, <1>6, <1>7, <1>8, NextByWrites

\* Every step of the statements is a step of ConnectPromise or changes nothing of it:
\* a request is answered once and claimed once, and what the claim opens is of the
\* account that approved, whatever runs at once.
THEOREM PromiseAlwaysKept == Spec => PromiseIsKept
<1>1. Init => Promise!Init
  BY PromisedFirst
<1>2. IInv /\ [Next]_vars => [UNCHANGED Promise!vars \/ Promise!Next]_(Promise!vars)
  <2>1. ASSUME IInv, Next  PROVE UNCHANGED Promise!vars \/ Promise!Next
    BY <2>1, PromisedStep DEF Stages, Promise!vars
  <2>2. ASSUME UNCHANGED vars  PROVE UNCHANGED Promise!vars
    BY <2>2, StagesStay DEF vars, Stages, Promise!vars
  <2>. QED  BY <2>1, <2>2
<1>. QED  BY <1>1, <1>2, IInvHolds, PTL DEF Spec, PromiseIsKept

\* A request is approved by an answer that compared its word, although the route goes on
\* without comparing it when the request no longer waits.
THEOREM AlwaysApprovedWithTheWord == Spec => ApprovedWithTheWord
<1>. DEFINE
    Compared == \A r \in Request :
          StageOf(r).at = "pending" /\ StageOf(r)'.at = "approved"
             => \E c \in Caller : At(c, "answer") /\ calls[c].request = r /\ calls[c].word
<1>1. ASSUME IInv, Next  PROVE Compared
  <2>. SUFFICES ASSUME NEW r \in Request, StageOf(r).at = "pending", StageOf(r)'.at = "approved"
                PROVE  \E c \in Caller : At(c, "answer") /\ calls[c].request = r /\ calls[c].word
    OBVIOUS
  <2>. USE <1>1 DEF IInv
  <2>1. ASSUME NEW c \in Caller, StartCalled(c)  PROVE FALSE
    BY <2>1, StartCalledForgets
  <2>2. ASSUME NEW c \in Caller, Missed(c)  PROVE FALSE
    <3>1. PICK s : s = calls[c].request
      OBVIOUS
    <3>. QED  BY <2>2, <3>1, MissedRefusesOrNot
  <2>3. ASSUME NEW c \in Caller, Answered(c)
        PROVE  At(c, "answer") /\ calls[c].request = r /\ calls[c].word
    <3>1. PICK s : s = calls[c].request
      OBVIOUS
    <3>2. s = r /\ calls[c].outcome = "approved"
      BY <2>3, <3>1, AnsweredAnswers
    <3>3. At(c, "answer") /\ Waiting(r, calls[c].at)
      BY <2>3, <3>1, <3>2 DEF Answered
    <3>. QED  BY <3>1, <3>2, <3>3 DEF WordsWereCompared
  <2>4. ASSUME NEW c \in Caller, NEW s \in Request, Created(c, s)  PROVE FALSE
    BY <2>4, CreatedAsks
  <2>5. ASSUME NEW c \in Caller, NEW k \in Connection, Spent(c, k)  PROVE FALSE
    <3>1. PICK s, a : s = calls[c].request /\ a = calls[c].account
      OBVIOUS
    <3>. QED  BY <2>5, <3>1, SpentClaims
  <2>6. ASSUME UNCHANGED <<table, asked>>  PROVE FALSE
    BY <2>6 DEF StageOf
  <2>. QED
    BY <2>1, <2>2, <2>3, <2>4, <2>5, <2>6, NextByWrites, ReadsWriteNothing, EndsKeepRows,
       OthersKeepRows
<1>2. IInv /\ [Next]_vars => [Compared]_vars
  BY <1>1
<1>. QED  BY <1>2, IInvHolds, PTL DEF Spec, ApprovedWithTheWord

-----------------------------------------------------------------------------
(* The requests that wait, counted.                                         *)

\* The requests that wait as of an instant, and the calls that were let through the count.
WaitingAt(at) == {r \in Request : Waiting(r, at)}
Inserting == {c \in Caller : At(c, "insert")}

\* The count is as of an instant that is past, or now.
CountsArePast == \A c \in Caller : At(c, "count") => calls[c].at <= clock

\* The table holds what is waiting, however many requests there could be.
AskedIsFinite == IsFiniteSet(asked)

BurstIInv == CountsArePast /\ AskedIsFinite /\ BurstIsBounded

LEMMA WaitingAreAsked ==
    ASSUME TypeOK, RowsAreAsked, NEW at
    PROVE  WaitingAt(at) \subseteq asked
BY DEF WaitingAt, Waiting, RowsAreAsked

\* Later, what waits is less.
LEMMA WaitingShrinks ==
    ASSUME TypeOK, NEW at \in Nat, NEW later \in Nat, at <= later
    PROVE  WaitingAt(later) \subseteq WaitingAt(at)
<1>. SUFFICES ASSUME NEW r \in Request, Waiting(r, later)  PROVE Waiting(r, at)
  BY DEF WaitingAt
<1>1. table[r].expires \in Nat
  BY NullAssumption DEF TypeOK, Waiting, Row
<1>. QED  BY <1>1 DEF Waiting

\* A call is let through by the count, and by nothing else.
LEMMA InsertsMove ==
    ASSUME TypeOK, Next, NEW c \in Caller, At(c, "insert")'
    PROVE  At(c, "insert") \/ Counted(c)
<1>. USE NullAssumption DEF TypeOK, At, Serve, Starts, GoesOn, Answers
<1>1. ASSUME NEW d \in Caller, StartCalled(d) \/ Missed(d) \/ Answered(d)
      PROVE  At(c, "insert")
  BY <1>1 DEF StartCalled, Missed, Answered
<1>2. ASSUME NEW d \in Caller, NEW r \in Request, Created(d, r)  PROVE At(c, "insert")
  BY <1>2 DEF Created
<1>3. ASSUME NEW d \in Caller, NEW k \in Connection, Spent(d, k)  PROVE At(c, "insert")
  BY <1>3 DEF Spent
<1>4. ASSUME NEW d \in Caller, Counted(d)  PROVE At(c, "insert") \/ Counted(c)
  BY <1>4 DEF Counted
<1>5. ASSUME NEW d \in Caller,
             Busy(d) \/ AnswerRefused(d) \/ AccountGone(d) \/ NotSpent(d) \/ Stopped(d)
      PROVE  At(c, "insert")
  BY <1>5 DEF Busy, AnswerRefused, AccountGone, NotSpent, Stopped
<1>6. ASSUME NEW d \in Caller, MissedNothing(d) \/ AccountOpens(d)  PROVE At(c, "insert")
  BY <1>6, StepsTellCalls DEF MissedNothing, AccountOpens, AnswerCall, ClaimCall
<1>7. ASSUME NEW d \in Caller, NEW r \in Request, ClaimFound(d, r)  PROVE At(c, "insert")
  BY <1>7 DEF ClaimFound
<1>8. ASSUME NEW d \in Caller, NEW r \in Request, NEW a \in Account, NEW word \in BOOLEAN,
             WordDiffers(d, r, a) \/ Refuses(d, r, a) \/ WordAgrees(d, r, a, word)
      PROVE  At(c, "insert")
  <2>1. \E step \in {"miss", "answer"} : calls'[d].step = step /\ calls' = [calls EXCEPT ![d] = calls'[d]]
    <3>1. CASE WordDiffers(d, r, a)
      BY <3>1 DEF WordDiffers, AnswerStarts
    <3>2. CASE Refuses(d, r, a)
      BY <3>2 DEF Refuses, AnswerStarts
    <3>3. CASE WordAgrees(d, r, a, word)
      BY <3>3 DEF WordAgrees, AnswerStarts
    <3>. QED  BY <1>8, <3>1, <3>2, <3>3
  <2>. QED  BY <2>1
<1>. HIDE DEF TypeOK, At, Serve, Starts, GoesOn, Answers
<1>9. CASE Reads
  BY <1>4, <1>5, <1>6, <1>7, <1>8, <1>9 DEF Reads
<1>10. CASE UNCHANGED calls
  BY <1>10 DEF At
<1>. QED  BY <1>1, <1>2, <1>3, <1>9, <1>10, NextByWrites, EndsKeepRows, OthersKeepRows

\* Only a call that starts comes to the count, and it takes the instant it starts at.
LEMMA CountsMove ==
    ASSUME TypeOK, Next, NEW c \in Caller, At(c, "count")'
    PROVE  (At(c, "count") /\ calls'[c].at = calls[c].at) \/ calls'[c].at = clock
<1>. USE NullAssumption DEF TypeOK, At, Serve, Starts, GoesOn, Answers
<1>1. ASSUME NEW d \in Caller, StartCalled(d)
      PROVE  calls'[c] = calls[c] \/ calls'[c].at = clock
  BY <1>1 DEF StartCalled
<1>2. ASSUME NEW d \in Caller, Missed(d) \/ Answered(d)  PROVE calls'[c] = calls[c]
  BY <1>2 DEF Missed, Answered
<1>3. ASSUME NEW d \in Caller, NEW r \in Request, Created(d, r)  PROVE calls'[c] = calls[c]
  BY <1>3 DEF Created
<1>4. ASSUME NEW d \in Caller, NEW k \in Connection, Spent(d, k)  PROVE calls'[c] = calls[c]
  BY <1>4 DEF Spent
<1>5. ASSUME NEW d \in Caller,
             Busy(d) \/ AnswerRefused(d) \/ AccountGone(d) \/ NotSpent(d) \/ Stopped(d)
      PROVE  calls'[c] = calls[c]
  BY <1>5 DEF Busy, AnswerRefused, AccountGone, NotSpent, Stopped
<1>6. ASSUME NEW d \in Caller, Counted(d) \/ MissedNothing(d) \/ AccountOpens(d)
      PROVE  calls'[c] = calls[c]
  BY <1>6, StepsTellCalls DEF Counted, MissedNothing, AccountOpens, StartCall, AnswerCall, ClaimCall
<1>7. ASSUME NEW d \in Caller, NEW r \in Request, ClaimFound(d, r)  PROVE calls'[c] = calls[c]
  BY <1>7 DEF ClaimFound
<1>8. ASSUME NEW d \in Caller, NEW r \in Request, NEW a \in Account, NEW word \in BOOLEAN,
             WordDiffers(d, r, a) \/ Refuses(d, r, a) \/ WordAgrees(d, r, a, word)
      PROVE  calls'[c] = calls[c]
  <2>1. \E step \in {"miss", "answer"} : calls'[d].step = step /\ calls' = [calls EXCEPT ![d] = calls'[d]]
    <3>1. CASE WordDiffers(d, r, a)
      BY <3>1 DEF WordDiffers, AnswerStarts
    <3>2. CASE Refuses(d, r, a)
      BY <3>2 DEF Refuses, AnswerStarts
    <3>3. CASE WordAgrees(d, r, a, word)
      BY <3>3 DEF WordAgrees, AnswerStarts
    <3>. QED  BY <1>8, <3>1, <3>2, <3>3
  <2>. QED  BY <2>1
<1>9. ASSUME Reads  PROVE calls'[c] = calls[c]
  <2>1. ASSUME NEW d \in Caller, NEW r \in Request, NEW a \in Account,
               WordDiffers(d, r, a) \/ Refuses(d, r, a)
        PROVE  calls'[c] = calls[c]
    <3>1. TRUE \in BOOLEAN
      OBVIOUS
    <3>. QED  BY <1>8, <2>1, <3>1
  <2>. QED  BY <1>5, <1>6, <1>7, <1>8, <1>9, <2>1 DEF Reads
<1>10. ASSUME calls'[c] = calls[c]  PROVE At(c, "count") /\ calls'[c].at = calls[c].at
  BY <1>10 DEF At
<1>. QED
  BY <1>1, <1>2, <1>3, <1>4, <1>9, <1>10, NextByWrites, EndsKeepRows, OthersKeepRows

\* What waits is bounded by what waited and, after Created, one more.
LEMMA WaitingMoves ==
    ASSUME TypeOK, RowsAreAsked, Next, NEW at \in Nat, NEW added, asked' \subseteq asked \cup added
    PROVE  WaitingAt(at)' \subseteq WaitingAt(at) \cup added
<1>. SUFFICES ASSUME NEW r \in Request, Waiting(r, at)', r \notin added  PROVE Waiting(r, at)
  BY DEF WaitingAt
<1>1. r \in asked
  BY RowsAreAskedStep DEF RowsAreAsked, Waiting
<1>. QED  BY <1>1, WaitingGoesForGood

LEMMA ClockGrows ==
    ASSUME TypeOK, Next
    PROVE  clock \in Nat /\ clock' \in Nat /\ clock <= clock'
<1>1. ASSUME NEW c \in Caller, StartCalled(c) \/ Missed(c) \/ Answered(c)  PROVE clock' = clock
  BY <1>1 DEF StartCalled, Missed, Answered
<1>2. ASSUME NEW c \in Caller, NEW r \in Request, Created(c, r)  PROVE clock' = clock
  BY <1>2 DEF Created
<1>3. ASSUME NEW c \in Caller, NEW k \in Connection, Spent(c, k)  PROVE clock' = clock
  BY <1>3 DEF Spent
<1>4. ASSUME Others  PROVE clock' = clock \/ clock' = clock + 1
  BY <1>4 DEF Others, Tick, Suspend, Restore
<1>5. clock' = clock \/ clock' = clock + 1
  BY <1>1, <1>2, <1>3, <1>4, NextByWrites, ReadsWriteNothing, EndsKeepRows
<1>. QED  BY <1>5 DEF TypeOK

LEMMA CountsArePastStep ==
    ASSUME TypeOK, CountsArePast, Next
    PROVE  CountsArePast'
<1>1. clock \in Nat /\ clock' \in Nat /\ clock <= clock'
  BY ClockGrows
<1>. SUFFICES ASSUME NEW c \in Caller, At(c, "count")'  PROVE calls'[c].at <= clock'
  BY DEF CountsArePast
<1>2. ASSUME At(c, "count")  PROVE calls[c].at \in Nat /\ calls[c].at <= clock
  BY <1>2, StepsTellCalls DEF CountsArePast, StartCall
<1>. QED  BY <1>1, <1>2, CountsMove

LEMMA AskedByCreated ==
    ASSUME Next
    PROVE  \/ asked' = asked
           \/ \E c \in Caller, r \in Request : Created(c, r)
BY NextByWrites, ReadsWriteNothing, EndsKeepRows, OthersKeepRows
   DEF StartCalled, Missed, Answered, Spent

LEMMA BurstStep ==
    ASSUME TypeOK, RowsAreAsked, BurstIInv, Next
    PROVE  BurstIInv'
<1>. USE DEF BurstIInv
<1>. DEFINE W == WaitingAt(clock)
            I == Inserting
<1>1. CountsArePast'
  BY CountsArePastStep
<1>2. AskedIsFinite'
  <2>1. ASSUME NEW c \in Caller, NEW r \in Request, Created(c, r)  PROVE IsFiniteSet(asked')
    BY <2>1, FS_AddElement DEF Created, AskedIsFinite
  <2>. QED  BY <2>1, AskedByCreated DEF AskedIsFinite
<1>3. /\ W \subseteq asked /\ IsFiniteSet(W) /\ Cardinality(W) \in Nat
      /\ I \subseteq Caller /\ IsFiniteSet(I) /\ Cardinality(I) \in Nat
      /\ Cardinality(Caller) \in Nat
  BY WaitingAreAsked, CallersAssumption, FS_Subset, FS_CardinalityType DEF AskedIsFinite, Inserting
<1>4. Cardinality(W) + Cardinality(I) <= MaxLive + Cardinality(Caller) - 1
  BY DEF BurstIsBounded, WaitingAt, Inserting
<1>5. MaxLive \in Nat /\ clock \in Nat
  BY LimitsAssumption DEF TypeOK
<1>6. SUFFICES ASSUME TRUE
               PROVE  Cardinality(W') + Cardinality(I') <= MaxLive + Cardinality(Caller) - 1
  BY <1>1, <1>2 DEF BurstIsBounded, WaitingAt, Inserting
<1>7. I' \subseteq Caller /\ IsFiniteSet(I') /\ Cardinality(I') \in Nat
      /\ Cardinality(I') <= Cardinality(Caller)
  BY CallersAssumption, FS_Subset, FS_CardinalityType DEF Inserting
<1>8. ASSUME NEW c \in Caller, Counted(c)
      PROVE  Cardinality(W') + Cardinality(I') <= MaxLive + Cardinality(Caller) - 1
  <2>1. calls[c].at \in Nat /\ calls[c].at <= clock
    BY <1>8, StepsTellCalls DEF Counted, CountsArePast, StartCall
  <2>2. PICK V : V = WaitingAt(calls[c].at)
    OBVIOUS
  <2>3. Cardinality(V) < MaxLive
    BY <1>8, <2>2 DEF Counted, WaitingAt
  <2>4. IsFiniteSet(V) /\ Cardinality(V) \in Nat
    BY <2>2, WaitingAreAsked, FS_Subset, FS_CardinalityType DEF AskedIsFinite
  <2>5. W \subseteq V
    BY <1>5, <2>1, <2>2, WaitingShrinks
  <2>6. W' = W
    BY <1>8 DEF Counted, WaitingAt, Waiting
  <2>7. Cardinality(W) <= Cardinality(V)
    BY <2>4, <2>5, FS_Subset
  <2>. HIDE DEF W, I
  <2>. QED  BY <1>3, <1>5, <1>7, <2>3, <2>4, <2>6, <2>7
<1>9. ASSUME NEW c \in Caller, NEW r \in Request, Created(c, r)
      PROVE  Cardinality(W') + Cardinality(I') <= MaxLive + Cardinality(Caller) - 1
  <2>1. W' \subseteq W \cup {r}
    <3>1. asked' \subseteq asked \cup {r} /\ clock' = clock
      BY <1>9 DEF Created
    <3>. QED  BY <1>5, <3>1, WaitingMoves DEF WaitingAt
  <2>2. c \in I
    BY <1>9 DEF Created, Inserting
  <2>3. I' \subseteq I \ {c}
    BY <1>9, NullAssumption DEF Created, Inserting, At, Answers, Serve, TypeOK
  <2>. HIDE DEF W, I
  <2>4. Cardinality(W') <= Cardinality(W) + 1 /\ Cardinality(W') \in Nat
    <3>1. /\ IsFiniteSet(W \cup {r})
          /\ Cardinality(W \cup {r}) = IF r \in W THEN Cardinality(W) ELSE Cardinality(W) + 1
      BY <1>3, FS_AddElement
    <3>2. IsFiniteSet(W') /\ Cardinality(W') <= Cardinality(W \cup {r})
      BY <2>1, <3>1, FS_Subset
    <3>. QED  BY <1>3, <3>1, <3>2, FS_CardinalityType
  <2>5. Cardinality(I') <= Cardinality(I) - 1
    <3>1. IsFiniteSet(I \ {c}) /\ Cardinality(I \ {c}) = Cardinality(I) - 1
      BY <1>3, <2>2, FS_RemoveElement
    <3>2. Cardinality(I') <= Cardinality(I \ {c})
      BY <2>3, <3>1, FS_Subset
    <3>. QED  BY <3>1, <3>2
  <2>. QED  BY <1>3, <1>4, <1>5, <1>7, <2>4, <2>5
<1>10. ASSUME ~\E c \in Caller : Counted(c),
              ~\E c \in Caller, r \in Request : Created(c, r)
       PROVE  Cardinality(W') + Cardinality(I') <= MaxLive + Cardinality(Caller) - 1
  <2>1. I' \subseteq I
    BY <1>10, InsertsMove DEF Inserting
  <2>2. W' \subseteq W
    <3>1. clock' \in Nat /\ clock <= clock'
      BY ClockGrows
    <3>2. asked' \subseteq asked \cup {}
      BY <1>10, AskedByCreated
    <3>3. PICK now : now = clock'
      OBVIOUS
    <3>4. WaitingAt(now)' \subseteq WaitingAt(now) \cup {}
      BY <3>1, <3>2, <3>3, WaitingMoves
    <3>5. WaitingAt(now) \subseteq WaitingAt(clock)
      BY <1>5, <3>1, <3>3, WaitingShrinks
    <3>6. W' = WaitingAt(now)'
      BY <3>3 DEF WaitingAt, Waiting
    <3>. QED  BY <3>4, <3>5, <3>6
  <2>. HIDE DEF W, I
  <2>3. Cardinality(W') <= Cardinality(W) /\ Cardinality(W') \in Nat
    BY <1>3, <2>2, FS_Subset, FS_CardinalityType
  <2>4. Cardinality(I') <= Cardinality(I)
    BY <1>3, <2>1, FS_Subset
  <2>. QED  BY <1>3, <1>4, <1>5, <1>7, <2>3, <2>4
<1>. QED  BY <1>8, <1>9, <1>10

LEMMA BurstFirst == Init => BurstIInv
<1>. SUFFICES ASSUME Init  PROVE BurstIInv
  OBVIOUS
<1>1. CountsArePast /\ AskedIsFinite
  BY FS_EmptySet DEF Init, CountsArePast, AskedIsFinite, At
<1>2. WaitingAt(clock) = {} /\ Inserting = {}
  BY DEF Init, WaitingAt, Waiting, Inserting, At
<1>3. Cardinality(Caller) \in Nat /\ Cardinality(WaitingAt(clock)) = 0 /\ Cardinality(Inserting) = 0
  BY <1>2, CallersAssumption, FS_EmptySet, FS_CardinalityType
<1>4. Cardinality(WaitingAt(clock)) + Cardinality(Inserting) <= MaxLive + Cardinality(Caller) - 1
  BY <1>3, LimitsAssumption
<1>. QED  BY <1>1, <1>4 DEF BurstIInv, BurstIsBounded, WaitingAt, Inserting

\* However many callers pass the count together, the requests that wait are one per
\* other caller more than MAX_LIVE_REQUESTS at most.
THEOREM BurstIsAlwaysBounded == Spec => []BurstIsBounded
<1>1. ASSUME BurstIInv, UNCHANGED vars  PROVE BurstIInv'
  BY <1>1 DEF BurstIInv, CountsArePast, AskedIsFinite, BurstIsBounded, vars, At, Waiting
<1>2. IInv /\ BurstIInv /\ [Next]_vars => BurstIInv'
  BY <1>1, BurstStep DEF IInv
<1>3. BurstIInv => BurstIsBounded
  BY DEF BurstIInv
<1>. QED  BY <1>2, <1>3, BurstFirst, IInvHolds, PTL DEF Spec
=============================================================================
