------------------------ MODULE SessionPostgresProofs ------------------------
EXTENDS SessionPostgres, TLAPS

-----------------------------------------------------------------------------
(* The rows, and who holds them.                                            *)

TypeOK ==
    /\ \A t \in Token : table[t] \in SessionRow \cup {NoRow}
    /\ \A k \in Code : table[k] \in CodeRow \cup {NoRow}
    /\ table = [k \in Digest |-> table[k]]
    /\ draft \in [Caller -> [Digest -> SessionRow \cup CodeRow \cup {NoRow, Untouched}]]
    /\ \A c \in Caller, t \in Token : draft[c][t] \in SessionRow \cup {NoRow, Untouched}
    /\ \A c \in Caller, k \in Code : draft[c][k] \in CodeRow \cup {NoRow, Untouched}
    /\ holder \in [Digest -> Caller \cup {Nobody}]
    /\ calls \in [Caller -> CallRecord \cup {Nothing}]
    /\ issued \subseteq Digest
    /\ clock \in 0..MaxClock

RowsAreIssued == \A k \in Digest : table[k] # NoRow => k \in issued

HeldAreThere == \A k \in Digest : holder[k] # Nobody => table[k] # NoRow

\* A chain has one person, one expiry, one code and one head, and until it expires its
\* head is there.
ChainsHold ==
    \A t \in Token : table[t] # NoRow =>
        LET r == table[t].root
            p == table[t].pred
        IN /\ r \in issued
           /\ table[r] # NoRow =>
                 /\ table[r].root = r
                 /\ table[r].subject = table[t].subject
                 /\ table[r].expires = table[t].expires
                 /\ table[r].code = table[t].code
           /\ clock < table[t].expires => table[r] # NoRow
           /\ p # t
           /\ p # NoToken => p \in issued /\ (table[p] # NoRow => table[p].root = r)

\* What a transaction wrote it holds, or drew for itself.
WritesAreHeld ==
    \A c \in Caller, k \in Digest : draft[c][k] # Untouched =>
        /\ holder[k] = c \/ k \notin issued
        /\ \A d \in Caller : draft[d][k] # Untouched => d = c

Clear(c) == \A k \in Digest : draft[c][k] = Untouched

IdleHoldNothing ==
    \A c \in Caller : calls[c] = Nothing => Clear(c) /\ \A k \in Digest : holder[k] # c

RowsOK == TypeOK /\ RowsAreIssued /\ HeldAreThere /\ ChainsHold /\ WritesAreHeld /\ IdleHoldNothing

-----------------------------------------------------------------------------
(* What a call has done when it comes to a statement.                       *)

Todo(c) == calls[c].todo
Wrote(c, k) == draft[c][k] # Untouched
Doing(c, does) == calls[c].does = does

\* It holds the row if there is one, or is about to.
Has(c, k) == table[k] = NoRow \/ holder[k] = c
Takes(c, k) == Has(c, k) \/ k \in Todo(c)

\* It wrote this over the row that it holds.
Over(c, k, row) == holder[k] = c /\ draft[c][k] = row

\* The statement wrote the row, or is still to take it.
Reached(c, k) == Wrote(c, k) \/ k \in Todo(c)

\* Every call: the statement takes rows that were committed and that it did not write.
AnyOK(c) ==
    /\ Todo(c) \subseteq issued
    /\ \A k \in Todo(c) : ~Wrote(c, k)
    /\ calls[c].at <= clock

Deleted(c, k) == Over(c, k, NoRow) /\ table[k].expires <= calls[c].at

\* A purge that takes a token takes its head: they expire together.
HeadsGoToo(c) ==
    \A t \in Token : table[t] # NoRow /\ Reached(c, t) =>
        table[table[t].root] = NoRow \/ Reached(c, table[t].root)

PurgeOK(c, kind) ==
    /\ Doing(c, "delete")
    /\ Todo(c) \subseteq kind
    /\ \A k \in Digest : Wrote(c, k) => k \in kind /\ Deleted(c, k)
    /\ \A k \in Todo(c) : table[k] # NoRow => table[k].expires <= calls[c].at

CodeSpent(c) ==
    LET k == calls[c].key
    IN /\ Over(c, k, [table[k] EXCEPT !.redeemed = TRUE])
       /\ ~table[k].redeemed
       /\ calls[c].at < table[k].expires

Opens(c, t) ==
    LET k == calls[c].key
    IN /\ t \notin issued
       /\ draft[c][t] =
            [subject |-> table[k].subject, name |-> table[k].name, email |-> calls[c].email,
             expires |-> calls[c].at + SessionTtl, revoked |-> FALSE, rotated |-> NotRotated,
             pred |-> NoToken, root |-> t, code |-> k]

PairOK(c) ==
    LET k == calls[c].key
    IN /\ k \in Code \cap issued
       /\ \/ calls[c].pc = "codesPurged" /\ PurgeOK(c, Code)
          \/ calls[c].pc = "sessionsPurged" /\ PurgeOK(c, Token) /\ HeadsGoToo(c)
          \/ calls[c].pc \in {"purgeSessions", "readCode"} /\ Todo(c) = {} /\ Clear(c)
          \/ calls[c].pc = "spendCode" /\ Todo(c) = {} /\ Clear(c) /\ calls[c].email \in Email
          \/ /\ calls[c].pc = "openSession" /\ Doing(c, "spend") /\ calls[c].email \in Email
             /\ Todo(c) \subseteq {k}
             /\ \A j \in Digest : Wrote(c, j) => j = k /\ CodeSpent(c)
          \/ /\ calls[c].pc = "commit" /\ Todo(c) = {}
             /\ \/ Clear(c)
                \/ \E t \in Token :
                      /\ CodeSpent(c) /\ Opens(c, t) /\ calls[c].email \in Email
                      /\ \A j \in Digest \ {k, t} : ~Wrote(c, j)

-----------------------------------------------------------------------------
InChain(c, t) == t \in Token /\ table[t] # NoRow /\ table[t].root = calls[c].root

\* It wrote nothing but the end of tokens of the chain, and of these.
Ended(c, k) == Wrote(c, k) => InChain(c, k) /\ Over(c, k, [table[k] EXCEPT !.revoked = TRUE])

\* It holds what it decided on.
Going(c) ==
    /\ holder[calls[c].key] = c
    /\ holder[calls[c].root] = c
    /\ calls[c].at < table[calls[c].key].expires

IsLate(c) ==
    LET row == table[calls[c].key]
    IN row.rotated # NotRotated /\ calls[c].at > row.rotated + Grace

Ending(c) == Going(c) /\ calls[c].keep = NoToken /\ (table[calls[c].key].revoked \/ IsLate(c))

Again(c) ==
    LET t == calls[c].key
    IN /\ Going(c)
       /\ calls[c].keep = t
       /\ ~table[t].revoked /\ table[t].rotated # NotRotated /\ ~IsLate(c)
       /\ ~Reached(c, t)

First(c) ==
    LET t == calls[c].key
    IN /\ Going(c)
       /\ calls[c].keep = NoToken
       /\ ~table[t].revoked /\ table[t].rotated = NotRotated

Gone_(c, u) == Reached(c, u) \/ table[u].revoked

LinksGo(c) ==
    \A u \in Token : InChain(c, u) /\ u # calls[c].root /\ u # calls[c].keep => Gone_(c, u)

ChainGoes(c) == \A u \in Token : InChain(c, u) /\ u # calls[c].keep => Gone_(c, u)

Succeeds(c, s) ==
    LET t == calls[c].key
    IN /\ s \in Token
       /\ s \notin issued
       /\ draft[c][s] = [table[t] EXCEPT !.pred = t, !.root = calls[c].root,
                                         !.rotated = NotRotated, !.revoked = FALSE]

Marked(c) ==
    LET t == calls[c].key IN Over(c, t, [table[t] EXCEPT !.rotated = calls[c].at])

\* The statement takes tokens of the chain only.
TakesChain(c) == \A k \in Todo(c) : k \in Token /\ (table[k] # NoRow => InChain(c, k))

EndsOnly(c) == Doing(c, "revoke") /\ TakesChain(c) /\ \A k \in Digest : Ended(c, k)

EndsBut(c, s) == TakesChain(c) /\ \A k \in Digest \ {s} : Ended(c, k)

RetiresPred(c) ==
    LET p == table[calls[c].key].pred
    IN /\ Todo(c) \subseteq {p}
       /\ p \in Token /\ table[p] # NoRow => Gone_(c, p)

RefreshOK(c) ==
    LET pc == calls[c].pc
        t == calls[c].key
    IN /\ table[t] # NoRow /\ calls[c].at < table[t].expires => table[calls[c].root] # NoRow
       /\ \/ pc = "holdChain" /\ Todo(c) = {} /\ Clear(c) /\ calls[c].keep = NoToken
          \/ /\ pc = "decide" /\ Doing(c, "hold") /\ Clear(c) /\ calls[c].keep = NoToken
             /\ Todo(c) \subseteq {t, calls[c].root}
             /\ Takes(c, t) /\ Takes(c, calls[c].root)
          \/ pc = "sweepHead" /\ (Ending(c) \/ Again(c)) /\ EndsOnly(c) /\ LinksGo(c)
          \/ pc = "insertSuccessor" /\ First(c) /\ Todo(c) = {} /\ Clear(c)
          \/ pc = "insertSuccessor" /\ Again(c) /\ EndsOnly(c) /\ ChainGoes(c)
          \/ /\ pc = "markRotated" /\ Todo(c) = {} /\ First(c)
             /\ \E s \in Token : Succeeds(c, s) /\ \A k \in Digest \ {s} : ~Wrote(c, k)
          \/ /\ pc \in {"markRotated", "retire", "commit"} /\ Todo(c) = {} /\ Again(c) /\ ChainGoes(c)
             /\ \E s \in Token : Succeeds(c, s) /\ EndsBut(c, s)
          \/ /\ pc = "retire" /\ Doing(c, "mark") /\ First(c) /\ Todo(c) \subseteq {t}
             /\ t \in Todo(c) \/ Marked(c)
             /\ \E s \in Token : Succeeds(c, s) /\ \A k \in Digest \ {s, t} : ~Wrote(c, k)
          \/ /\ pc = "commit" /\ Doing(c, "revoke") /\ First(c) /\ Marked(c) /\ RetiresPred(c)
             /\ \E s \in Token :
                   /\ Succeeds(c, s)
                   /\ \A k \in Digest \ {s, t} : Ended(c, k) /\ (Wrote(c, k) => k = table[t].pred)
          \/ pc = "commit" /\ Todo(c) = {} /\ Clear(c)
          \/ pc = "commit" /\ Ending(c) /\ EndsOnly(c) /\ ChainGoes(c)

LogoutOK(c) ==
    LET pc == calls[c].pc
        t == calls[c].key
        r == calls[c].root
    IN /\ calls[c].keep = NoToken
       /\ \/ pc = "holdChain" /\ Todo(c) = {} /\ Clear(c)
          \/ /\ pc = "revokeToken" /\ Doing(c, "hold") /\ Clear(c) /\ Todo(c) \subseteq {t, r}
             /\ Takes(c, t) /\ Takes(c, r)
          \/ /\ pc \in {"revokeChain", "sweepHead", "commit"} /\ Has(c, t) /\ Has(c, r) /\ EndsOnly(c)
             /\ pc = "sweepHead" => LinksGo(c)
             /\ pc = "commit" => ChainGoes(c)

ChainOK(c) ==
    LET t == calls[c].key
        r == calls[c].root
    IN /\ t \in Token \cap issued /\ r \in Token \cap issued
       /\ table[t] # NoRow => table[t].root = r
       /\ table[r] # NoRow => table[r].root = r
       /\ IF calls[c].op = "refresh" THEN RefreshOK(c) ELSE LogoutOK(c)

-----------------------------------------------------------------------------
Ours(c, k) == table[k] # NoRow => table[k].subject \in calls[c].who

ScopeOK(c) ==
    /\ calls[c].who \in Scope
    /\ calls[c].chains \subseteq Token \cap issued
    /\ calls[c].codes \subseteq Code \cap issued

EndsToken(c, k) == Ours(c, k) /\ Over(c, k, [table[k] EXCEPT !.revoked = TRUE])
SpendsCode(c, k) == Ours(c, k) /\ Over(c, k, [table[k] EXCEPT !.redeemed = TRUE])

FoundEnd(c) ==
    \A t \in Token : table[t] # NoRow /\ table[t].subject \in calls[c].who /\ table[t].root \in calls[c].chains
                        => Gone_(c, t)

\* The end of a link is the end of its head, or the head has ended.
HeadsEndToo(c) ==
    \A t \in Token : table[t] # NoRow /\ Reached(c, t) =>
        LET r == table[t].root
        IN table[r] # NoRow => Reached(c, r) \/ table[r].revoked

EndOK(c) ==
    LET pc == calls[c].pc
    IN /\ ScopeOK(c)
       /\ \/ /\ pc = "endSessions" /\ Doing(c, "hold") /\ Clear(c) /\ Todo(c) \subseteq Token
             /\ \A r \in calls[c].chains : Takes(c, r)
          \/ /\ pc \in {"endCodes", "commit"}
             /\ Doing(c, IF pc = "endCodes" THEN "revoke" ELSE "redeem")
             /\ Todo(c) \subseteq (IF pc = "endCodes" THEN Token ELSE Code)
             /\ \A k \in Todo(c) : Ours(c, k)
             /\ \A r \in calls[c].chains : Has(c, r)
             /\ \A t \in Token : Wrote(c, t) => EndsToken(c, t)
             /\ \A k \in Code : Wrote(c, k) => pc = "commit" /\ SpendsCode(c, k)
             /\ FoundEnd(c)
             /\ HeadsEndToo(c)
             /\ pc = "commit" => \A k \in calls[c].codes :
                   table[k] # NoRow /\ table[k].subject \in calls[c].who
                      => Reached(c, k) \/ table[k].redeemed

FoundBy(c, t) ==
    /\ table[t] # NoRow
    /\ table[t].subject \in calls[c].who
    /\ table[t].root \in calls[c].chains \/ table[t].code \in calls[c].codes

NameToken(c, t) == ~table[t].revoked /\ calls[c].at < table[t].expires
NameCode(c, k) == ~table[k].redeemed /\ calls[c].at < table[k].expires

Named(c, row) == IF calls[c].op = "rename" THEN [row EXCEPT !.name = calls[c].set]
                                           ELSE [row EXCEPT !.email = calls[c].set]

RewriteOK(c) ==
    LET pc == calls[c].pc
    IN /\ ScopeOK(c)
       /\ calls[c].set \in (IF calls[c].op = "rename" THEN Name ELSE Email)
       /\ \/ /\ pc = "holdSessions" /\ Doing(c, "hold") /\ Clear(c) /\ Todo(c) \subseteq Code
             /\ \A k \in calls[c].codes : Takes(c, k)
          \/ /\ pc = "rewriteSessions" /\ Doing(c, "hold") /\ Clear(c) /\ Todo(c) \subseteq Token
             /\ \A k \in calls[c].codes : Has(c, k)
             /\ \A t \in Token : FoundBy(c, t) => Takes(c, table[t].root)
          \/ /\ pc \in {"rewriteCodes", "commit"}
             /\ Doing(c, IF pc = "rewriteCodes" THEN "nameSession" ELSE "nameCode")
             /\ Todo(c) \subseteq (IF pc = "rewriteCodes" THEN Token ELSE Code)
             /\ \A k \in Todo(c) : Ours(c, k)
             /\ \A k \in calls[c].codes : Has(c, k)
             /\ \A t \in Token : FoundBy(c, t) => Has(c, table[t].root)
             /\ \A t \in Token : Wrote(c, t) => Ours(c, t) /\ NameToken(c, t) /\ Over(c, t, Named(c, table[t]))
             /\ \A k \in Code : Wrote(c, k) =>
                   pc = "commit" /\ Ours(c, k) /\ NameCode(c, k) /\ Over(c, k, Named(c, table[k]))
             /\ \A t \in Token : FoundBy(c, t) /\ NameToken(c, t) => Reached(c, t)
             /\ pc = "commit" => \A k \in calls[c].codes :
                   table[k] # NoRow /\ table[k].subject \in calls[c].who /\ NameCode(c, k)
                      => Reached(c, k)

CallOK(c) ==
    calls[c] # Nothing =>
        /\ AnyOK(c)
        /\ calls[c].op = "pair" => PairOK(c)
        /\ calls[c].op \in {"refresh", "logout"} => ChainOK(c)
        /\ calls[c].op = "end" => EndOK(c)
        /\ calls[c].op \in {"rename", "readdress"} => RewriteOK(c)

\* A purge that takes the head of a token takes the token, if a refresh still may spend it.
PurgesAreWhole ==
    \A p, c \in Caller :
        /\ calls[p] # Nothing /\ calls[p].pc = "sessionsPurged"
        /\ calls[c] # Nothing /\ calls[c].op = "refresh"
        /\ table[calls[c].key] # NoRow /\ calls[c].at < table[calls[c].key].expires
        /\ Reached(p, calls[c].root)
        => Reached(p, calls[c].key)

CallsOK == \A c \in Caller : CallOK(c)

IInv == RowsOK /\ CallsOK /\ PurgesAreWhole /\ HeadIsNeverAlone

-----------------------------------------------------------------------------
(* Records and statements.                                                  *)

\* The call is the same one.
Continues(r, call) ==
    /\ r \in CallRecord
    /\ r.op = call.op /\ r.at = call.at /\ r.key = call.key /\ r.root = call.root
    /\ r.email = call.email /\ r.who = call.who
    /\ r.chains = call.chains /\ r.codes = call.codes /\ r.set = call.set

\* Its statement found these of the rows.
Finds(r, c, does, found) ==
    /\ r.does = does
    /\ r.todo \subseteq found /\ r.todo \subseteq Present(c)
    /\ \A k \in found \cap Present(c) :
          /\ does = "hold" => k \in r.todo
          /\ does = "revoke" => (k \in r.todo <=> ~View(c)[k].revoked)
          /\ does = "mark" => (k \in r.todo <=> View(c)[k].rotated = NotRotated)
          /\ does = "delete" => (k \in r.todo <=> View(c)[k].expires <= r.at)
          /\ does = "redeem" => (k \in r.todo <=> ~View(c)[k].redeemed)
          /\ does = "spend" => (k \in r.todo <=>
                ~View(c)[k].redeemed /\ r.at < View(c)[k].expires)
          /\ does = "nameSession" => (k \in r.todo <=>
                ~View(c)[k].revoked /\ r.at < View(c)[k].expires)
          /\ does = "nameCode" => (k \in r.todo <=>
                ~View(c)[k].redeemed /\ r.at < View(c)[k].expires)

LEMMA RunningIs ==
    ASSUME NEW c \in Caller, NEW call \in CallRecord, NEW does \in Does, NEW next \in Place,
           NEW found, NEW r, r = Running(c, call, does, found, next)
    PROVE  Continues(r, call) /\ r.keep = call.keep /\ r.pc = next /\ Finds(r, c, does, found)
<1>1. PICK run : run = [call EXCEPT !.does = does, !.pc = next]
  OBVIOUS
<1>2. run \in CallRecord /\ run.does = does /\ run.pc = next
      /\ run.op = call.op /\ run.at = call.at /\ run.key = call.key /\ run.root = call.root
      /\ run.keep = call.keep /\ run.email = call.email /\ run.who = call.who
      /\ run.chains = call.chains /\ run.codes = call.codes /\ run.set = call.set
  BY <1>1 DEF CallRecord
<1>3. PICK todo : todo = {k \in found \cap Present(c) : Applies(run, View(c)[k])}
  OBVIOUS
<1>4. r = [run EXCEPT !.todo = todo]
  BY <1>1, <1>3 DEF Running
<1>5. todo \subseteq Digest
  BY <1>3 DEF Present
<1>6. /\ r \in CallRecord
      /\ r.does = does /\ r.pc = next
      /\ r.op = call.op /\ r.at = call.at /\ r.key = call.key /\ r.root = call.root
      /\ r.keep = call.keep /\ r.email = call.email /\ r.who = call.who
      /\ r.chains = call.chains /\ r.codes = call.codes /\ r.set = call.set
      /\ r.todo = todo
  BY <1>2, <1>4, <1>5 DEF CallRecord
<1>7. ASSUME NEW k \in found \cap Present(c)
      PROVE  /\ does = "hold" => k \in r.todo
             /\ does = "revoke" => (k \in r.todo <=> ~View(c)[k].revoked)
             /\ does = "mark" => (k \in r.todo <=> View(c)[k].rotated = NotRotated)
             /\ does = "delete" => (k \in r.todo <=> View(c)[k].expires <= r.at)
             /\ does = "redeem" => (k \in r.todo <=> ~View(c)[k].redeemed)
             /\ does = "spend" => (k \in r.todo <=>
                   ~View(c)[k].redeemed /\ r.at < View(c)[k].expires)
             /\ does = "nameSession" => (k \in r.todo <=>
                   ~View(c)[k].revoked /\ r.at < View(c)[k].expires)
             /\ does = "nameCode" => (k \in r.todo <=>
                   ~View(c)[k].redeemed /\ r.at < View(c)[k].expires)
  <2>1. k \in r.todo <=> Applies(run, View(c)[k])
    BY <1>3, <1>6
  <2>. QED  BY <1>2, <1>6, <2>1 DEF Applies
<1>8. r.todo \subseteq found /\ r.todo \subseteq Present(c)
  BY <1>3, <1>6
<1>. QED  BY <1>6, <1>7, <1>8 DEF Continues, Finds

\* The first record of a call.
LEMMA CallIs ==
    ASSUME TypeOK, NEW op \in Op, NEW call, call = Call(op)
    PROVE  /\ call \in CallRecord
           /\ call.op = op /\ call.pc = "start" /\ call.does = "hold" /\ call.todo = {}
           /\ call.at = clock /\ call.key = NoToken /\ call.root = NoToken
           /\ call.keep = NoToken /\ call.email = Nothing /\ call.who = {}
           /\ call.chains = {} /\ call.codes = {} /\ call.set = Nothing
<1>1. call = [op |-> op, pc |-> "start", does |-> "hold", todo |-> {}, at |-> clock,
              key |-> NoToken, root |-> NoToken, keep |-> NoToken, email |-> Nothing,
              who |-> {}, chains |-> {}, codes |-> {}, set |-> Nothing]
  BY DEF Call
<1>2. clock \in 0..MaxClock
  BY DEF TypeOK
<1>3. call \in CallRecord
  BY <1>1, <1>2 DEF CallRecord, Place, Does
<1>. QED  BY <1>1, <1>3

LEMMA ViewIs ==
    ASSUME NEW c, NEW k \in Digest
    PROVE  View(c)[k] = IF draft[c][k] = Untouched THEN table[k] ELSE draft[c][k]
BY DEF View

LEMMA PresentIs ==
    ASSUME TypeOK, RowsAreIssued, NEW c \in Caller, NEW k \in Present(c), ~Wrote(c, k)
    PROVE  k \in Digest /\ table[k] # NoRow /\ k \in issued /\ View(c)[k] = table[k]
BY ViewIs DEF Present, RowsAreIssued, Wrote

\* The call runs a statement.
LEMMA RunIs ==
    ASSUME TypeOK, NEW c \in Caller, calls[c] # Nothing, NEW does \in Does, NEW next \in Place,
           NEW found, Run(c, does, found, next)
    PROVE  /\ Continues(calls'[c], calls[c]) /\ calls'[c].keep = calls[c].keep
           /\ calls'[c].pc = next /\ Finds(calls'[c], c, does, found)
<1>1. calls[c] \in CallRecord
  BY DEF TypeOK
<1>2. calls'[c] = Running(c, calls[c], does, found, next)
  BY DEF Run, TypeOK
<1>. QED  BY <1>1, <1>2, RunningIs

\* The call goes on at another place.
LEMMA GoesTo ==
    ASSUME NEW call \in CallRecord, NEW next \in Place, NEW r, r = [call EXCEPT !.pc = next]
    PROVE  Continues(r, call) /\ r.keep = call.keep /\ r.pc = next /\ r.does = call.does /\ r.todo = call.todo
BY DEF CallRecord, Continues

-----------------------------------------------------------------------------
(* The kinds of steps.                                                      *)

\* A call goes on or answers, and no row and no draft changes.
Moves(c) ==
    /\ UNCHANGED <<table, draft, holder, issued, clock>>
    /\ calls' = [calls EXCEPT ![c] = calls'[c]]

Commits(c) == PurgedCodes(c) \/ PurgedSessions(c) \/ Commit(c)

Inserts(c) == OpenSession(c) \/ InsertSuccessor(c)

PairPlans(c) ==
    (\E k \in Code \cap issued : PairCalled(c, k))
        \/ PurgeSessions(c) \/ ReadCode(c) \/ SpendCode(c) \/ NotSpent(c)

ChainPlans(c) ==
    \/ \E t \in Token, op \in {"refresh", "logout"} : ChainCalled(c, op, t)
    \/ HoldChain(c) \/ DecideGone(c) \/ DecideEnd(c) \/ DecideAgain(c) \/ DecideFirst(c)
    \/ SweepHead(c) \/ MarkRotated(c) \/ Retire(c) \/ RevokeToken(c) \/ RevokeChain(c)

ScopePlans(c) ==
    \/ \E who \in Scope : EndCalled(c, who)
    \/ \E who \in Scope, n \in Name : RewriteCalled(c, "rename", who, n)
    \/ \E who \in Scope, e \in Email : RewriteCalled(c, "readdress", who, e)
    \/ EndSessions(c) \/ EndCodes(c)
    \/ HoldSessions(c) \/ RewriteSessions(c) \/ RewriteCodes(c)

Plans(c) == PairPlans(c) \/ ChainPlans(c) \/ ScopePlans(c)

LEMMA NextKinds ==
    ASSUME Next
    PROVE  \/ \E k \in Code, p \in Person, n \in Name, e \in Email : CreatePairing(k, p, n, e)
           \/ \E c \in Caller : Plans(c) \/ Visit(c) \/ Inserts(c) \/ Commits(c)
           \/ \E c \in Caller : Rollback(c)
           \/ Tick
<1>1. ASSUME NEW c \in Caller, Called(c) \/ Statement(c)
      PROVE  Plans(c) \/ Inserts(c) \/ Commits(c) \/ Rollback(c)
  BY <1>1 DEF Called, Statement, OutOfDigests, Plans, PairPlans, ChainPlans, ScopePlans, Inserts, Commits
<1>. QED  BY <1>1 DEF Next, Victim, Lost

LEMMA PlansMove ==
    ASSUME TypeOK, NEW c \in Caller, Plans(c)
    PROVE  Moves(c)
<1>. USE DEF Moves, Run, rows
<1>1. CASE PairPlans(c)
  BY <1>1 DEF PairPlans, PairCalled, PurgeSessions, ReadCode, SpendCode, NotSpent, TypeOK
<1>2. CASE ChainPlans(c)
  <2>1. CASE \E t \in Token, op \in {"refresh", "logout"} : ChainCalled(c, op, t)
    BY <2>1 DEF ChainCalled, TypeOK
  <2>2. CASE HoldChain(c) \/ DecideGone(c) \/ DecideEnd(c) \/ DecideAgain(c) \/ DecideFirst(c)
    BY <2>2 DEF HoldChain, DecideGone, DecideEnd, DecideAgain, DecideFirst, Sweep, TypeOK
  <2>3. CASE SweepHead(c) \/ MarkRotated(c) \/ Retire(c) \/ RevokeToken(c) \/ RevokeChain(c)
    BY <2>3 DEF SweepHead, MarkRotated, Retire, RevokeToken, RevokeChain, Sweep, TypeOK
  <2>. QED  BY <1>2, <2>1, <2>2, <2>3 DEF ChainPlans
<1>3. CASE ScopePlans(c)
  BY <1>3 DEF ScopePlans, EndCalled, RewriteCalled, EndSessions, EndCodes, HoldSessions,
              RewriteSessions, RewriteCodes, TypeOK
<1>. QED  BY <1>1, <1>2, <1>3 DEF Plans

-----------------------------------------------------------------------------
(* Where the calls of an operation may be.                                  *)

LEMMA PlaceOf ==
    ASSUME TypeOK, NEW c \in Caller, CallOK(c), calls[c] # Nothing
    PROVE  /\ calls[c] \in CallRecord
           /\ calls[c].pc \in {"codesPurged", "purgeSessions", "sessionsPurged", "readCode",
                               "spendCode", "openSession"} => calls[c].op = "pair"
           /\ calls[c].pc \in {"holdChain", "sweepHead"} => calls[c].op \in {"refresh", "logout"}
           /\ calls[c].pc \in {"decide", "insertSuccessor", "markRotated", "retire"}
                 => calls[c].op = "refresh"
           /\ calls[c].pc \in {"revokeToken", "revokeChain"} => calls[c].op = "logout"
           /\ calls[c].pc \in {"endSessions", "endCodes"} => calls[c].op = "end"
           /\ calls[c].pc \in {"holdSessions", "rewriteSessions", "rewriteCodes"}
                 => calls[c].op \in {"rename", "readdress"}
<1>1. calls[c] \in CallRecord /\ calls[c].op \in Op
  BY DEF TypeOK, CallRecord
<1>2. calls[c].op = "pair" =>
        calls[c].pc \in {"codesPurged", "purgeSessions", "sessionsPurged", "readCode",
                         "spendCode", "openSession", "commit"}
  BY DEF CallOK, PairOK
<1>3. calls[c].op = "refresh" =>
        calls[c].pc \in {"holdChain", "decide", "sweepHead", "insertSuccessor", "markRotated",
                         "retire", "commit"}
  BY DEF CallOK, ChainOK, RefreshOK
<1>4. calls[c].op = "logout" =>
        calls[c].pc \in {"holdChain", "revokeToken", "revokeChain", "sweepHead", "commit"}
  BY DEF CallOK, ChainOK, LogoutOK
<1>5. calls[c].op = "end" => calls[c].pc \in {"endSessions", "endCodes", "commit"}
  BY DEF CallOK, EndOK
<1>6. calls[c].op \in {"rename", "readdress"} =>
        calls[c].pc \in {"holdSessions", "rewriteSessions", "rewriteCodes", "commit"}
  BY DEF CallOK, RewriteOK
<1>. QED  BY <1>1, <1>2, <1>3, <1>4, <1>5, <1>6 DEF Op

-----------------------------------------------------------------------------
(* What a call has done stays as it says, when the call goes on.            *)

\* A statement that starts takes rows that were committed, and none that it wrote.
LEMMA StartsFresh ==
    ASSUME RowsOK, NEW c \in Caller, Moves(c), calls'[c].at <= clock,
           calls'[c].todo \subseteq Present(c), \A k \in calls'[c].todo : ~Wrote(c, k)
    PROVE  AnyOK(c)'
<1>1. calls'[c].todo \subseteq issued
  BY PresentIs DEF RowsOK
<1>. QED  BY <1>1 DEF AnyOK, Todo, Wrote, Moves

LEMMA PairCalledKeeps ==
    ASSUME RowsOK, NEW c \in Caller, NEW k \in Code \cap issued, PairCalled(c, k)
    PROVE  calls'[c] \in CallRecord /\ CallOK(c)'
<1>. USE DEF RowsOK
<1>1. PICK call : call = Call("pair")
  OBVIOUS
<1>2. PICK keyed : keyed = [call EXCEPT !.key = k]
  OBVIOUS
<1>3. keyed \in CallRecord /\ keyed.op = "pair" /\ keyed.at = clock /\ keyed.key = k
  <2>1. call \in CallRecord /\ call.op = "pair" /\ call.at = clock
    BY <1>1, CallIs DEF Op
  <2>. QED  BY <1>2, <2>1 DEF CallRecord, Digest
<1>4. PICK r : r = calls'[c]
  OBVIOUS
<1>5. r = Running(c, keyed, "delete", Code, "codesPurged")
  BY <1>1, <1>2, <1>4 DEF PairCalled, TypeOK
<1>6. Continues(r, keyed) /\ r.pc = "codesPurged" /\ Finds(r, c, "delete", Code)
  BY <1>3, <1>5, RunningIs DEF Does, Place
<1>7. Clear(c) /\ calls[c] = Nothing
  BY DEF PairCalled, Free, IdleHoldNothing
<1>8. Moves(c)
  BY PlansMove DEF Plans, PairPlans
<1>9. AnyOK(c)'
  <2>1. calls'[c].todo \subseteq Present(c) /\ \A j \in calls'[c].todo : ~Wrote(c, j)
    BY <1>4, <1>6, <1>7 DEF Finds, Clear, Wrote, Present
  <2>. QED  BY <1>3, <1>4, <1>6, <1>8, <2>1, StartsFresh DEF Continues, TypeOK
<1>10. PurgeOK(c, Code)'
  <2>1. ASSUME NEW j \in r.todo, table[j] # NoRow  PROVE table[j].expires <= r.at
    <3>1. j \in Code \cap Present(c) /\ j \in Digest /\ View(c)[j] = table[j]
      BY <1>6, <1>7, ViewIs DEF Finds, Present, Clear
    <3>. QED  BY <1>6, <3>1 DEF Finds
  <2>. QED  BY <1>4, <1>6, <1>7, <1>8, <2>1 DEF PurgeOK, Finds, Doing, Todo, Wrote, Clear, Moves
<1>11. PairOK(c)'
  BY <1>3, <1>4, <1>6, <1>8, <1>10 DEF PairOK, Continues, Moves
<1>. QED  BY <1>3, <1>4, <1>6, <1>9, <1>11 DEF CallOK, Continues

LEMMA PurgeSessionsKeeps ==
    ASSUME RowsOK, NEW c \in Caller, CallOK(c), PurgeSessions(c)
    PROVE  calls'[c] \in CallRecord /\ CallOK(c)'
<1>. USE DEF RowsOK
<1>1. PICK r : r = calls'[c]
  OBVIOUS
<1>2. calls[c] # Nothing /\ calls[c].op = "pair" /\ Clear(c)
      /\ calls[c].key \in Code \cap issued /\ calls[c].at <= clock
  BY PlaceOf DEF PurgeSessions, At, CallOK, PairOK, AnyOK
<1>3. Continues(r, calls[c]) /\ r.pc = "sessionsPurged" /\ Finds(r, c, "delete", Token)
  BY <1>1, <1>2, RunIs DEF PurgeSessions, Does, Place
<1>4. Moves(c)
  BY PlansMove DEF Plans, PairPlans
<1>5. AnyOK(c)'
  <2>1. calls'[c].todo \subseteq Present(c) /\ \A j \in calls'[c].todo : ~Wrote(c, j)
    BY <1>1, <1>2, <1>3 DEF Finds, Clear, Wrote, Present
  <2>. QED  BY <1>1, <1>2, <1>3, <1>4, <2>1, StartsFresh DEF Continues
<1>6. \A j \in Token : j \in r.todo <=> table[j] # NoRow /\ table[j].expires <= r.at
  BY <1>2, <1>3, ViewIs DEF Finds, Present, Clear, Digest
<1>7. PurgeOK(c, Token)'
  BY <1>1, <1>2, <1>3, <1>4, <1>6 DEF PurgeOK, Finds, Doing, Todo, Wrote, Clear, Moves
<1>8. HeadsGoToo(c)'
  <2>. SUFFICES ASSUME NEW t \in Token, table[t] # NoRow, t \in r.todo, table[table[t].root] # NoRow
                PROVE  table[t].root \in r.todo
    BY <1>1, <1>2, <1>4 DEF HeadsGoToo, Reached, Wrote, Todo, Clear, Moves, Digest
  <2>1. table[t].root \in Token
    BY DEF TypeOK, SessionRow
  <2>2. table[table[t].root].expires = table[t].expires
    BY DEF ChainsHold
  <2>. QED  BY <1>6, <2>1, <2>2
<1>9. PairOK(c)'
  BY <1>1, <1>2, <1>3, <1>4, <1>7, <1>8 DEF PairOK, Continues, Moves
<1>. QED  BY <1>1, <1>2, <1>3, <1>5, <1>9 DEF CallOK, Continues

LEMMA ReadCodeKeeps ==
    ASSUME RowsOK, NEW c \in Caller, CallOK(c), ReadCode(c)
    PROVE  calls'[c] \in CallRecord /\ CallOK(c)'
<1>. USE DEF RowsOK
<1>1. PICK r, row : r = calls'[c] /\ row = table[calls[c].key]
  OBVIOUS
<1>2. calls[c] # Nothing /\ calls[c] \in CallRecord /\ calls[c].op = "pair" /\ Clear(c)
      /\ calls[c].key \in Code \cap issued /\ calls[c].at <= clock /\ calls[c].todo = {}
  BY PlaceOf DEF ReadCode, At, CallOK, PairOK, AnyOK
<1>3. row # NoRow => row.email \in Email
  BY <1>1, <1>2 DEF TypeOK, CodeRow
<1>4. Moves(c)
  BY PlansMove DEF Plans, PairPlans
<1>5. r \in CallRecord /\ r.op = "pair" /\ r.key = calls[c].key /\ r.at = calls[c].at /\ r.todo = {}
      /\ \/ r.pc = "commit"
         \/ r.pc = "spendCode" /\ r.email \in Email
  <2>1. r = IF row = NoRow THEN [calls[c] EXCEPT !.pc = "commit"]
                           ELSE [calls[c] EXCEPT !.pc = "spendCode", !.email = row.email]
    BY <1>1 DEF ReadCode, TypeOK
  <2>2. CASE row = NoRow
    BY <1>2, <2>1, <2>2 DEF CallRecord, Place
  <2>3. CASE row # NoRow
    BY <1>2, <1>3, <2>1, <2>3 DEF CallRecord, Place
  <2>. QED  BY <2>2, <2>3
<1>6. AnyOK(c)'
  BY <1>1, <1>2, <1>4, <1>5 DEF AnyOK, Todo, Wrote, Moves
<1>7. PairOK(c)'
  BY <1>1, <1>2, <1>4, <1>5 DEF PairOK, Moves, Todo, Clear
<1>. QED  BY <1>1, <1>2, <1>5, <1>6, <1>7 DEF CallOK

LEMMA SpendCodeKeeps ==
    ASSUME RowsOK, NEW c \in Caller, CallOK(c), SpendCode(c)
    PROVE  calls'[c] \in CallRecord /\ CallOK(c)'
<1>. USE DEF RowsOK
<1>1. PICK r : r = calls'[c]
  OBVIOUS
<1>2. calls[c] # Nothing /\ calls[c].op = "pair" /\ Clear(c) /\ calls[c].email \in Email
      /\ calls[c].key \in Code \cap issued /\ calls[c].at <= clock
  BY PlaceOf DEF SpendCode, At, CallOK, PairOK, AnyOK
<1>3. Continues(r, calls[c]) /\ r.pc = "openSession" /\ Finds(r, c, "spend", {calls[c].key})
  BY <1>1, <1>2, RunIs DEF SpendCode, Does, Place
<1>4. Moves(c)
  BY PlansMove DEF Plans, PairPlans
<1>5. AnyOK(c)'
  <2>1. calls'[c].todo \subseteq Present(c) /\ \A j \in calls'[c].todo : ~Wrote(c, j)
    BY <1>1, <1>2, <1>3 DEF Finds, Clear, Wrote, Present
  <2>. QED  BY <1>1, <1>2, <1>3, <1>4, <2>1, StartsFresh DEF Continues
<1>6. PairOK(c)'
  BY <1>1, <1>2, <1>3, <1>4 DEF PairOK, Continues, Moves, Finds, Doing, Todo, Wrote, Clear
<1>. QED  BY <1>1, <1>2, <1>3, <1>5, <1>6 DEF CallOK, Continues

LEMMA NotSpentKeeps ==
    ASSUME RowsOK, NEW c \in Caller, CallOK(c), NotSpent(c)
    PROVE  calls'[c] \in CallRecord /\ CallOK(c)'
<1>. USE DEF RowsOK
<1>1. PICK r : r = calls'[c]
  OBVIOUS
<1>2. calls[c] # Nothing /\ calls[c] \in CallRecord /\ calls[c].op = "pair"
      /\ calls[c].key \in Code \cap issued /\ calls[c].at <= clock /\ calls[c].todo = {}
      /\ \A j \in Digest : Wrote(c, j) => j = calls[c].key
  BY PlaceOf DEF NotSpent, At, CallOK, PairOK, AnyOK
<1>3. Clear(c)
  BY <1>2 DEF NotSpent, Clear, Wrote
<1>4. Moves(c)
  BY PlansMove DEF Plans, PairPlans
<1>5. Continues(r, calls[c]) /\ r.pc = "commit" /\ r.todo = {}
  <2>1. r = [calls[c] EXCEPT !.pc = "commit"]
    BY <1>1 DEF NotSpent, TypeOK
  <2>. QED  BY <1>2, <2>1, GoesTo DEF Place
<1>6. AnyOK(c)'
  BY <1>1, <1>2, <1>4, <1>5 DEF AnyOK, Todo, Wrote, Moves, Continues
<1>7. PairOK(c)'
  BY <1>1, <1>2, <1>3, <1>4, <1>5 DEF PairOK, Moves, Todo, Clear, Continues
<1>. QED  BY <1>1, <1>2, <1>5, <1>6, <1>7 DEF CallOK, Continues

LEMMA PairPlansKeep ==
    ASSUME RowsOK, NEW c \in Caller, CallOK(c), PairPlans(c)
    PROVE  calls'[c] \in CallRecord /\ CallOK(c)'
BY PairCalledKeeps, PurgeSessionsKeeps, ReadCodeKeeps, SpendCodeKeeps, NotSpentKeeps DEF PairPlans

-----------------------------------------------------------------------------
(* A refresh and a log out go on.                                           *)

\* The end of a token is a row of the same chain.
LEMMA EndedRow ==
    ASSUME TypeOK, NEW t \in Token, table[t] # NoRow, NEW row, row = [table[t] EXCEPT !.revoked = TRUE]
    PROVE  /\ row \in SessionRow /\ row # NoRow /\ row # Untouched /\ row.revoked
           /\ row.subject = table[t].subject /\ row.name = table[t].name /\ row.email = table[t].email
           /\ row.expires = table[t].expires /\ row.rotated = table[t].rotated
           /\ row.pred = table[t].pred /\ row.root = table[t].root /\ row.code = table[t].code
<1>1. table[t] \in SessionRow
  BY DEF TypeOK
<1>2. row \in SessionRow
  BY <1>1 DEF SessionRow
<1>. QED  BY <1>1, <1>2, NullAssumption DEF SessionRow

\* What a call sees of a row that it ended or did not write.
LEMMA EndedView ==
    ASSUME TypeOK, NEW c \in Caller, NEW k \in Digest, Ended(c, k)
    PROVE  /\ View(c)[k] = NoRow <=> table[k] = NoRow
           /\ ~Wrote(c, k) => View(c)[k] = table[k]
           /\ Wrote(c, k) => View(c)[k].revoked
           /\ k \in Token /\ table[k] # NoRow =>
                 View(c)[k].root = table[k].root /\ View(c)[k].rotated = table[k].rotated
<1>1. CASE ~Wrote(c, k)
  BY <1>1, ViewIs DEF Wrote
<1>2. CASE Wrote(c, k)
  BY <1>2, ViewIs, EndedRow DEF Wrote, Ended, InChain, Over
<1>. QED  BY <1>1, <1>2

LEMMA SweepIs ==
    ASSUME TypeOK, NEW c \in Caller, calls[c] # Nothing, NEW keep \in Token \cup {NoToken},
           NEW next \in Place, Sweep(c, keep, next)
    PROVE  /\ Continues(calls'[c], calls[c]) /\ calls'[c].keep = keep /\ calls'[c].pc = next
           /\ Finds(calls'[c], c, "revoke", Links(c, calls[c].root) \ {keep})
<1>1. PICK call : call = [calls[c] EXCEPT !.keep = keep]
  OBVIOUS
<1>2. calls[c] \in CallRecord
  BY DEF TypeOK
<1>3. call \in CallRecord /\ Continues(call, calls[c]) /\ call.keep = keep
  BY <1>1, <1>2 DEF CallRecord, Continues
<1>4. PICK links : links = Links(c, calls[c].root) \ {keep}
  OBVIOUS
<1>5. calls'[c] = Running(c, call, "revoke", links, next)
  BY <1>1, <1>4 DEF Sweep, TypeOK
<1>6. Continues(calls'[c], call) /\ calls'[c].keep = keep /\ calls'[c].pc = next
      /\ Finds(calls'[c], c, "revoke", links)
  BY <1>3, <1>5, RunningIs DEF Does
<1>. QED  BY <1>3, <1>4, <1>6 DEF Continues

\* A sweep of the chain of a call that wrote nothing but ends.
LEMMA SweepGoes ==
    ASSUME RowsOK, NEW c \in Caller, calls[c] # Nothing, NEW keep \in Token \cup {NoToken},
           NEW next \in Place, Sweep(c, keep, next), \A k \in Digest : Ended(c, k),
           calls[c].at <= clock, Moves(c)
    PROVE  /\ Continues(calls'[c], calls[c]) /\ calls'[c].keep = keep /\ calls'[c].pc = next
           /\ AnyOK(c)' /\ EndsOnly(c)' /\ LinksGo(c)' /\ keep \notin calls'[c].todo
<1>. USE DEF RowsOK
<1>1. PICK r : r = calls'[c]
  OBVIOUS
<1>2. /\ Continues(r, calls[c]) /\ r.keep = keep /\ r.pc = next
      /\ Finds(r, c, "revoke", Links(c, calls[c].root) \ {keep})
  BY <1>1, SweepIs
<1>3. \A k \in r.todo : k \in Token /\ k # keep /\ InChain(c, k) /\ ~Wrote(c, k) /\ k \in Present(c)
  <2>. SUFFICES ASSUME NEW k \in r.todo
                PROVE  k \in Token /\ k # keep /\ InChain(c, k) /\ ~Wrote(c, k) /\ k \in Present(c)
    OBVIOUS
  <2>1. k \in Links(c, calls[c].root) /\ k # keep /\ ~View(c)[k].revoked /\ k \in Present(c)
    BY <1>2 DEF Finds
  <2>2. k \in Token /\ View(c)[k] # NoRow /\ View(c)[k].root = calls[c].root /\ k \in Digest
    BY <2>1 DEF Links, Present
  <2>. QED  BY <2>1, <2>2, EndedView DEF InChain
<1>4. AnyOK(c)'
  BY <1>1, <1>2, <1>3, StartsFresh DEF Continues
<1>5. \A k \in Digest : Ended(c, k)'
  BY <1>1, <1>2 DEF Ended, Moves, Wrote, InChain, Over, Continues
<1>6. EndsOnly(c)'
  BY <1>1, <1>2, <1>3, <1>5 DEF EndsOnly, Doing, Finds, TakesChain, Todo, InChain, Moves, Continues
<1>7. LinksGo(c)'
  <2>. SUFFICES ASSUME NEW u \in Token, InChain(c, u), u # calls[c].root, u # keep,
                       ~Wrote(c, u), ~table[u].revoked
                PROVE  u \in r.todo
    BY <1>1, <1>2 DEF LinksGo, Gone_, Reached, Wrote, Todo, InChain, Moves, Continues
  <2>1. View(c)[u] = table[u] /\ u \in Present(c) /\ u \in Digest
    BY ViewIs DEF Wrote, InChain, Present, Digest
  <2>2. u \in Links(c, calls[c].root)
    BY <2>1 DEF Links, InChain
  <2>. QED  BY <1>2, <2>1, <2>2 DEF Finds
<1>. QED  BY <1>1, <1>2, <1>3, <1>4, <1>6, <1>7

LEMMA ChainCalledKeeps ==
    ASSUME RowsOK, NEW c \in Caller, NEW t \in Token, NEW op \in {"refresh", "logout"},
           ChainCalled(c, op, t)
    PROVE  calls'[c] \in CallRecord /\ CallOK(c)'
<1>. USE DEF RowsOK
<1>1. PICK r, call : r = calls'[c] /\ call = Call(op)
  OBVIOUS
<1>2. calls[c] = Nothing /\ table[t] # NoRow /\ t \in issued /\ table[t].root \in Token \cap issued
  BY DEF ChainCalled, Free, RowsAreIssued, ChainsHold, TypeOK, SessionRow, Digest
<1>3. r \in CallRecord /\ r.op = op /\ r.pc = "holdChain" /\ r.todo = {} /\ r.keep = NoToken
      /\ r.at = clock /\ r.key = t /\ r.root = table[t].root
  <2>1. call \in CallRecord /\ call.op = op /\ call.todo = {} /\ call.keep = NoToken /\ call.at = clock
    BY <1>1, CallIs DEF Op
  <2>2. PICK keyed : keyed = [call EXCEPT !.key = t, !.root = table[t].root]
    OBVIOUS
  <2>3. keyed \in CallRecord /\ keyed.op = op /\ keyed.todo = {} /\ keyed.keep = NoToken
        /\ keyed.at = clock /\ keyed.key = t /\ keyed.root = table[t].root
    BY <1>2, <2>1, <2>2 DEF CallRecord, Digest
  <2>4. r = [call EXCEPT !.key = t, !.root = table[t].root, !.pc = "holdChain"]
    BY <1>1 DEF ChainCalled, TypeOK
  <2>5. r = [keyed EXCEPT !.pc = "holdChain"]
    BY <2>1, <2>2, <2>4
  <2>. QED  BY <2>3, <2>5, GoesTo DEF Continues, Place
<1>4. Clear(c) /\ Moves(c)
  BY <1>2, PlansMove DEF IdleHoldNothing, Plans, ChainPlans
<1>5. clock \in Int
  BY DEF TypeOK
<1>6. AnyOK(c)'
  BY <1>1, <1>3, <1>4, <1>5 DEF AnyOK, Todo, Wrote, Moves
<1>7. clock < table[t].expires => table[table[t].root] # NoRow
  BY <1>2 DEF ChainsHold
<1>8. table[table[t].root] # NoRow => table[table[t].root].root = table[t].root
  BY <1>2 DEF ChainsHold
<1>9. ChainOK(c)'
  BY <1>1, <1>2, <1>3, <1>4, <1>7, <1>8 DEF ChainOK, RefreshOK, LogoutOK, Todo, Clear, Moves
<1>. QED  BY <1>1, <1>3, <1>6, <1>9 DEF CallOK

LEMMA HoldChainKeeps ==
    ASSUME RowsOK, NEW c \in Caller, CallOK(c), HoldChain(c)
    PROVE  calls'[c] \in CallRecord /\ CallOK(c)'
<1>. USE DEF RowsOK
<1>1. PICK r, t, root : r = calls'[c] /\ t = calls[c].key /\ root = calls[c].root
  OBVIOUS
<1>2. calls[c] # Nothing /\ calls[c].pc = "holdChain" /\ calls[c].op \in {"refresh", "logout"}
      /\ ChainOK(c) /\ calls[c].at <= clock
  BY PlaceOf DEF HoldChain, At, CallOK, AnyOK
<1>3. Clear(c) /\ calls[c].keep = NoToken
  BY <1>2 DEF ChainOK, RefreshOK, LogoutOK
<1>4. PICK next : next = IF calls[c].op = "refresh" THEN "decide" ELSE "revokeToken"
  OBVIOUS
<1>5. Continues(r, calls[c]) /\ r.pc = next /\ r.keep = NoToken /\ Finds(r, c, "hold", {root, t})
  <2>1. Run(c, "hold", {root, t}, next)
    BY <1>1, <1>4 DEF HoldChain
  <2>2. next \in Place /\ "hold" \in Does
    BY <1>4 DEF Place, Does
  <2>. QED  BY <1>1, <1>2, <1>3, <2>1, <2>2, RunIs
<1>6. Moves(c)
  BY PlansMove DEF Plans, ChainPlans
<1>7. AnyOK(c)'
  <2>1. calls'[c].todo \subseteq Present(c) /\ \A j \in calls'[c].todo : ~Wrote(c, j)
    BY <1>1, <1>3, <1>5 DEF Finds, Clear, Wrote, Present
  <2>. QED  BY <1>1, <1>2, <1>5, <1>6, <2>1, StartsFresh DEF Continues
<1>8. \A k \in {root, t} : k \in Digest => (table[k] = NoRow \/ k \in r.todo)
  BY <1>3, <1>5, ViewIs DEF Finds, Present, Clear
<1>9. /\ r.does = "hold" /\ r.todo \subseteq {t, root}
      /\ table[t] = NoRow \/ t \in r.todo
      /\ table[root] = NoRow \/ root \in r.todo
  BY <1>1, <1>2, <1>5, <1>8 DEF ChainOK, Digest, Finds
<1>10. CASE calls[c].op = "refresh"
  <2>1. r.op = "refresh" /\ r.pc = "decide"
    BY <1>4, <1>5, <1>10 DEF Continues
  <2>2. RefreshOK(c)'
    BY <1>1, <1>2, <1>3, <1>5, <1>6, <1>9, <1>10, <2>1
       DEF RefreshOK, ChainOK, Continues, Doing, Todo, Takes, Has, Clear, Moves
  <2>. QED  BY <1>1, <1>2, <1>5, <1>6, <1>7, <2>1, <2>2 DEF CallOK, ChainOK, Continues, Moves
<1>11. CASE calls[c].op = "logout"
  <2>1. r.op = "logout" /\ r.pc = "revokeToken"
    BY <1>4, <1>5, <1>11 DEF Continues
  <2>2. LogoutOK(c)'
    BY <1>1, <1>2, <1>3, <1>5, <1>6, <1>9, <1>11, <2>1
       DEF LogoutOK, ChainOK, Continues, Doing, Todo, Takes, Has, Clear, Moves
  <2>. QED  BY <1>1, <1>2, <1>5, <1>6, <1>7, <2>1, <2>2 DEF CallOK, ChainOK, Continues, Moves
<1>. QED  BY <1>2, <1>10, <1>11

\* What the token of a refresh is when it is decided on.
LEMMA DecideFinds ==
    ASSUME RowsOK, NEW c \in Caller, CallOK(c), At(c, "decide")
    PROVE  /\ calls[c] # Nothing /\ calls[c] \in CallRecord /\ calls[c].op = "refresh" /\ Clear(c)
           /\ calls[c].keep = NoToken /\ Todo(c) = {} /\ calls[c].at <= clock /\ ChainOK(c)
           /\ calls[c].key \in Token
           /\ View(c)[calls[c].key] = table[calls[c].key]
           /\ ~Gone(c) => Going(c) /\ table[calls[c].key] # NoRow
           /\ ~Gone(c) => (Late(c) <=> IsLate(c))
           /\ \A k \in Digest : Ended(c, k)
<1>. USE DEF RowsOK
<1>1. calls[c] # Nothing /\ calls[c] \in CallRecord /\ calls[c].op = "refresh" /\ ChainOK(c)
      /\ Todo(c) = {} /\ calls[c].at <= clock
  BY PlaceOf DEF At, CallOK, AnyOK, Todo
<1>2. /\ calls[c].key \in Token /\ calls[c].root \in Token
      /\ Clear(c) /\ calls[c].keep = NoToken /\ Has(c, calls[c].key) /\ Has(c, calls[c].root)
      /\ table[calls[c].key] # NoRow /\ calls[c].at < table[calls[c].key].expires
            => table[calls[c].root] # NoRow
  BY <1>1 DEF At, ChainOK, RefreshOK, Takes, Todo
<1>3. View(c)[calls[c].key] = table[calls[c].key]
  BY <1>2, ViewIs DEF Clear, Digest
<1>4. ASSUME ~Gone(c)  PROVE Going(c) /\ table[calls[c].key] # NoRow
  <2>1. table[calls[c].key] # NoRow /\ ~(table[calls[c].key].expires <= calls[c].at)
    BY <1>3, <1>4 DEF Gone
  <2>2. table[calls[c].key].expires \in Nat
    BY <1>2, <2>1 DEF TypeOK, SessionRow
  <2>3. calls[c].at \in Nat
    BY <1>1, ClockAssumption DEF CallRecord
  <2>4. holder[calls[c].key] = c /\ holder[calls[c].root] = c
    BY <1>2, <2>1, <2>2, <2>3 DEF Has
  <2>. QED  BY <2>1, <2>2, <2>3, <2>4 DEF Going
<1>5. Late(c) <=> IsLate(c)
  BY <1>3 DEF Late, Rotated, IsLate
<1>6. \A k \in Digest : Ended(c, k)
  BY <1>2 DEF Ended, Wrote, Clear
<1>. QED  BY <1>1, <1>2, <1>3, <1>4, <1>5, <1>6

\* A refresh goes on: what it read of its token when it started stays.
LEMMA RefreshGoes ==
    ASSUME RowsOK, NEW c \in Caller, CallOK(c), calls[c] # Nothing, calls[c].op = "refresh", Moves(c),
           Continues(calls'[c], calls[c]), AnyOK(c)', RefreshOK(c)'
    PROVE  calls'[c] \in CallRecord /\ CallOK(c)'
BY DEF CallOK, ChainOK, Continues, Moves

LEMMA DecideKeeps ==
    ASSUME RowsOK, NEW c \in Caller, CallOK(c),
           DecideGone(c) \/ DecideEnd(c) \/ DecideAgain(c) \/ DecideFirst(c)
    PROVE  calls'[c] \in CallRecord /\ CallOK(c)'
<1>. USE DEF RowsOK
<1>1. At(c, "decide") /\ Moves(c)
  BY PlansMove DEF Plans, ChainPlans, DecideGone, DecideEnd, DecideAgain, DecideFirst
<1>2. PICK r, t : r = calls'[c] /\ t = calls[c].key
  OBVIOUS
<1>3. table[t] # NoRow /\ calls[c].at < table[t].expires => table[calls[c].root] # NoRow
  BY <1>1, <1>2, DecideFinds DEF ChainOK, RefreshOK
<1>4. CASE DecideGone(c) \/ DecideFirst(c)
  <2>1. r = [calls[c] EXCEPT !.pc = IF DecideGone(c) THEN "commit" ELSE "insertSuccessor"]
    BY <1>2, <1>4 DEF DecideGone, DecideFirst, TypeOK
  <2>2. /\ Continues(r, calls[c]) /\ r.keep = NoToken /\ r.todo = {}
        /\ \/ r.pc = "commit"
           \/ r.pc = "insertSuccessor" /\ DecideFirst(c)
    <3>1. PICK next : next = IF DecideGone(c) THEN "commit" ELSE "insertSuccessor"
      OBVIOUS
    <3>2. next \in Place
      BY <3>1 DEF Place
    <3>3. Continues(r, calls[c]) /\ r.keep = calls[c].keep /\ r.pc = next /\ r.todo = calls[c].todo
      BY <1>1, <2>1, <3>1, <3>2, GoesTo, DecideFinds
    <3>. QED  BY <1>1, <1>4, <3>1, <3>3, DecideFinds DEF Todo
  <2>3. Clear(c) /\ calls[c].at <= clock /\ calls[c].op = "refresh" /\ calls[c] # Nothing
    BY <1>1, DecideFinds
  <2>4. DecideFirst(c) => First(c)
    BY <1>1, DecideFinds DEF DecideFirst, First, Rotated
  <2>5. AnyOK(c)'
    BY <1>1, <1>2, <2>2, <2>3 DEF AnyOK, Todo, Wrote, Moves, Continues
  <2>6. RefreshOK(c)'
    BY <1>1, <1>2, <1>3, <2>2, <2>3, <2>4
       DEF RefreshOK, First, Going, Clear, Todo, Moves, Continues
  <2>. QED  BY <1>1, <1>2, <2>2, <2>3, <2>5, <2>6, RefreshGoes
<1>5. CASE DecideEnd(c) \/ DecideAgain(c)
  <2>1. PICK keep : keep = IF DecideEnd(c) THEN NoToken ELSE t
    OBVIOUS
  <2>2. Sweep(c, keep, "sweepHead") /\ keep \in Token \cup {NoToken} /\ ~Gone(c)
    BY <1>1, <1>2, <1>5, <2>1, DecideFinds DEF DecideEnd, DecideAgain
  <2>3. /\ Continues(r, calls[c]) /\ r.keep = keep /\ r.pc = "sweepHead"
        /\ AnyOK(c)' /\ EndsOnly(c)' /\ LinksGo(c)' /\ keep \notin r.todo
    BY <1>1, <1>2, <2>2, SweepGoes, DecideFinds DEF Place
  <2>4. CASE DecideEnd(c)
    <3>1. Going(c) /\ (table[t].revoked \/ IsLate(c))
      BY <1>1, <1>2, <2>2, <2>4, DecideFinds DEF DecideEnd
    <3>2. Ending(c)'
      BY <1>1, <1>2, <2>1, <2>3, <2>4, <3>1 DEF Ending, Going, IsLate, Moves, Continues
    <3>3. RefreshOK(c)'
      BY <1>1, <1>2, <1>3, <2>3, <3>2 DEF RefreshOK, Moves, Continues
    <3>. QED  BY <1>1, <1>2, <2>3, <3>3, RefreshGoes, DecideFinds
  <2>5. CASE ~DecideEnd(c)
    <3>1. Going(c) /\ ~table[t].revoked /\ table[t].rotated # NotRotated /\ ~IsLate(c) /\ ~Wrote(c, t)
      BY <1>1, <1>2, <1>5, <2>2, <2>5, DecideFinds DEF DecideAgain, Rotated, Clear, Wrote, Digest
    <3>2. Again(c)'
      BY <1>1, <1>2, <2>1, <2>3, <2>5, <3>1
         DEF Again, Going, IsLate, Reached, Wrote, Todo, Moves, Continues
    <3>3. RefreshOK(c)'
      BY <1>1, <1>2, <1>3, <2>3, <3>2 DEF RefreshOK, Moves, Continues
    <3>. QED  BY <1>1, <1>2, <2>3, <3>3, RefreshGoes, DecideFinds
  <2>. QED  BY <2>4, <2>5
<1>. QED  BY <1>4, <1>5

\* The head of a chain that is swept.
LEMMA SweepHeadGoes ==
    ASSUME RowsOK, NEW c \in Caller, CallOK(c), SweepHead(c), calls[c] # Nothing,
           EndsOnly(c), LinksGo(c), calls[c].at <= clock, ChainOK(c)
    PROVE  /\ Continues(calls'[c], calls[c]) /\ calls'[c].keep = calls[c].keep
           /\ calls'[c].pc = IF calls[c].keep = NoToken THEN "commit" ELSE "insertSuccessor"
           /\ AnyOK(c)' /\ EndsOnly(c)' /\ ChainGoes(c)'
           /\ calls[c].keep \notin calls'[c].todo
<1>. USE DEF RowsOK
<1>1. PICK r, root, next : /\ r = calls'[c] /\ root = calls[c].root
                           /\ next = IF calls[c].keep = NoToken THEN "commit" ELSE "insertSuccessor"
  OBVIOUS
<1>2. Moves(c) /\ Todo(c) = {} /\ root \in Token /\ (table[root] # NoRow => InChain(c, root))
  BY <1>1, PlansMove DEF Plans, ChainPlans, SweepHead, At, Todo, ChainOK, InChain
<1>3. /\ Continues(r, calls[c]) /\ r.keep = calls[c].keep /\ r.pc = next
      /\ Finds(r, c, "revoke", {root} \ {calls[c].keep})
  <2>1. Run(c, "revoke", {root} \ {calls[c].keep}, next)
    BY <1>1 DEF SweepHead
  <2>2. next \in Place /\ "revoke" \in Does
    BY <1>1 DEF Place, Does
  <2>. QED  BY <1>1, <2>1, <2>2, RunIs
<1>4. root \in Digest /\ Ended(c, root)
  BY <1>2 DEF EndsOnly, Digest
<1>5. ASSUME root \in r.todo  PROVE root # r.keep /\ ~Wrote(c, root) /\ table[root] # NoRow
  BY <1>3, <1>4, <1>5, EndedView DEF Finds, Present
<1>6. r.todo \subseteq {root} /\ calls[c].keep \notin r.todo
  BY <1>3 DEF Finds
<1>7. AnyOK(c)'
  <2>1. calls'[c].todo \subseteq Present(c) /\ \A j \in calls'[c].todo : ~Wrote(c, j)
    BY <1>1, <1>3, <1>5, <1>6 DEF Finds
  <2>. QED  BY <1>1, <1>2, <1>3, <2>1, StartsFresh DEF Continues
<1>8. \A k \in Digest : Ended(c, k)'
  BY <1>1, <1>2, <1>3 DEF EndsOnly, Ended, Moves, Wrote, InChain, Over, Continues
<1>9. EndsOnly(c)'
  BY <1>1, <1>2, <1>3, <1>6, <1>8 DEF EndsOnly, Doing, Finds, TakesChain, Todo, InChain, Moves, Continues
<1>10. ChainGoes(c)'
  <2>. SUFFICES ASSUME NEW u \in Token, InChain(c, u), u # calls[c].keep, ~Wrote(c, u), ~table[u].revoked
                PROVE  u \in r.todo
    BY <1>1, <1>2, <1>3 DEF ChainGoes, Gone_, Reached, Wrote, Todo, InChain, Moves, Continues
  <2>1. u = root
    BY <1>1, <1>2 DEF LinksGo, Gone_, Reached
  <2>2. View(c)[root] = table[root] /\ root \in Present(c)
    BY <1>4, <2>1, ViewIs DEF Wrote, InChain, Present
  <2>. QED  BY <1>3, <2>1, <2>2 DEF Finds
<1>. QED  BY <1>1, <1>3, <1>6, <1>7, <1>9, <1>10

LEMMA SweepHeadKeeps ==
    ASSUME RowsOK, NEW c \in Caller, CallOK(c), SweepHead(c)
    PROVE  calls'[c] \in CallRecord /\ CallOK(c)'
<1>. USE DEF RowsOK
<1>1. PICK r, t : r = calls'[c] /\ t = calls[c].key
  OBVIOUS
<1>2. calls[c] # Nothing /\ calls[c].pc = "sweepHead" /\ calls[c].op \in {"refresh", "logout"}
      /\ ChainOK(c) /\ calls[c].at <= clock
  BY PlaceOf DEF SweepHead, At, CallOK, AnyOK
<1>3. EndsOnly(c) /\ LinksGo(c)
  BY <1>2 DEF ChainOK, RefreshOK, LogoutOK
<1>4. /\ Continues(r, calls[c]) /\ r.keep = calls[c].keep
      /\ r.pc = IF calls[c].keep = NoToken THEN "commit" ELSE "insertSuccessor"
      /\ AnyOK(c)' /\ EndsOnly(c)' /\ ChainGoes(c)' /\ calls[c].keep \notin r.todo
  BY <1>1, <1>2, <1>3, SweepHeadGoes
<1>5. Moves(c)
  BY PlansMove DEF Plans, ChainPlans
<1>6. CASE calls[c].op = "refresh"
  <2>1. /\ Ending(c) \/ Again(c)
        /\ table[t] # NoRow /\ calls[c].at < table[t].expires => table[calls[c].root] # NoRow
    BY <1>1, <1>2, <1>6 DEF ChainOK, RefreshOK
  <2>2. CASE Ending(c)
    <3>1. Ending(c)' /\ r.pc = "commit"
      BY <1>1, <1>4, <1>5, <2>2 DEF Ending, Going, IsLate, Moves, Continues
    <3>2. RefreshOK(c)'
      BY <1>1, <1>4, <1>5, <2>1, <3>1 DEF RefreshOK, Moves, Continues
    <3>. QED  BY <1>1, <1>2, <1>4, <1>5, <1>6, <3>2, RefreshGoes
  <2>3. CASE Again(c)
    <3>1. calls[c].keep = t /\ t # NoToken
      BY <1>1, <1>2, <2>3, NullAssumption DEF Again, ChainOK, Digest
    <3>2. Again(c)' /\ r.pc = "insertSuccessor"
      BY <1>1, <1>4, <1>5, <2>3, <3>1
         DEF Again, Going, IsLate, Reached, Wrote, Todo, Moves, Continues
    <3>3. RefreshOK(c)'
      BY <1>1, <1>4, <1>5, <2>1, <3>2 DEF RefreshOK, Moves, Continues
    <3>. QED  BY <1>1, <1>2, <1>4, <1>5, <1>6, <3>3, RefreshGoes
  <2>. QED  BY <2>1, <2>2, <2>3
<1>7. CASE calls[c].op = "logout"
  <2>1. calls[c].keep = NoToken /\ Has(c, t) /\ Has(c, calls[c].root) /\ r.pc = "commit"
    BY <1>1, <1>2, <1>4, <1>7 DEF ChainOK, LogoutOK
  <2>2. LogoutOK(c)'
    BY <1>1, <1>4, <1>5, <2>1 DEF LogoutOK, Has, Moves, Continues
  <2>. QED  BY <1>1, <1>2, <1>4, <1>5, <1>7, <2>2 DEF CallOK, ChainOK, Continues, Moves
<1>. QED  BY <1>2, <1>6, <1>7

\* What a transaction that holds a row finds there.
LEMMA HeldRow ==
    ASSUME TypeOK, HeldAreThere, NEW c \in Caller, NEW k \in Digest, holder[k] = c
    PROVE  table[k] # NoRow /\ (k \in Token => table[k] \in SessionRow) /\ (k \in Code => table[k] \in CodeRow)
BY NullAssumption DEF TypeOK, HeldAreThere

LEMMA MarkRotatedKeeps ==
    ASSUME RowsOK, NEW c \in Caller, CallOK(c), MarkRotated(c)
    PROVE  calls'[c] \in CallRecord /\ CallOK(c)'
<1>. USE DEF RowsOK
<1>1. PICK r, t : r = calls'[c] /\ t = calls[c].key
  OBVIOUS
<1>2. calls[c] # Nothing /\ calls[c].pc = "markRotated" /\ calls[c].op = "refresh"
      /\ ChainOK(c) /\ calls[c].at <= clock /\ Todo(c) = {} /\ t \in Token \cap issued /\ t \in Digest
  BY <1>1, PlaceOf DEF MarkRotated, At, CallOK, AnyOK, Todo, ChainOK, Digest
<1>3. RefreshOK(c)
  BY <1>2 DEF ChainOK
<1>4. PICK s \in Token :
        /\ Succeeds(c, s)
        /\ \/ First(c) /\ \A k \in Digest \ {s} : ~Wrote(c, k)
           \/ Again(c) /\ ChainGoes(c) /\ EndsBut(c, s)
  BY <1>2, <1>3 DEF RefreshOK
<1>5. s # t
  BY <1>2, <1>4 DEF Succeeds
<1>6. ~Wrote(c, t) /\ View(c)[t] = table[t]
  BY <1>1, <1>2, <1>4, <1>5, ViewIs DEF Again, Reached, Wrote
<1>7. Moves(c)
  BY PlansMove DEF Plans, ChainPlans
<1>8. Continues(r, calls[c]) /\ r.keep = calls[c].keep /\ r.pc = "retire" /\ Finds(r, c, "mark", {t})
  BY <1>1, <1>2, RunIs DEF MarkRotated, Does, Place
<1>9. r.todo \subseteq {t} /\ r.does = "mark"
  BY <1>8 DEF Finds
<1>10. AnyOK(c)'
  <2>1. calls'[c].todo \subseteq Present(c) /\ \A j \in calls'[c].todo : ~Wrote(c, j)
    BY <1>1, <1>6, <1>8, <1>9 DEF Finds
  <2>. QED  BY <1>1, <1>2, <1>7, <1>8, <2>1, StartsFresh DEF Continues
<1>11. Succeeds(c, s)'
  BY <1>1, <1>4, <1>7, <1>8 DEF Succeeds, Moves, Continues
<1>12. CASE First(c) /\ \A k \in Digest \ {s} : ~Wrote(c, k)
  <2>1. First(c)'
    BY <1>1, <1>7, <1>8, <1>12 DEF First, Going, Moves, Continues
  <2>2. t \in r.todo
    <3>1. table[t] # NoRow
      BY <1>1, <1>2, <1>12, HeldRow DEF First, Going
    <3>2. t \in {t} \cap Present(c) /\ View(c)[t].rotated = NotRotated
      BY <1>1, <1>2, <1>6, <1>12, <3>1 DEF Present, First
    <3>. QED  BY <1>8, <3>2 DEF Finds
  <2>3. RefreshOK(c)'
    <3>1. \A k \in Digest \ {s, t} : ~Wrote(c, k)'
      BY <1>7, <1>12 DEF Wrote, Moves
    <3>. QED  BY <1>1, <1>3, <1>7, <1>8, <1>9, <1>11, <2>1, <2>2, <3>1
              DEF RefreshOK, Doing, Todo, Moves, Continues
  <2>. QED  BY <1>1, <1>2, <1>7, <1>8, <1>10, <2>3, RefreshGoes
<1>13. CASE Again(c) /\ ChainGoes(c) /\ EndsBut(c, s)
  <2>1. r.todo = {}
    <3>1. View(c)[t].rotated # NotRotated
      BY <1>1, <1>6, <1>13 DEF Again
    <3>2. t \notin r.todo
      BY <1>8, <3>1 DEF Finds
    <3>. QED  BY <1>9, <3>2
  <2>2. Again(c)'
    BY <1>1, <1>6, <1>7, <1>8, <1>13, <2>1
       DEF Again, Going, IsLate, Reached, Wrote, Todo, Moves, Continues
  <2>3. ChainGoes(c)'
    BY <1>1, <1>2, <1>7, <1>8, <1>13, <2>1
       DEF ChainGoes, Gone_, Reached, Wrote, Todo, InChain, Moves, Continues
  <2>4. EndsBut(c, s)'
    BY <1>1, <1>7, <1>8, <1>13, <2>1
       DEF EndsBut, TakesChain, Ended, Over, Wrote, Todo, InChain, Moves, Continues
  <2>5. RefreshOK(c)'
    BY <1>1, <1>3, <1>7, <1>8, <1>11, <2>1, <2>2, <2>3, <2>4 DEF RefreshOK, Todo, Moves, Continues
  <2>. QED  BY <1>1, <1>2, <1>7, <1>8, <1>10, <2>5, RefreshGoes
<1>. QED  BY <1>4, <1>12, <1>13

LEMMA RetireKeeps ==
    ASSUME RowsOK, NEW c \in Caller, CallOK(c), Retire(c)
    PROVE  calls'[c] \in CallRecord /\ CallOK(c)'
<1>. USE DEF RowsOK
<1>1. PICK r, t, p : r = calls'[c] /\ t = calls[c].key /\ p = table[t].pred
  OBVIOUS
<1>2. calls[c] # Nothing /\ calls[c].pc = "retire" /\ calls[c].op = "refresh"
      /\ ChainOK(c) /\ calls[c].at <= clock /\ Todo(c) = {} /\ t \in Token \cap issued /\ t \in Digest
  BY <1>1, PlaceOf DEF Retire, At, CallOK, AnyOK, Todo, ChainOK, Digest
<1>3. RefreshOK(c)
  BY <1>2 DEF ChainOK
<1>4. PICK s \in Token :
        /\ Succeeds(c, s)
        /\ \/ First(c) /\ Marked(c) /\ \A k \in Digest \ {s, t} : ~Wrote(c, k)
           \/ Again(c) /\ ChainGoes(c) /\ EndsBut(c, s)
  BY <1>1, <1>2, <1>3 DEF RefreshOK
<1>5. table[t] # NoRow /\ table[t] \in SessionRow /\ s # t /\ table[t].root = calls[c].root
  <2>1. holder[t] = c
    BY <1>1, <1>4 DEF First, Again, Going
  <2>2. table[t] # NoRow /\ table[t] \in SessionRow
    BY <1>2, <2>1, HeldRow
  <2>. QED  BY <1>1, <1>2, <1>4, <2>2 DEF Succeeds, ChainOK
<1>6. p \in Token \cup {NoToken} /\ p # t /\ (p \in Token => p \in issued /\ p # s /\ p \in Digest)
      /\ (p \in Token /\ table[p] # NoRow => InChain(c, p))
  <2>1. p \in Token \cup {NoToken}
    BY <1>1, <1>5 DEF SessionRow
  <2>2. p # t /\ (p # NoToken => p \in issued /\ (table[p] # NoRow => table[p].root = table[t].root))
    BY <1>1, <1>2, <1>5 DEF ChainsHold
  <2>3. p \in Token => p # NoToken /\ p \in Digest
    BY NullAssumption DEF Digest
  <2>. QED  BY <1>4, <1>5, <2>1, <2>2, <2>3 DEF InChain, Succeeds
<1>7. View(c)[t].pred = p
  <2>1. CASE Marked(c)
    <3>1. draft[c][t] = [table[t] EXCEPT !.rotated = calls[c].at]
      BY <1>1, <2>1 DEF Marked, Over
    <3>2. View(c)[t] = table[t] \/ View(c)[t] = [table[t] EXCEPT !.rotated = calls[c].at]
      BY <1>2, <3>1, ViewIs
    <3>. QED  BY <1>1, <1>5, <3>2 DEF SessionRow
  <2>2. CASE ~Marked(c)
    BY <1>1, <1>2, <1>4, <2>2, ViewIs DEF Again, Reached, Wrote
  <2>. QED  BY <2>1, <2>2
<1>8. Moves(c)
  BY PlansMove DEF Plans, ChainPlans
<1>9. Continues(r, calls[c]) /\ r.keep = calls[c].keep /\ r.pc = "commit" /\ Finds(r, c, "revoke", {p})
  <2>1. Run(c, "revoke", {p}, "commit")
    BY <1>1, <1>7 DEF Retire
  <2>. QED  BY <1>1, <1>2, <2>1, RunIs DEF Does, Place
<1>10. r.todo \subseteq {p} /\ r.does = "revoke" /\ (NoToken \notin r.todo)
  BY <1>9, NullAssumption DEF Finds, Present
<1>11. Succeeds(c, s)'
  BY <1>1, <1>4, <1>8, <1>9 DEF Succeeds, Moves, Continues
<1>12. CASE First(c) /\ Marked(c) /\ \A k \in Digest \ {s, t} : ~Wrote(c, k)
  <2>1. First(c)' /\ Marked(c)'
    BY <1>1, <1>8, <1>9, <1>12 DEF First, Going, Marked, Over, Moves, Continues
  <2>2. p \in Token => ~Wrote(c, p) /\ View(c)[p] = table[p]
    BY <1>6, <1>12, ViewIs DEF Wrote
  <2>3. AnyOK(c)'
    <3>1. calls'[c].todo \subseteq Present(c) /\ \A j \in calls'[c].todo : ~Wrote(c, j)
      BY <1>1, <1>6, <1>9, <1>10, <2>2 DEF Finds
    <3>. QED  BY <1>1, <1>2, <1>8, <1>9, <3>1, StartsFresh DEF Continues
  <2>4. RetiresPred(c)'
    <3>1. p \in Token /\ table[p] # NoRow => p \in r.todo \/ table[p].revoked
      BY <1>6, <1>9, <2>2 DEF Finds, Present
    <3>. QED  BY <1>1, <1>8, <1>9, <1>10, <3>1
              DEF RetiresPred, Gone_, Reached, Wrote, Todo, Moves, Continues
  <2>5. \A k \in Digest \ {s, t} : ~Wrote(c, k)'
    BY <1>8, <1>12 DEF Wrote, Moves
  <2>6. \A k \in Digest \ {s, t} : Ended(c, k)' /\ (Wrote(c, k)' => k = p)
    BY <2>5 DEF Ended
  <2>7. RefreshOK(c)'
    <3>1. calls'[c].key = t /\ table' = table /\ calls'[c].root = calls[c].root
          /\ calls'[c].at = calls[c].at /\ calls'[c].pc = "commit" /\ Doing(c, "revoke")'
      BY <1>1, <1>8, <1>9, <1>10 DEF Moves, Continues, Doing
    <3>2. (table[t] # NoRow /\ calls[c].at < table[t].expires => table[calls[c].root] # NoRow)'
      BY <1>1, <1>3, <3>1 DEF RefreshOK
    <3>. QED  BY <1>1, <1>11, <2>1, <2>4, <2>6, <3>1, <3>2 DEF RefreshOK
  <2>. QED  BY <1>1, <1>2, <1>8, <1>9, <2>3, <2>7, RefreshGoes
<1>13. CASE Again(c) /\ ChainGoes(c) /\ EndsBut(c, s)
  <2>1. r.todo = {}
    <3>. SUFFICES ASSUME p \in r.todo  PROVE FALSE
      BY <1>10
    <3>1. p \in Token /\ p \in Present(c) /\ ~View(c)[p].revoked /\ p \in Digest
      BY <1>6, <1>9, <1>10 DEF Finds, Present
    <3>2. Ended(c, p)
      BY <1>6, <1>13, <3>1 DEF EndsBut
    <3>3. ~Wrote(c, p) /\ View(c)[p] = table[p] /\ table[p] # NoRow /\ ~table[p].revoked
      BY <3>1, <3>2, EndedView DEF Present
    <3>4. Gone_(c, p)
      BY <1>1, <1>6, <1>13, <3>1, <3>3 DEF ChainGoes, Again
    <3>. QED  BY <1>2, <3>3, <3>4 DEF Gone_, Reached
  <2>2. Again(c)'
    BY <1>1, <1>8, <1>9, <1>13, <2>1
       DEF Again, Going, IsLate, Reached, Wrote, Todo, Moves, Continues
  <2>3. ChainGoes(c)'
    BY <1>1, <1>2, <1>8, <1>9, <1>13, <2>1
       DEF ChainGoes, Gone_, Reached, Wrote, Todo, InChain, Moves, Continues
  <2>4. EndsBut(c, s)'
    BY <1>1, <1>8, <1>9, <1>13, <2>1
       DEF EndsBut, TakesChain, Ended, Over, Wrote, Todo, InChain, Moves, Continues
  <2>5. AnyOK(c)'
    BY <1>1, <1>2, <1>8, <1>9, <2>1 DEF AnyOK, Todo, Moves, Continues
  <2>6. RefreshOK(c)'
    BY <1>1, <1>3, <1>8, <1>9, <1>11, <2>1, <2>2, <2>3, <2>4 DEF RefreshOK, Todo, Moves, Continues
  <2>. QED  BY <1>1, <1>2, <1>8, <1>9, <2>5, <2>6, RefreshGoes
<1>. QED  BY <1>4, <1>12, <1>13

\* A log out goes on.
LEMMA LogoutGoes ==
    ASSUME RowsOK, NEW c \in Caller, CallOK(c), calls[c] # Nothing, calls[c].op = "logout", Moves(c),
           Continues(calls'[c], calls[c]), AnyOK(c)', LogoutOK(c)'
    PROVE  calls'[c] \in CallRecord /\ CallOK(c)'
BY DEF CallOK, ChainOK, Continues, Moves

LEMMA RevokeTokenKeeps ==
    ASSUME RowsOK, NEW c \in Caller, CallOK(c), RevokeToken(c)
    PROVE  calls'[c] \in CallRecord /\ CallOK(c)'
<1>. USE DEF RowsOK
<1>1. PICK r, t : r = calls'[c] /\ t = calls[c].key
  OBVIOUS
<1>2. calls[c] # Nothing /\ calls[c].pc = "revokeToken" /\ calls[c].op = "logout"
      /\ ChainOK(c) /\ calls[c].at <= clock /\ Todo(c) = {} /\ t \in Token /\ t \in Digest
  BY <1>1, PlaceOf DEF RevokeToken, At, CallOK, AnyOK, Todo, ChainOK, Digest
<1>3. calls[c].keep = NoToken /\ Clear(c) /\ Has(c, t) /\ Has(c, calls[c].root)
  BY <1>1, <1>2 DEF ChainOK, LogoutOK, Takes
<1>4. Moves(c)
  BY PlansMove DEF Plans, ChainPlans
<1>5. Continues(r, calls[c]) /\ r.keep = NoToken /\ r.pc = "revokeChain" /\ Finds(r, c, "revoke", {t})
  BY <1>1, <1>2, <1>3, RunIs DEF RevokeToken, Does, Place
<1>6. AnyOK(c)'
  <2>1. calls'[c].todo \subseteq Present(c) /\ \A j \in calls'[c].todo : ~Wrote(c, j)
    BY <1>1, <1>3, <1>5 DEF Finds, Clear, Wrote, Present
  <2>. QED  BY <1>1, <1>2, <1>4, <1>5, <2>1, StartsFresh DEF Continues
<1>7. EndsOnly(c)'
  <2>1. \A k \in Digest : Ended(c, k)'
    BY <1>3, <1>4 DEF Ended, Wrote, Clear, Moves
  <2>2. \A k \in r.todo : k \in Token /\ (table[k] # NoRow => InChain(c, k))
    BY <1>1, <1>2, <1>5 DEF Finds, ChainOK, InChain
  <2>. QED  BY <1>1, <1>4, <1>5, <2>1, <2>2
            DEF EndsOnly, Doing, Finds, TakesChain, Todo, InChain, Moves, Continues
<1>8. LogoutOK(c)'
  BY <1>1, <1>3, <1>4, <1>5, <1>7 DEF LogoutOK, Has, Moves, Continues
<1>. QED  BY <1>1, <1>2, <1>4, <1>5, <1>6, <1>8, LogoutGoes

LEMMA RevokeChainKeeps ==
    ASSUME RowsOK, NEW c \in Caller, CallOK(c), RevokeChain(c)
    PROVE  calls'[c] \in CallRecord /\ CallOK(c)'
<1>. USE DEF RowsOK
<1>1. PICK r, t : r = calls'[c] /\ t = calls[c].key
  OBVIOUS
<1>2. calls[c] # Nothing /\ calls[c].pc = "revokeChain" /\ calls[c].op = "logout"
      /\ ChainOK(c) /\ calls[c].at <= clock
  BY <1>1, PlaceOf DEF RevokeChain, At, CallOK, AnyOK
<1>3. EndsOnly(c) /\ Has(c, t) /\ Has(c, calls[c].root)
  BY <1>1, <1>2 DEF ChainOK, LogoutOK
<1>4. Moves(c)
  BY PlansMove DEF Plans, ChainPlans
<1>5. Sweep(c, NoToken, "sweepHead") /\ \A k \in Digest : Ended(c, k)
  BY <1>3 DEF RevokeChain, EndsOnly
<1>6. /\ Continues(r, calls[c]) /\ r.keep = NoToken /\ r.pc = "sweepHead"
      /\ AnyOK(c)' /\ EndsOnly(c)' /\ LinksGo(c)'
  BY <1>1, <1>2, <1>4, <1>5, SweepGoes DEF Place
<1>7. LogoutOK(c)'
  BY <1>1, <1>3, <1>4, <1>6 DEF LogoutOK, Has, Moves, Continues
<1>. QED  BY <1>1, <1>2, <1>4, <1>6, <1>7, LogoutGoes

LEMMA ChainPlansKeep ==
    ASSUME RowsOK, NEW c \in Caller, CallOK(c), ChainPlans(c)
    PROVE  calls'[c] \in CallRecord /\ CallOK(c)'
BY ChainCalledKeeps, HoldChainKeeps, DecideKeeps, SweepHeadKeeps, MarkRotatedKeeps, RetireKeeps,
   RevokeTokenKeeps, RevokeChainKeeps DEF ChainPlans

-----------------------------------------------------------------------------
(* A call on a person goes on.                                              *)

\* The chains that a call finds when it starts.
ChainsOf(who) == {table[t].root : t \in SessionsOf(who)}

LEMMA FoundAre ==
    ASSUME RowsOK, NEW who
    PROVE  /\ ChainsOf(who) \subseteq Token \cap issued
           /\ CodesOf(who) \subseteq Code \cap issued
           /\ SessionsOf(who) \subseteq Token \cap issued
           /\ \A r \in ChainsOf(who) : table[r] # NoRow => r \in SessionsOf(who)
           /\ \A t \in SessionsOf(who) :
                 table[t] \in SessionRow
                 /\ (table[table[t].root] # NoRow => table[t].root \in SessionsOf(who))
<1>. USE DEF RowsOK
<1>1. ASSUME NEW t \in SessionsOf(who)
      PROVE  /\ t \in Token \cap issued /\ table[t] \in SessionRow
             /\ table[t].root \in Token \cap issued
             /\ table[table[t].root] # NoRow => table[t].root \in SessionsOf(who)
  <2>1. t \in Token /\ table[t] # NoRow /\ table[t].subject \in who /\ t \in issued
    BY DEF SessionsOf, RowsAreIssued, Digest
  <2>2. table[t] \in SessionRow /\ table[t].root \in Token
    BY <2>1 DEF TypeOK, SessionRow
  <2>. QED  BY <2>1, <2>2 DEF SessionsOf, ChainsHold
<1>2. CodesOf(who) \subseteq Code \cap issued
  BY DEF CodesOf, RowsAreIssued, Digest
<1>. QED  BY <1>1, <1>2 DEF ChainsOf

\* The record of a call on these persons, before its first statement.
Scoped(op, who) ==
    [Call(op) EXCEPT !.who = who, !.codes = CodesOf(who), !.chains = ChainsOf(who)]

LEMMA ScopedCall ==
    ASSUME RowsOK, NEW op \in Op, NEW who \in Scope, NEW call, call = Scoped(op, who)
    PROVE  /\ call \in CallRecord
           /\ call.op = op /\ call.at = clock /\ call.who = who
           /\ call.chains = ChainsOf(who) /\ call.codes = CodesOf(who)
<1>1. PICK first, chains, codes :
        first = Call(op) /\ chains = ChainsOf(who) /\ codes = CodesOf(who)
  OBVIOUS
<1>2. first \in CallRecord /\ first.op = op /\ first.at = clock
  BY <1>1, CallIs DEF RowsOK
<1>3. chains \in SUBSET Token /\ codes \in SUBSET Code /\ who \in SUBSET Person
  BY <1>1, FoundAre, ScopeAssumption
<1>4. PICK named : named = [first EXCEPT !.who = who, !.codes = codes]
  OBVIOUS
<1>5. named \in CallRecord /\ named.op = op /\ named.at = clock /\ named.who = who
      /\ named.codes = codes
  BY <1>2, <1>3, <1>4 DEF CallRecord
<1>6. call = [named EXCEPT !.chains = chains]
  BY <1>1, <1>2, <1>4 DEF Scoped
<1>. QED  BY <1>1, <1>3, <1>5, <1>6 DEF CallRecord

\* With the name, or the address, that it writes.
Writing(op, who, set) ==
    [Call(op) EXCEPT !.who = who, !.codes = CodesOf(who), !.set = set, !.chains = ChainsOf(who)]

LEMMA WritingCall ==
    ASSUME RowsOK, NEW op \in Op, NEW who \in Scope, NEW set \in Name \cup Email, NEW call,
           call = Writing(op, who, set)
    PROVE  /\ call \in CallRecord
           /\ call.op = op /\ call.at = clock /\ call.who = who /\ call.set = set
           /\ call.chains = ChainsOf(who) /\ call.codes = CodesOf(who)
<1>1. PICK first, chains, codes :
        first = Call(op) /\ chains = ChainsOf(who) /\ codes = CodesOf(who)
  OBVIOUS
<1>2. PICK scoped : scoped = Scoped(op, who)
  OBVIOUS
<1>3. /\ scoped \in CallRecord
      /\ scoped.op = op /\ scoped.at = clock /\ scoped.who = who
      /\ scoped.chains = chains /\ scoped.codes = codes
  BY <1>1, <1>2, ScopedCall
<1>4. first \in CallRecord
  BY <1>1, CallIs DEF RowsOK
<1>5. call = [first EXCEPT !.who = who, !.codes = codes, !.set = set, !.chains = chains]
  BY <1>1 DEF Writing
<1>6. scoped = [first EXCEPT !.who = who, !.codes = codes, !.chains = chains]
  BY <1>1, <1>2 DEF Scoped
<1>7. call = [scoped EXCEPT !.set = set]
  BY <1>4, <1>5, <1>6
<1>. QED  BY <1>1, <1>3, <1>7 DEF CallRecord

LEMMA EndCalledKeeps ==
    ASSUME RowsOK, NEW c \in Caller, NEW who \in Scope, EndCalled(c, who)
    PROVE  calls'[c] \in CallRecord /\ CallOK(c)'
<1>. USE DEF RowsOK
<1>1. PICK r, call :
        /\ r = calls'[c]
        /\ call = Scoped("end", who)
  OBVIOUS
<1>2. calls[c] = Nothing /\ Clear(c) /\ Moves(c)
  BY PlansMove DEF EndCalled, Free, IdleHoldNothing, Plans, ScopePlans
<1>3. /\ call \in CallRecord
      /\ call.op = "end" /\ call.at = clock /\ call.who = who
      /\ call.chains = ChainsOf(who) /\ call.codes = CodesOf(who)
  <2>1. "end" \in Op
    BY DEF Op
  <2>. QED  BY <1>1, <2>1, ScopedCall
<1>4. r = Running(c, call, "hold", SessionsOf(who), "endSessions")
  BY <1>1 DEF EndCalled, Scoped, ChainsOf, TypeOK
<1>5. Continues(r, call) /\ r.pc = "endSessions" /\ Finds(r, c, "hold", SessionsOf(who))
  BY <1>3, <1>4, RunningIs DEF Does, Place
<1>6. AnyOK(c)'
  <2>1. calls'[c].todo \subseteq Present(c) /\ \A j \in calls'[c].todo : ~Wrote(c, j)
    BY <1>1, <1>2, <1>5 DEF Finds, Clear, Wrote, Present
  <2>. QED  BY <1>1, <1>2, <1>3, <1>5, <2>1, StartsFresh DEF Continues, TypeOK
<1>7. \A k \in ChainsOf(who) : table[k] = NoRow \/ k \in r.todo
  BY <1>2, <1>5, FoundAre, ViewIs DEF Finds, Present, Clear, Digest
<1>8. r.todo \subseteq Token /\ r.does = "hold"
  BY <1>5, FoundAre DEF Finds
<1>9. r.who = who /\ r.chains = ChainsOf(who) /\ r.codes = CodesOf(who) /\ r.op = "end"
  BY <1>3, <1>5 DEF Continues
<1>10. ScopeOK(c)'
  BY <1>1, <1>2, <1>9, FoundAre DEF ScopeOK, Moves
<1>11. EndOK(c)'
  BY <1>1, <1>2, <1>5, <1>7, <1>8, <1>9, <1>10 DEF EndOK, Doing, Takes, Has, Todo, Clear, Moves
<1>. QED  BY <1>1, <1>5, <1>6, <1>9, <1>11 DEF CallOK, Continues

LEMMA RewriteCalledKeeps ==
    ASSUME RowsOK, NEW c \in Caller, NEW who \in Scope, NEW op, NEW set,
           \/ op = "rename" /\ set \in Name
           \/ op = "readdress" /\ set \in Email,
           RewriteCalled(c, op, who, set)
    PROVE  calls'[c] \in CallRecord /\ CallOK(c)'
<1>. USE DEF RowsOK
<1>1. PICK r, call :
        /\ r = calls'[c]
        /\ call = Writing(op, who, set)
  OBVIOUS
<1>2. calls[c] = Nothing /\ Clear(c) /\ Moves(c)
  <2>1. Plans(c)
    BY DEF Plans, ScopePlans
  <2>. QED  BY <2>1, PlansMove DEF RewriteCalled, Free, IdleHoldNothing
<1>3. /\ call \in CallRecord
      /\ call.op = op /\ call.at = clock /\ call.who = who /\ call.set = set
      /\ call.chains = ChainsOf(who) /\ call.codes = CodesOf(who)
  <2>1. op \in Op /\ set \in Name \cup Email
    BY DEF Op
  <2>. QED  BY <1>1, <2>1, WritingCall
<1>4. r = Running(c, call, "hold", CodesOf(who), "holdSessions")
  BY <1>1 DEF RewriteCalled, Writing, ChainsOf, TypeOK
<1>5. Continues(r, call) /\ r.pc = "holdSessions" /\ Finds(r, c, "hold", CodesOf(who))
  BY <1>3, <1>4, RunningIs DEF Does, Place
<1>6. AnyOK(c)'
  <2>1. calls'[c].todo \subseteq Present(c) /\ \A j \in calls'[c].todo : ~Wrote(c, j)
    BY <1>1, <1>2, <1>5 DEF Finds, Clear, Wrote, Present
  <2>. QED  BY <1>1, <1>2, <1>3, <1>5, <2>1, StartsFresh DEF Continues, TypeOK
<1>7. \A k \in CodesOf(who) : table[k] = NoRow \/ k \in r.todo
  BY <1>2, <1>5, FoundAre, ViewIs DEF Finds, Present, Clear, Digest
<1>8. r.todo \subseteq Code /\ r.does = "hold"
  BY <1>5, FoundAre DEF Finds
<1>9. r.who = who /\ r.chains = ChainsOf(who) /\ r.codes = CodesOf(who) /\ r.op = op /\ r.set = set
  BY <1>3, <1>5 DEF Continues
<1>10. ScopeOK(c)'
  BY <1>1, <1>2, <1>9, FoundAre DEF ScopeOK, Moves
<1>11. RewriteOK(c)'
  BY <1>1, <1>2, <1>5, <1>7, <1>8, <1>9, <1>10 DEF RewriteOK, Doing, Takes, Has, Todo, Clear, Moves
<1>. QED  BY <1>1, <1>5, <1>6, <1>9, <1>11 DEF CallOK, Continues

LEMMA EndSessionsKeeps ==
    ASSUME RowsOK, NEW c \in Caller, CallOK(c), EndSessions(c)
    PROVE  calls'[c] \in CallRecord /\ CallOK(c)'
<1>. USE DEF RowsOK
<1>1. PICK r, who : r = calls'[c] /\ who = calls[c].who
  OBVIOUS
<1>2. calls[c] # Nothing /\ calls[c].pc = "endSessions" /\ calls[c].op = "end"
      /\ calls[c].at <= clock /\ Todo(c) = {} /\ EndOK(c)
  BY <1>1, PlaceOf DEF EndSessions, At, CallOK, AnyOK, Todo
<1>3. Clear(c) /\ ScopeOK(c) /\ \A k \in calls[c].chains : Has(c, k)
  BY <1>2 DEF EndOK, Takes
<1>4. Moves(c)
  BY PlansMove DEF Plans, ScopePlans
<1>5. Continues(r, calls[c]) /\ r.pc = "endCodes" /\ Finds(r, c, "revoke", SessionsOf(who))
  BY <1>1, <1>2, RunIs DEF EndSessions, Does, Place
<1>6. AnyOK(c)'
  <2>1. calls'[c].todo \subseteq Present(c) /\ \A j \in calls'[c].todo : ~Wrote(c, j)
    BY <1>1, <1>3, <1>5 DEF Finds, Clear, Wrote, Present
  <2>. QED  BY <1>1, <1>2, <1>4, <1>5, <2>1, StartsFresh DEF Continues
<1>7. r.todo \subseteq SessionsOf(who) /\ \A t \in SessionsOf(who) : t \in r.todo \/ table[t].revoked
  <2>1. \A t \in SessionsOf(who) : t \in Present(c) /\ View(c)[t] = table[t]
    BY <1>3, ViewIs DEF SessionsOf, Clear, Present, Digest
  <2>. QED  BY <1>5, <2>1 DEF Finds
<1>8. /\ r.does = "revoke" /\ r.todo \subseteq Token /\ r.op = "end"
      /\ r.who = who /\ r.chains = calls[c].chains /\ r.codes = calls[c].codes
      /\ \A t \in r.todo : table[t].subject \in who
  BY <1>1, <1>2, <1>5, <1>7 DEF Continues, Finds, SessionsOf
<1>9. \A k \in Digest : ~Wrote(c, k)'
  BY <1>3, <1>4 DEF Clear, Wrote, Moves
<1>10. FoundEnd(c)'
  BY <1>1, <1>4, <1>7, <1>8 DEF FoundEnd, Gone_, Reached, Todo, Moves, SessionsOf
<1>11. HeadsEndToo(c)'
  <2>. SUFFICES ASSUME NEW t \in Token, table[t] # NoRow, t \in r.todo, table[table[t].root] # NoRow
                PROVE  table[t].root \in r.todo \/ table[table[t].root].revoked
    BY <1>1, <1>4, <1>9 DEF HeadsEndToo, Reached, Todo, Moves, Digest
  <2>. QED  BY <1>7, FoundAre
<1>12. EndOK(c)'
  <2>1. ScopeOK(c)' /\ \A k \in calls'[c].chains : Has(c, k)'
    BY <1>1, <1>3, <1>4, <1>8 DEF ScopeOK, Has, Moves
  <2>2. (\A k \in Todo(c) : Ours(c, k))'
    BY <1>1, <1>4, <1>8 DEF Todo, Ours, Moves
  <2>. QED  BY <1>1, <1>5, <1>8, <1>9, <1>10, <1>11, <2>1, <2>2 DEF EndOK, Doing, Todo, Digest
<1>. QED  BY <1>1, <1>5, <1>6, <1>8, <1>12 DEF CallOK, Continues

LEMMA EndCodesKeeps ==
    ASSUME RowsOK, NEW c \in Caller, CallOK(c), EndCodes(c)
    PROVE  calls'[c] \in CallRecord /\ CallOK(c)'
<1>. USE DEF RowsOK
<1>1. PICK r, who : r = calls'[c] /\ who = calls[c].who
  OBVIOUS
<1>2. calls[c] # Nothing /\ calls[c].pc = "endCodes" /\ calls[c].op = "end"
      /\ calls[c].at <= clock /\ Todo(c) = {} /\ EndOK(c)
  BY <1>1, PlaceOf DEF EndCodes, At, CallOK, AnyOK, Todo
<1>3. /\ ScopeOK(c) /\ \A k \in calls[c].chains : Has(c, k)
      /\ \A t \in Token : Wrote(c, t) => EndsToken(c, t)
      /\ \A k \in Code : ~Wrote(c, k)
      /\ FoundEnd(c) /\ HeadsEndToo(c)
  BY <1>2 DEF EndOK
<1>4. Moves(c)
  BY PlansMove DEF Plans, ScopePlans
<1>5. Continues(r, calls[c]) /\ r.pc = "commit" /\ Finds(r, c, "redeem", CodesOf(who))
  BY <1>1, <1>2, RunIs DEF EndCodes, Does, Place
<1>6. \A k \in CodesOf(who) : k \in Code /\ k \in Present(c) /\ View(c)[k] = table[k] /\ ~Wrote(c, k)
  BY <1>3, ViewIs DEF CodesOf, Wrote, Present, Digest
<1>7. r.todo \subseteq CodesOf(who) /\ \A k \in CodesOf(who) : k \in r.todo \/ table[k].redeemed
  BY <1>5, <1>6 DEF Finds
<1>8. AnyOK(c)'
  <2>1. calls'[c].todo \subseteq Present(c) /\ \A j \in calls'[c].todo : ~Wrote(c, j)
    BY <1>1, <1>6, <1>7
  <2>. QED  BY <1>1, <1>2, <1>4, <1>5, <2>1, StartsFresh DEF Continues
<1>9. /\ r.does = "redeem" /\ r.todo \subseteq Code /\ r.op = "end"
      /\ r.who = who /\ r.chains = calls[c].chains /\ r.codes = calls[c].codes
      /\ \A t \in r.todo : table[t].subject \in who
  BY <1>1, <1>2, <1>5, <1>7 DEF Continues, Finds, CodesOf
<1>10. \A t \in Token : Reached(c, t)' <=> Reached(c, t)
  BY <1>1, <1>2, <1>4, <1>9, DigestAssumption DEF Reached, Wrote, Todo, Moves
<1>11. FoundEnd(c)'
  BY <1>1, <1>3, <1>4, <1>9, <1>10 DEF FoundEnd, Gone_, Moves
<1>12. HeadsEndToo(c)'
  <2>1. \A t \in Token : table[t] # NoRow => table[t].root \in Token
    BY DEF TypeOK, SessionRow
  <2>. QED  BY <1>3, <1>4, <1>10, <2>1 DEF HeadsEndToo, Moves
<1>13. EndOK(c)'
  <2>1. ScopeOK(c)' /\ \A k \in calls'[c].chains : Has(c, k)'
    BY <1>1, <1>3, <1>4, <1>9 DEF ScopeOK, Has, Moves
  <2>2. (\A k \in Todo(c) : Ours(c, k))'
    BY <1>1, <1>4, <1>9 DEF Todo, Ours, Moves
  <2>3. (\A t \in Token : Wrote(c, t) => EndsToken(c, t))' /\ \A k \in Code : ~Wrote(c, k)'
    BY <1>1, <1>3, <1>4, <1>9 DEF Wrote, EndsToken, Ours, Over, Moves
  <2>4. (\A k \in calls[c].codes :
            table[k] # NoRow /\ table[k].subject \in calls[c].who => Reached(c, k) \/ table[k].redeemed)'
    BY <1>1, <1>3, <1>4, <1>7, <1>9 DEF ScopeOK, CodesOf, Reached, Todo, Moves
  <2>. QED  BY <1>1, <1>5, <1>9, <1>11, <1>12, <2>1, <2>2, <2>3, <2>4 DEF EndOK, Doing, Todo
<1>. QED  BY <1>1, <1>5, <1>8, <1>9, <1>13 DEF CallOK, Continues

LEMMA HoldSessionsKeeps ==
    ASSUME RowsOK, NEW c \in Caller, CallOK(c), HoldSessions(c)
    PROVE  calls'[c] \in CallRecord /\ CallOK(c)'
<1>. USE DEF RowsOK
<1>1. PICK r, who : r = calls'[c] /\ who = calls[c].who
  OBVIOUS
<1>2. calls[c] # Nothing /\ calls[c].pc = "holdSessions" /\ calls[c].op \in {"rename", "readdress"}
      /\ calls[c].at <= clock /\ Todo(c) = {} /\ RewriteOK(c)
  BY <1>1, PlaceOf DEF HoldSessions, At, CallOK, AnyOK, Todo
<1>3. /\ Clear(c) /\ ScopeOK(c) /\ \A k \in calls[c].codes : Has(c, k)
      /\ calls[c].set \in (IF calls[c].op = "rename" THEN Name ELSE Email)
  BY <1>2 DEF RewriteOK, Takes
<1>4. Moves(c)
  BY PlansMove DEF Plans, ScopePlans
<1>5. Continues(r, calls[c]) /\ r.pc = "rewriteSessions" /\ Finds(r, c, "hold", SessionsOf(who))
  BY <1>1, <1>2, RunIs DEF HoldSessions, Does, Place
<1>6. AnyOK(c)'
  <2>1. calls'[c].todo \subseteq Present(c) /\ \A j \in calls'[c].todo : ~Wrote(c, j)
    BY <1>1, <1>3, <1>5 DEF Finds, Clear, Wrote, Present
  <2>. QED  BY <1>1, <1>2, <1>4, <1>5, <2>1, StartsFresh DEF Continues
<1>7. r.todo \subseteq SessionsOf(who) /\ \A t \in SessionsOf(who) : t \in r.todo
  <2>1. \A t \in SessionsOf(who) : t \in Present(c)
    BY <1>3, ViewIs DEF SessionsOf, Clear, Present, Digest
  <2>. QED  BY <1>5, <2>1 DEF Finds
<1>8. /\ r.does = "hold" /\ r.todo \subseteq Token /\ r.op = calls[c].op /\ r.set = calls[c].set
      /\ r.who = who /\ r.chains = calls[c].chains /\ r.codes = calls[c].codes
  BY <1>1, <1>5, <1>7 DEF Continues, Finds, SessionsOf
<1>9. \A t \in Token : table[t] # NoRow /\ table[t].subject \in who =>
         table[table[t].root] = NoRow \/ table[t].root \in r.todo
  BY <1>7, FoundAre DEF SessionsOf
<1>10. RewriteOK(c)'
  <2>1. ScopeOK(c)' /\ \A k \in calls'[c].codes : Has(c, k)'
    BY <1>1, <1>3, <1>4, <1>8 DEF ScopeOK, Has, Moves
  <2>2. (\A t \in Token : FoundBy(c, t) => Takes(c, table[t].root))'
    BY <1>1, <1>4, <1>8, <1>9 DEF FoundBy, Takes, Has, Todo, Moves
  <2>3. Clear(c)'
    BY <1>3, <1>4 DEF Clear, Moves
  <2>. QED  BY <1>1, <1>3, <1>5, <1>8, <2>1, <2>2, <2>3 DEF RewriteOK, Doing, Todo
<1>. QED  BY <1>1, <1>2, <1>5, <1>6, <1>8, <1>10 DEF CallOK, Continues

LEMMA RewriteSessionsKeeps ==
    ASSUME RowsOK, NEW c \in Caller, CallOK(c), RewriteSessions(c)
    PROVE  calls'[c] \in CallRecord /\ CallOK(c)'
<1>. USE DEF RowsOK
<1>1. PICK r, who : r = calls'[c] /\ who = calls[c].who
  OBVIOUS
<1>2. calls[c] # Nothing /\ calls[c].pc = "rewriteSessions" /\ calls[c].op \in {"rename", "readdress"}
      /\ calls[c].at <= clock /\ Todo(c) = {} /\ RewriteOK(c)
  BY <1>1, PlaceOf DEF RewriteSessions, At, CallOK, AnyOK, Todo
<1>3. /\ Clear(c) /\ ScopeOK(c) /\ \A k \in calls[c].codes : Has(c, k)
      /\ \A t \in Token : FoundBy(c, t) => Has(c, table[t].root)
      /\ calls[c].set \in (IF calls[c].op = "rename" THEN Name ELSE Email)
  BY <1>2 DEF RewriteOK, Takes
<1>4. Moves(c)
  BY PlansMove DEF Plans, ScopePlans
<1>5. Continues(r, calls[c]) /\ r.pc = "rewriteCodes" /\ Finds(r, c, "nameSession", SessionsOf(who))
  BY <1>1, <1>2, RunIs DEF RewriteSessions, Does, Place
<1>6. AnyOK(c)'
  <2>1. calls'[c].todo \subseteq Present(c) /\ \A j \in calls'[c].todo : ~Wrote(c, j)
    BY <1>1, <1>3, <1>5 DEF Finds, Clear, Wrote, Present
  <2>. QED  BY <1>1, <1>2, <1>4, <1>5, <2>1, StartsFresh DEF Continues
<1>7. r.todo \subseteq SessionsOf(who)
      /\ \A t \in SessionsOf(who) : ~table[t].revoked /\ r.at < table[t].expires => t \in r.todo
  <2>1. \A t \in SessionsOf(who) : t \in Present(c) /\ View(c)[t] = table[t]
    BY <1>3, ViewIs DEF SessionsOf, Clear, Present, Digest
  <2>. QED  BY <1>5, <2>1 DEF Finds
<1>8. /\ r.does = "nameSession" /\ r.todo \subseteq Token
      /\ r.op = calls[c].op /\ r.set = calls[c].set /\ r.at = calls[c].at
      /\ r.who = who /\ r.chains = calls[c].chains /\ r.codes = calls[c].codes
      /\ \A t \in r.todo : table[t].subject \in who
  BY <1>1, <1>5, <1>7 DEF Continues, Finds, SessionsOf
<1>9. RewriteOK(c)'
  <2>1. ScopeOK(c)' /\ \A k \in calls'[c].codes : Has(c, k)'
    BY <1>1, <1>3, <1>4, <1>8 DEF ScopeOK, Has, Moves
  <2>2. (\A t \in Token : FoundBy(c, t) => Has(c, table[t].root))'
    BY <1>1, <1>3, <1>4, <1>8 DEF FoundBy, Has, Moves
  <2>3. \A k \in Digest : ~Wrote(c, k)'
    BY <1>3, <1>4 DEF Clear, Wrote, Moves
  <2>4. (\A k \in Todo(c) : Ours(c, k))'
    BY <1>1, <1>4, <1>8 DEF Todo, Ours, Moves
  <2>5. (\A t \in Token : FoundBy(c, t) /\ NameToken(c, t) => Reached(c, t))'
    BY <1>1, <1>4, <1>7, <1>8 DEF FoundBy, NameToken, Reached, Todo, SessionsOf, Moves
  <2>. QED  BY <1>1, <1>3, <1>5, <1>8, <2>1, <2>2, <2>3, <2>4, <2>5 DEF RewriteOK, Doing, Todo, Digest
<1>. QED  BY <1>1, <1>2, <1>5, <1>6, <1>8, <1>9 DEF CallOK, Continues

LEMMA RewriteCodesKeeps ==
    ASSUME RowsOK, NEW c \in Caller, CallOK(c), RewriteCodes(c)
    PROVE  calls'[c] \in CallRecord /\ CallOK(c)'
<1>. USE DEF RowsOK
<1>1. PICK r, who : r = calls'[c] /\ who = calls[c].who
  OBVIOUS
<1>2. calls[c] # Nothing /\ calls[c].pc = "rewriteCodes" /\ calls[c].op \in {"rename", "readdress"}
      /\ calls[c].at <= clock /\ Todo(c) = {} /\ RewriteOK(c)
  BY <1>1, PlaceOf DEF RewriteCodes, At, CallOK, AnyOK, Todo
<1>3. /\ ScopeOK(c) /\ \A k \in calls[c].codes : Has(c, k)
      /\ \A t \in Token : FoundBy(c, t) => Has(c, table[t].root)
      /\ calls[c].set \in (IF calls[c].op = "rename" THEN Name ELSE Email)
      /\ \A t \in Token : Wrote(c, t) => Ours(c, t) /\ NameToken(c, t) /\ Over(c, t, Named(c, table[t]))
      /\ \A k \in Code : ~Wrote(c, k)
      /\ \A t \in Token : FoundBy(c, t) /\ NameToken(c, t) => Reached(c, t)
  BY <1>2 DEF RewriteOK
<1>4. Moves(c)
  BY PlansMove DEF Plans, ScopePlans
<1>5. Continues(r, calls[c]) /\ r.pc = "commit" /\ Finds(r, c, "nameCode", CodesOf(who))
  BY <1>1, <1>2, RunIs DEF RewriteCodes, Does, Place
<1>6. \A k \in CodesOf(who) : k \in Code /\ k \in Present(c) /\ View(c)[k] = table[k] /\ ~Wrote(c, k)
  BY <1>3, ViewIs DEF CodesOf, Wrote, Present, Digest
<1>7. r.todo \subseteq CodesOf(who)
      /\ \A k \in CodesOf(who) : ~table[k].redeemed /\ r.at < table[k].expires => k \in r.todo
  BY <1>5, <1>6 DEF Finds
<1>8. AnyOK(c)'
  <2>1. calls'[c].todo \subseteq Present(c) /\ \A j \in calls'[c].todo : ~Wrote(c, j)
    BY <1>1, <1>6, <1>7
  <2>. QED  BY <1>1, <1>2, <1>4, <1>5, <2>1, StartsFresh DEF Continues
<1>9. /\ r.does = "nameCode" /\ r.todo \subseteq Code
      /\ r.op = calls[c].op /\ r.set = calls[c].set /\ r.at = calls[c].at
      /\ r.who = who /\ r.chains = calls[c].chains /\ r.codes = calls[c].codes
      /\ \A t \in r.todo : table[t].subject \in who
  BY <1>1, <1>5, <1>7 DEF Continues, Finds, CodesOf
<1>10. \A t \in Token : Reached(c, t)' <=> Reached(c, t)
  BY <1>1, <1>2, <1>4, <1>9, DigestAssumption DEF Reached, Wrote, Todo, Moves
<1>11. RewriteOK(c)'
  <2>1. ScopeOK(c)' /\ \A k \in calls'[c].codes : Has(c, k)'
    BY <1>1, <1>3, <1>4, <1>9 DEF ScopeOK, Has, Moves
  <2>2. (\A t \in Token : FoundBy(c, t) => Has(c, table[t].root))'
    BY <1>1, <1>3, <1>4, <1>9 DEF FoundBy, Has, Moves
  <2>3. (\A t \in Token : Wrote(c, t) => Ours(c, t) /\ NameToken(c, t) /\ Over(c, t, Named(c, table[t])))'
    BY <1>1, <1>3, <1>4, <1>9 DEF Wrote, Ours, NameToken, Over, Named, Moves
  <2>4. \A k \in Code : ~Wrote(c, k)'
    BY <1>3, <1>4 DEF Wrote, Moves
  <2>5. (\A k \in Todo(c) : Ours(c, k))'
    BY <1>1, <1>4, <1>9 DEF Todo, Ours, Moves
  <2>6. (\A t \in Token : FoundBy(c, t) /\ NameToken(c, t) => Reached(c, t))'
    BY <1>1, <1>3, <1>4, <1>9, <1>10 DEF FoundBy, NameToken, Moves
  <2>7. (\A k \in calls[c].codes :
            table[k] # NoRow /\ table[k].subject \in calls[c].who /\ NameCode(c, k) => Reached(c, k))'
    BY <1>1, <1>3, <1>4, <1>7, <1>9 DEF ScopeOK, NameCode, CodesOf, Reached, Todo, Moves
  <2>. QED  BY <1>1, <1>3, <1>5, <1>9, <2>1, <2>2, <2>3, <2>4, <2>5, <2>6, <2>7 DEF RewriteOK, Doing, Todo
<1>. QED  BY <1>1, <1>2, <1>5, <1>8, <1>9, <1>11 DEF CallOK, Continues

LEMMA ScopePlansKeep ==
    ASSUME RowsOK, NEW c \in Caller, CallOK(c), ScopePlans(c)
    PROVE  calls'[c] \in CallRecord /\ CallOK(c)'
BY EndCalledKeeps, RewriteCalledKeeps, EndSessionsKeeps, EndCodesKeeps, HoldSessionsKeeps,
   RewriteSessionsKeeps, RewriteCodesKeeps DEF ScopePlans

LEMMA PlansKeep ==
    ASSUME RowsOK, NEW c \in Caller, CallOK(c), Plans(c)
    PROVE  calls'[c] \in CallRecord /\ CallOK(c)'
BY PairPlansKeep, ChainPlansKeep, ScopePlansKeep DEF Plans

-----------------------------------------------------------------------------
(* A statement takes one more row.                                          *)

Visits(c, k) ==
    /\ k \in Todo(c) /\ k \in issued /\ k \in Digest /\ ~Wrote(c, k)
    /\ calls[c] # Nothing /\ calls[c] \in CallRecord
    /\ Continues(calls'[c], calls[c])
    /\ calls'[c].pc = calls[c].pc /\ calls'[c].does = calls[c].does /\ calls'[c].keep = calls[c].keep
    /\ calls'[c].todo = Todo(c) \ {k}
    /\ UNCHANGED <<table, issued, clock>>
    /\ \A j \in Digest : holder[j] = c => holder'[j] = c
    /\ \A j \in Digest \ {k} : draft'[c][j] = draft[c][j]
    /\ table[k] # NoRow => holder'[k] = c
    /\ Wrote(c, k)' => /\ table[k] # NoRow /\ calls[c].does # "hold"
                       /\ Applies(calls[c], table[k]) /\ draft'[c][k] = Result(calls[c], table[k])
    /\ table[k] # NoRow /\ calls[c].does # "hold" /\ Applies(calls[c], table[k])
          => draft'[c][k] = Result(calls[c], table[k])

LEMMA VisitIs ==
    ASSUME RowsOK, NEW c \in Caller, CallOK(c), Visit(c)
    PROVE  \E k \in Digest : Visits(c, k)
<1>. USE DEF RowsOK
<1>1. PICK k \in NextRows(calls[c]) :
        /\ holder[k] \in {Nobody, c}
        /\ calls' = [calls EXCEPT ![c].todo = @ \ {k}]
        /\ IF View(c)[k] = NoRow
           THEN UNCHANGED rows
           ELSE /\ holder' = [holder EXCEPT ![k] = c]
                /\ draft' = IF calls[c].does # "hold" /\ Applies(calls[c], View(c)[k])
                            THEN [draft EXCEPT ![c][k] = Result(calls[c], View(c)[k])]
                            ELSE draft
                /\ UNCHANGED table
  BY DEF Visit
<1>2. calls[c] # Nothing /\ calls[c] \in CallRecord /\ AnyOK(c) /\ UNCHANGED <<issued, clock>>
  BY DEF Visit, CallOK, TypeOK
<1>3. k \in Todo(c) /\ k \in issued /\ k \in Digest /\ ~Wrote(c, k)
  BY <1>1, <1>2 DEF NextRows, AnyOK, Todo, TypeOK
<1>4. View(c)[k] = table[k] /\ draft[c][k] = Untouched
  BY <1>3, ViewIs DEF Wrote
<1>5. /\ Continues(calls'[c], calls[c]) /\ calls'[c].pc = calls[c].pc /\ calls'[c].does = calls[c].does
      /\ calls'[c].keep = calls[c].keep /\ calls'[c].todo = Todo(c) \ {k}
  <2>1. PICK r, todo : r = calls'[c] /\ todo = Todo(c) \ {k}
    OBVIOUS
  <2>2. r = [calls[c] EXCEPT !.todo = todo]
    BY <1>1, <1>2, <2>1 DEF TypeOK, Todo
  <2>3. todo \subseteq Digest
    BY <1>2, <2>1 DEF Todo, CallRecord
  <2>. QED  BY <1>2, <2>1, <2>2, <2>3 DEF CallRecord, Continues
<1>6. UNCHANGED table
  BY <1>1 DEF rows
<1>7. CASE table[k] = NoRow
  <2>1. UNCHANGED rows
    BY <1>1, <1>4, <1>7
  <2>. QED  BY <1>2, <1>3, <1>5, <1>6, <1>7, <2>1 DEF Visits, rows, Wrote
<1>8. CASE table[k] # NoRow
  <2>1. /\ holder' = [holder EXCEPT ![k] = c]
        /\ draft' = IF calls[c].does # "hold" /\ Applies(calls[c], table[k])
                    THEN [draft EXCEPT ![c][k] = Result(calls[c], table[k])]
                    ELSE draft
    BY <1>1, <1>4, <1>8
  <2>2. holder'[k] = c /\ \A j \in Digest : holder[j] = c => holder'[j] = c
    BY <1>3, <2>1 DEF TypeOK
  <2>3. /\ \A j \in Digest \ {k} : draft'[c][j] = draft[c][j]
        /\ calls[c].does # "hold" /\ Applies(calls[c], table[k])
              => draft'[c][k] = Result(calls[c], table[k])
        /\ ~(calls[c].does # "hold" /\ Applies(calls[c], table[k])) => draft'[c][k] = Untouched
    <3>1. CASE calls[c].does # "hold" /\ Applies(calls[c], table[k])
      <4>1. PICK row : row = Result(calls[c], table[k])
        OBVIOUS
      <4>2. draft' = [draft EXCEPT ![c][k] = row]
        BY <2>1, <3>1, <4>1
      <4>. QED  BY <1>3, <3>1, <4>1, <4>2 DEF TypeOK
    <3>2. CASE ~(calls[c].does # "hold" /\ Applies(calls[c], table[k]))
      BY <1>4, <2>1, <3>2
    <3>. QED  BY <3>1, <3>2
  <2>. QED  BY <1>2, <1>3, <1>5, <1>6, <1>8, <2>2, <2>3 DEF Visits, Wrote
<1>. QED  BY <1>3, <1>7, <1>8

\* What it leaves of the row it took, whatever it does with it.
LEMMA VisitedRow ==
    ASSUME RowsOK, NEW c \in Caller, NEW k \in Digest, Visits(c, k)
    PROVE  /\ Doing(c, "hold") => ~Wrote(c, k)'
           /\ Doing(c, "delete") =>
                 /\ Wrote(c, k)' => Over(c, k, NoRow)'
                 /\ table[k] # NoRow /\ table[k].expires <= calls[c].at => Wrote(c, k)'
           /\ Doing(c, "revoke") =>
                 /\ Wrote(c, k)' => Over(c, k, [table[k] EXCEPT !.revoked = TRUE])'
                 /\ k \in Token /\ table[k] # NoRow => Wrote(c, k)' \/ table[k].revoked
           /\ Doing(c, "mark") =>
                 (table[k] # NoRow /\ table[k].rotated = NotRotated
                    => Over(c, k, [table[k] EXCEPT !.rotated = calls[c].at])')
           /\ Doing(c, "spend") => (Wrote(c, k)' =>
                 /\ Over(c, k, [table[k] EXCEPT !.redeemed = TRUE])'
                 /\ ~table[k].redeemed /\ calls[c].at < table[k].expires)
           /\ Doing(c, "redeem") =>
                 /\ Wrote(c, k)' => Over(c, k, [table[k] EXCEPT !.redeemed = TRUE])'
                 /\ k \in Code /\ table[k] # NoRow => Wrote(c, k)' \/ table[k].redeemed
<1>. USE DEF RowsOK
<1>1. PICK row, at : row = table[k] /\ at = calls[c].at
  OBVIOUS
<1>2. /\ table' = table /\ calls'[c].at = at
      /\ Wrote(c, k)' => /\ row # NoRow /\ calls[c].does # "hold" /\ holder'[k] = c
                         /\ Applies(calls[c], row) /\ draft'[c][k] = Result(calls[c], row)
      /\ row # NoRow /\ calls[c].does # "hold" /\ Applies(calls[c], row)
            => draft'[c][k] = Result(calls[c], row) /\ holder'[k] = c
  BY <1>1 DEF Visits, Continues
<1>3. CASE Doing(c, "hold")
  BY <1>2, <1>3 DEF Doing
<1>4. CASE Doing(c, "delete")
  <2>1. (Applies(calls[c], row) <=> row.expires <= at) /\ Result(calls[c], row) = NoRow
    BY <1>1, <1>4 DEF Doing, Applies, Result
  <2>2. calls[c].does # "hold" /\ NoRow # Untouched
    BY <1>4, NullAssumption DEF Doing
  <2>. QED  BY <1>1, <1>2, <1>4, <2>1, <2>2 DEF Doing, Over, Wrote
<1>5. CASE Doing(c, "revoke")
  <2>1. (Applies(calls[c], row) <=> ~row.revoked) /\ Result(calls[c], row) = [row EXCEPT !.revoked = TRUE]
    BY <1>5 DEF Doing, Applies, Result
  <2>2. Wrote(c, k)' => Over(c, k, [table[k] EXCEPT !.revoked = TRUE])'
    BY <1>1, <1>2, <2>1 DEF Over
  <2>3. k \in Token /\ row # NoRow => Wrote(c, k)' \/ row.revoked
    BY <1>1, <1>2, <1>5, <2>1, EndedRow DEF Doing, Wrote
  <2>. QED  BY <1>1, <1>5, <2>2, <2>3 DEF Doing
<1>6. CASE Doing(c, "mark")
  <2>1. /\ Applies(calls[c], row) <=> row.rotated = NotRotated
        /\ Result(calls[c], row) = [row EXCEPT !.rotated = at]
    BY <1>1, <1>6 DEF Doing, Applies, Result
  <2>. QED  BY <1>1, <1>2, <1>6, <2>1 DEF Doing, Over
<1>7. CASE Doing(c, "spend")
  <2>1. /\ Applies(calls[c], row) <=> ~row.redeemed /\ at < row.expires
        /\ Result(calls[c], row) = [row EXCEPT !.redeemed = TRUE]
    BY <1>1, <1>7 DEF Doing, Applies, Result
  <2>. QED  BY <1>1, <1>2, <1>7, <2>1 DEF Doing, Over
<1>8. CASE Doing(c, "redeem")
  <2>1. /\ Applies(calls[c], row) <=> ~row.redeemed
        /\ Result(calls[c], row) = [row EXCEPT !.redeemed = TRUE]
    BY <1>8 DEF Doing, Applies, Result
  <2>2. Wrote(c, k)' => Over(c, k, [table[k] EXCEPT !.redeemed = TRUE])'
    BY <1>1, <1>2, <2>1 DEF Over
  <2>3. k \in Code /\ row # NoRow => Wrote(c, k)' \/ row.redeemed
    <3>. SUFFICES ASSUME k \in Code, row # NoRow, ~row.redeemed  PROVE Wrote(c, k)'
      OBVIOUS
    <3>1. row \in CodeRow /\ draft'[c][k] = [row EXCEPT !.redeemed = TRUE]
      BY <1>1, <1>2, <1>8, <2>1 DEF Doing, TypeOK
    <3>2. draft'[c][k] \in CodeRow
      BY <3>1 DEF CodeRow
    <3>. QED  BY <3>2, NullAssumption DEF Wrote
  <2>. QED  BY <1>1, <1>8, <2>2, <2>3 DEF Doing
<1>9. CASE Doing(c, "nameSession") \/ Doing(c, "nameCode")
  BY <1>9 DEF Doing
<1>. QED  BY <1>3, <1>4, <1>5, <1>6, <1>7, <1>8 DEF Doing

\* What a rename leaves of a row: the row with the name, or the address, that it writes.
LEMMA NamedRow ==
    ASSUME RowsOK, NEW c \in Caller, NEW k \in Digest, Visits(c, k),
           calls[c].op \in {"rename", "readdress"},
           calls[c].set \in (IF calls[c].op = "rename" THEN Name ELSE Email)
    PROVE  /\ Doing(c, "nameSession") =>
                 /\ Wrote(c, k)' => Over(c, k, Named(c, table[k]))' /\ NameToken(c, k)
                 /\ k \in Token /\ table[k] # NoRow /\ NameToken(c, k) => Wrote(c, k)'
           /\ Doing(c, "nameCode") =>
                 /\ Wrote(c, k)' => Over(c, k, Named(c, table[k]))' /\ NameCode(c, k)
                 /\ k \in Code /\ table[k] # NoRow /\ NameCode(c, k) => Wrote(c, k)'
<1>. USE DEF RowsOK
<1>1. PICK row, named : row = table[k] /\ named = Named(c, row)
  OBVIOUS
<1>2. /\ Wrote(c, k)' => /\ row # NoRow /\ calls[c].does # "hold" /\ holder'[k] = c
                         /\ Applies(calls[c], row) /\ draft'[c][k] = Result(calls[c], row)
      /\ row # NoRow /\ calls[c].does # "hold" /\ Applies(calls[c], row)
            => draft'[c][k] = Result(calls[c], row) /\ holder'[k] = c
  BY <1>1 DEF Visits
<1>3. Named(c, table[k])' = named
  BY <1>1 DEF Visits, Continues, Named
<1>4. Doing(c, "nameSession") \/ Doing(c, "nameCode") => Result(calls[c], row) = named
  BY <1>1 DEF Doing, Result, Named
<1>5. Doing(c, "nameSession") => (Applies(calls[c], row) <=> NameToken(c, k))
  BY <1>1 DEF Doing, Applies, NameToken
<1>6. Doing(c, "nameCode") => (Applies(calls[c], row) <=> NameCode(c, k))
  BY <1>1 DEF Doing, Applies, NameCode
<1>7. k \in Token /\ row # NoRow => named # Untouched
  <2>. SUFFICES ASSUME k \in Token, row # NoRow  PROVE named \in SessionRow
    BY NullAssumption
  <2>1. row \in SessionRow
    BY <1>1 DEF TypeOK
  <2>2. named = [row EXCEPT !.name = calls[c].set] \/ named = [row EXCEPT !.email = calls[c].set]
    BY <1>1 DEF Named
  <2>3. CASE calls[c].op = "rename"
    BY <1>1, <2>1, <2>3 DEF Named, SessionRow
  <2>4. CASE calls[c].op # "rename"
    BY <1>1, <2>1, <2>4 DEF Named, SessionRow
  <2>. QED  BY <2>3, <2>4
<1>8. k \in Code /\ row # NoRow => named # Untouched
  <2>. SUFFICES ASSUME k \in Code, row # NoRow  PROVE named \in CodeRow
    BY NullAssumption
  <2>1. row \in CodeRow
    BY <1>1 DEF TypeOK
  <2>3. CASE calls[c].op = "rename"
    BY <1>1, <2>1, <2>3 DEF Named, CodeRow
  <2>4. CASE calls[c].op # "rename"
    BY <1>1, <2>1, <2>4 DEF Named, CodeRow
  <2>. QED  BY <2>3, <2>4
<1>9. CASE Doing(c, "nameSession")
  BY <1>1, <1>2, <1>3, <1>4, <1>5, <1>7, <1>9 DEF Doing, Over, Wrote
<1>10. CASE Doing(c, "nameCode")
  BY <1>1, <1>2, <1>3, <1>4, <1>6, <1>8, <1>10 DEF Doing, Over, Wrote
<1>. QED  BY <1>9, <1>10 DEF Doing

\* What holds of the other rows, and of what is not written, stays.
LEMMA VisitStays ==
    ASSUME RowsOK, NEW c \in Caller, NEW k \in Digest, Visits(c, k)
    PROVE  /\ AnyOK(c) => AnyOK(c)'
           /\ k \notin Todo(c)' /\ Todo(c)' \subseteq Todo(c)
           /\ \A j \in Digest : j # k => (Reached(c, j)' <=> Reached(c, j)) /\ (Wrote(c, j)' <=> Wrote(c, j))
           /\ \A j \in Digest : Reached(c, j)' => Reached(c, j)
           /\ \A j \in Digest : Has(c, j) => Has(c, j)'
           /\ \A j \in Digest : Takes(c, j) => Takes(c, j)'
           /\ \A j \in Digest : \A row : j # k /\ Over(c, j, row) => Over(c, j, row)'
           /\ Doing(c, "hold") /\ Clear(c) => Clear(c)'
           /\ Doing(c, "revoke") => \A u \in Token : table[u] # NoRow /\ Gone_(c, u) => Gone_(c, u)'
           /\ \A t : InChain(c, t)' <=> InChain(c, t)
<1>. USE DEF RowsOK
<1>1. k \notin Todo(c)' /\ Todo(c)' = Todo(c) \ {k} /\ ~Wrote(c, k) /\ k \in Todo(c)
  BY DEF Visits, Todo
<1>2. ASSUME NEW j \in Digest, j # k
      PROVE  (Reached(c, j)' <=> Reached(c, j)) /\ (Wrote(c, j)' <=> Wrote(c, j)) /\ draft'[c][j] = draft[c][j]
  BY <1>1, <1>2 DEF Visits, Reached, Wrote
<1>3. \A j \in Digest : Reached(c, j)' => Reached(c, j)
  BY <1>1, <1>2 DEF Reached
<1>4. \A j \in Digest : Has(c, j) => Has(c, j)'
  BY DEF Has, Visits
<1>5. \A j \in Digest : Takes(c, j) => Takes(c, j)'
  <2>1. Has(c, k)'
    BY DEF Has, Visits
  <2>. QED  BY <1>1, <1>4, <2>1 DEF Takes
<1>6. \A j \in Digest : \A row : j # k /\ Over(c, j, row) => Over(c, j, row)'
  BY <1>2 DEF Over, Visits
<1>7. Doing(c, "hold") /\ Clear(c) => Clear(c)'
  <2>. SUFFICES ASSUME Doing(c, "hold"), Clear(c), NEW j \in Digest  PROVE draft'[c][j] = Untouched
    BY DEF Clear
  <2>1. CASE j = k
    BY <2>1, VisitedRow DEF Wrote
  <2>2. CASE j # k
    BY <1>2, <2>2 DEF Clear
  <2>. QED  BY <2>1, <2>2
<1>8. AnyOK(c) => AnyOK(c)'
  <2>. SUFFICES ASSUME AnyOK(c)  PROVE AnyOK(c)'
    OBVIOUS
  <2>1. \A j \in Todo(c)' : j \in issued' /\ ~Wrote(c, j)'
    BY <1>1, <1>2 DEF AnyOK, TypeOK, Visits
  <2>. QED  BY <2>1 DEF AnyOK, Visits, Continues
<1>9. Doing(c, "revoke") => \A u \in Token : table[u] # NoRow /\ Gone_(c, u) => Gone_(c, u)'
  <2>. SUFFICES ASSUME Doing(c, "revoke"), NEW u \in Token, table[u] # NoRow, Gone_(c, u)
                PROVE  Gone_(c, u)'
    OBVIOUS
  <2>1. table' = table
    BY DEF Visits
  <2>2. CASE u = k
    BY <2>1, <2>2, VisitedRow DEF Gone_, Reached
  <2>3. CASE u # k
    BY <1>2, <2>1, <2>3 DEF Gone_, Digest
  <2>. QED  BY <2>2, <2>3
<1>10. \A t : InChain(c, t)' <=> InChain(c, t)
  BY DEF InChain, Visits, Continues
<1>. QED  BY <1>1, <1>2, <1>3, <1>4, <1>5, <1>6, <1>7, <1>8, <1>9, <1>10

LEMMA PairVisitKeeps ==
    ASSUME RowsOK, NEW c \in Caller, PairOK(c), AnyOK(c), NEW k \in Digest, Visits(c, k)
    PROVE  PairOK(c)'
<1>. USE DEF RowsOK
<1>1. PICK t : t = calls[c].key
  OBVIOUS
<1>2. /\ calls'[c].key = t /\ calls'[c].at = calls[c].at /\ calls'[c].pc = calls[c].pc
      /\ calls'[c].email = calls[c].email /\ calls'[c].does = calls[c].does
      /\ table' = table /\ issued' = issued /\ k \in Todo(c) /\ ~Wrote(c, k)
  BY <1>1 DEF Visits, Continues
<1>3. t \in Code \cap issued
  BY <1>1 DEF PairOK
<1>4. ASSUME NEW kind, kind \in {Code, Token}, PurgeOK(c, kind)
      PROVE  PurgeOK(c, kind)'
  <2>1. Doing(c, "delete")' /\ (Todo(c) \subseteq kind)'
    BY <1>2, <1>4, VisitStays DEF PurgeOK, Doing
  <2>2. \A j \in Todo(c)' : table[j] # NoRow => table[j].expires <= calls[c].at
    BY <1>4, VisitStays DEF PurgeOK
  <2>3. ASSUME NEW j \in Digest, Wrote(c, j)'  PROVE j \in kind /\ Deleted(c, j)'
    <3>1. CASE j = k
      <4>1. k \in kind /\ table[k] # NoRow /\ table[k].expires <= calls[c].at
        BY <1>2, <1>4, <2>3, <3>1 DEF PurgeOK, Visits
      <4>2. Over(c, k, NoRow)'
        BY <1>4, <2>3, <3>1, VisitedRow DEF PurgeOK
      <4>. QED  BY <1>2, <3>1, <4>1, <4>2 DEF Deleted
    <3>2. CASE j # k
      <4>1. j \in kind /\ Deleted(c, j)
        BY <1>4, <2>3, <3>2, VisitStays DEF PurgeOK
      <4>2. Over(c, j, NoRow)'
        BY <3>2, <4>1, VisitStays DEF Deleted
      <4>. QED  BY <1>2, <4>1, <4>2 DEF Deleted
    <3>. QED  BY <3>1, <3>2
  <2>4. PurgeOK(c, kind)'
    BY <1>2, <2>1, <2>2, <2>3 DEF PurgeOK
  <2>. QED  BY <2>4
<1>5. CASE calls[c].pc = "codesPurged" /\ PurgeOK(c, Code)
  <2>1. PurgeOK(c, Code)'
    BY <1>4, <1>5
  <2>. QED  BY <1>2, <1>3, <1>5, <2>1 DEF PairOK
<1>6. CASE calls[c].pc = "sessionsPurged" /\ PurgeOK(c, Token) /\ HeadsGoToo(c)
  <2>1. PurgeOK(c, Token)'
    BY <1>4, <1>6
  <2>2. HeadsGoToo(c)'
    <3>. SUFFICES ASSUME NEW u \in Token, table[u] # NoRow, Reached(c, u)', table[table[u].root] # NoRow
                  PROVE  Reached(c, table[u].root)'
      BY <1>2 DEF HeadsGoToo
    <3>1. Reached(c, table[u].root) /\ table[u].root \in Digest
      BY <1>6, VisitStays DEF HeadsGoToo, Digest, TypeOK, SessionRow
    <3>2. CASE table[u].root = k
      BY <1>2, <1>6, <3>2, VisitedRow DEF PurgeOK, Reached
    <3>3. CASE table[u].root # k
      <4>1. PICK r : r = table[u].root
        OBVIOUS
      <4>2. Reached(c, r)'
        BY <3>1, <3>3, <4>1, VisitStays
      <4>. QED  BY <1>2, <4>1, <4>2 DEF Reached, Wrote, Todo
    <3>. QED  BY <3>2, <3>3
  <2>. QED  BY <1>2, <1>3, <1>6, <2>1, <2>2 DEF PairOK
<1>7. CASE /\ calls[c].pc = "openSession" /\ Doing(c, "spend") /\ calls[c].email \in Email
           /\ Todo(c) \subseteq {t} /\ \A j \in Digest : Wrote(c, j) => j = t /\ CodeSpent(c)
  <2>1. k = t
    BY <1>2, <1>7
  <2>2. ASSUME NEW j \in Digest, Wrote(c, j)'  PROVE j = t /\ CodeSpent(c)'
    <3>1. j = k
      BY <1>2, <1>7, <2>1, <2>2, VisitStays
    <3>2. /\ Over(c, k, [table[k] EXCEPT !.redeemed = TRUE])'
          /\ ~table[k].redeemed /\ calls[c].at < table[k].expires
      BY <1>7, <2>2, <3>1, VisitedRow
    <3>. QED  BY <1>2, <2>1, <3>1, <3>2 DEF CodeSpent
  <2>3. Todo(c)' \subseteq {t}
    BY <1>7, VisitStays
  <2>. QED  BY <1>2, <1>3, <1>7, <2>2, <2>3 DEF PairOK, Doing
<1>. QED  BY <1>1, <1>2, <1>5, <1>6, <1>7 DEF PairOK

\* A statement that ends tokens of the chain.
LEMMA EndsVisit ==
    ASSUME RowsOK, NEW c \in Caller, NEW k \in Digest, Visits(c, k), EndsOnly(c)
    PROVE  /\ EndsOnly(c)'
           /\ LinksGo(c) => LinksGo(c)'
           /\ ChainGoes(c) => ChainGoes(c)'
<1>. USE DEF RowsOK
<1>1. /\ table' = table /\ calls'[c].does = calls[c].does /\ calls'[c].root = calls[c].root
      /\ calls'[c].keep = calls[c].keep /\ k \in Todo(c)
  BY DEF Visits, Continues
<1>2. ASSUME NEW j \in Digest  PROVE Ended(c, j)'
  <2>. SUFFICES ASSUME Wrote(c, j)'
                PROVE  InChain(c, j)' /\ Over(c, j, [table[j] EXCEPT !.revoked = TRUE])'
    BY DEF Ended
  <2>1. CASE j = k
    <3>1. k \in Token /\ table[k] # NoRow /\ InChain(c, k)
      BY <1>1, <2>1 DEF EndsOnly, TakesChain, Visits
    <3>. QED  BY <2>1, <3>1, VisitedRow, VisitStays DEF EndsOnly
  <2>2. CASE j # k
    <3>1. InChain(c, j) /\ Over(c, j, [table[j] EXCEPT !.revoked = TRUE])
      BY <2>2, VisitStays DEF EndsOnly, Ended
    <3>2. PICK row : row = [table[j] EXCEPT !.revoked = TRUE]
      OBVIOUS
    <3>3. Over(c, j, row)'
      BY <2>2, <3>1, <3>2, VisitStays
    <3>4. Over(c, j, [table[j] EXCEPT !.revoked = TRUE])'
      BY <1>1, <3>2, <3>3 DEF Over
    <3>. QED  BY <3>1, <3>4, VisitStays
  <2>. QED  BY <2>1, <2>2
<1>3. TakesChain(c)'
  BY <1>1, VisitStays DEF TakesChain, EndsOnly
<1>4. EndsOnly(c)'
  BY <1>1, <1>2, <1>3 DEF EndsOnly, Doing
<1>5. \A u \in Token : InChain(c, u) /\ Gone_(c, u) => Gone_(c, u)'
  BY VisitStays DEF EndsOnly, InChain
<1>. QED  BY <1>1, <1>4, <1>5, VisitStays DEF LinksGo, ChainGoes

LEMMA LogoutVisitKeeps ==
    ASSUME RowsOK, NEW c \in Caller, ChainOK(c), calls[c].op = "logout", NEW k \in Digest, Visits(c, k)
    PROVE  ChainOK(c)'
<1>. USE DEF RowsOK
<1>1. /\ table' = table /\ issued' = issued /\ k \in Todo(c) /\ Todo(c) # {}
      /\ calls'[c].op = calls[c].op
      /\ calls'[c].key = calls[c].key /\ calls'[c].root = calls[c].root
      /\ calls'[c].keep = calls[c].keep /\ calls'[c].pc = calls[c].pc /\ calls'[c].does = calls[c].does
  BY DEF Visits, Continues
<1>2. LogoutOK(c) /\ calls[c].key \in Digest /\ calls[c].root \in Digest
  BY DEF ChainOK, Digest
<1>3. CASE calls[c].pc = "revokeToken"
  <2>1. /\ Doing(c, "hold") /\ Clear(c) /\ Todo(c) \subseteq {calls[c].key, calls[c].root}
        /\ Takes(c, calls[c].key) /\ Takes(c, calls[c].root) /\ calls[c].keep = NoToken
    BY <1>2, <1>3 DEF LogoutOK
  <2>2. /\ Doing(c, "hold")' /\ Clear(c)' /\ (Todo(c) \subseteq {calls[c].key, calls[c].root})'
        /\ Takes(c, calls[c].key)' /\ Takes(c, calls[c].root)'
    BY <1>1, <1>2, <2>1, VisitStays DEF Doing
  <2>3. LogoutOK(c)'
    BY <1>1, <1>3, <2>1, <2>2 DEF LogoutOK
  <2>. QED  BY <1>1, <2>3 DEF ChainOK
<1>4. CASE calls[c].pc # "revokeToken"
  <2>1. /\ calls[c].pc \in {"revokeChain", "sweepHead", "commit"} /\ calls[c].keep = NoToken
        /\ Has(c, calls[c].key) /\ Has(c, calls[c].root) /\ EndsOnly(c)
        /\ calls[c].pc = "sweepHead" => LinksGo(c)
        /\ calls[c].pc = "commit" => ChainGoes(c)
    BY <1>1, <1>2, <1>4 DEF LogoutOK
  <2>2. /\ Has(c, calls[c].key)' /\ Has(c, calls[c].root)' /\ EndsOnly(c)'
        /\ calls[c].pc = "sweepHead" => LinksGo(c)'
        /\ calls[c].pc = "commit" => ChainGoes(c)'
    BY <1>1, <1>2, <2>1, VisitStays, EndsVisit
  <2>3. LogoutOK(c)'
    BY <1>1, <2>1, <2>2 DEF LogoutOK
  <2>. QED  BY <1>1, <2>3 DEF ChainOK
<1>. QED  BY <1>3, <1>4

\* The rows that a refresh decided on stay as they are.
LEMMA GoingVisit ==
    ASSUME RowsOK, NEW c \in Caller, calls[c].key \in Token, calls[c].root \in Token,
           NEW k \in Digest, Visits(c, k)
    PROVE  /\ Ending(c) => Ending(c)'
           /\ Again(c) => Again(c)'
           /\ First(c) => First(c)'
           /\ \A s : Succeeds(c, s) => Succeeds(c, s)' /\ s # k
<1>. USE DEF RowsOK
<1>1. /\ table' = table /\ issued' = issued /\ k \in issued
      /\ calls'[c].key = calls[c].key /\ calls'[c].root = calls[c].root
      /\ calls'[c].keep = calls[c].keep /\ calls'[c].at = calls[c].at
      /\ calls[c].key \in Digest /\ calls[c].root \in Digest
  BY DEF Visits, Continues, Digest
<1>2. Going(c) => Going(c)'
  BY <1>1 DEF Going, Visits
<1>3. IsLate(c)' <=> IsLate(c)
  BY <1>1 DEF IsLate
<1>4. ~Reached(c, calls[c].key) => ~Reached(c, calls[c].key)'
  BY <1>1, VisitStays
<1>5. ASSUME NEW s, Succeeds(c, s)  PROVE Succeeds(c, s)' /\ s # k
  <2>1. s \in Digest /\ s # k /\ draft'[c][s] = draft[c][s]
    BY <1>1, <1>5 DEF Succeeds, Digest, Visits
  <2>. QED  BY <1>1, <1>5, <2>1 DEF Succeeds
<1>. QED  BY <1>1, <1>2, <1>3, <1>4, <1>5 DEF Ending, Again, First

LEMMA RefreshVisitKeeps ==
    ASSUME RowsOK, NEW c \in Caller, ChainOK(c), calls[c].op = "refresh", NEW k \in Digest, Visits(c, k)
    PROVE  ChainOK(c)'
<1>. USE DEF RowsOK
<1>1. PICK t, root, pc : t = calls[c].key /\ root = calls[c].root /\ pc = calls[c].pc
  OBVIOUS
<1>2. /\ table' = table /\ issued' = issued /\ k \in Todo(c) /\ k \in issued /\ ~Wrote(c, k)
      /\ calls'[c].op = "refresh" /\ calls'[c].at = calls[c].at
      /\ calls'[c].key = t /\ calls'[c].root = root
      /\ calls'[c].keep = calls[c].keep /\ calls'[c].pc = pc /\ calls'[c].does = calls[c].does
      /\ k \notin Todo(c)' /\ Todo(c)' \subseteq Todo(c)
  BY <1>1, VisitStays DEF Visits, Continues
<1>3. /\ t \in Token \cap issued /\ root \in Token \cap issued /\ t \in Digest /\ root \in Digest
      /\ table[t] # NoRow => table[t].root = root
      /\ table[root] # NoRow => table[root].root = root
      /\ RefreshOK(c)
      /\ table[t] # NoRow /\ calls[c].at < table[t].expires => table[root] # NoRow
  BY <1>1 DEF ChainOK, Digest, RefreshOK
<1>4. SUFFICES RefreshOK(c)'
  BY <1>2, <1>3 DEF ChainOK
<1>5. (table[calls[c].key] # NoRow /\ calls[c].at < table[calls[c].key].expires
          => table[calls[c].root] # NoRow)'
  BY <1>2, <1>3
<1>6. CASE /\ pc = "decide" /\ Doing(c, "hold") /\ Clear(c) /\ calls[c].keep = NoToken
           /\ Todo(c) \subseteq {t, root} /\ Takes(c, t) /\ Takes(c, root)
  <2>1. /\ Doing(c, "hold")' /\ Clear(c)' /\ (Todo(c) \subseteq {calls[c].key, calls[c].root})'
        /\ Takes(c, t)' /\ Takes(c, root)'
    BY <1>2, <1>3, <1>6, VisitStays DEF Doing
  <2>. QED  BY <1>1, <1>2, <1>5, <1>6, <2>1 DEF RefreshOK, Takes, Has, Todo
<1>7. CASE \/ pc = "sweepHead" /\ (Ending(c) \/ Again(c)) /\ EndsOnly(c) /\ LinksGo(c)
           \/ pc = "insertSuccessor" /\ Again(c) /\ EndsOnly(c) /\ ChainGoes(c)
           \/ pc = "commit" /\ Ending(c) /\ EndsOnly(c) /\ ChainGoes(c)
  <2>1. /\ EndsOnly(c)' /\ (LinksGo(c) => LinksGo(c)') /\ (ChainGoes(c) => ChainGoes(c)')
        /\ (Ending(c) => Ending(c)') /\ (Again(c) => Again(c)')
    BY <1>1, <1>3, <1>7, EndsVisit, GoingVisit
  <2>. QED  BY <1>2, <1>5, <1>7, <2>1 DEF RefreshOK
<1>8. CASE /\ pc = "retire" /\ Doing(c, "mark") /\ First(c) /\ Todo(c) \subseteq {t}
           /\ \E s \in Token : Succeeds(c, s) /\ \A j \in Digest \ {s, t} : ~Wrote(c, j)
  <2>1. k = t /\ First(c)' /\ Doing(c, "mark")' /\ (Todo(c) \subseteq {calls[c].key})'
    BY <1>1, <1>2, <1>3, <1>8, GoingVisit DEF Doing
  <2>2. Marked(c)'
    <3>1. table[t] # NoRow /\ table[t].rotated = NotRotated
      BY <1>1, <1>3, <1>8, HeldRow DEF First, Going
    <3>2. Over(c, k, [table[k] EXCEPT !.rotated = calls[c].at])'
      BY <1>8, <2>1, <3>1, VisitedRow
    <3>. QED  BY <1>2, <2>1, <3>2 DEF Marked
  <2>3. PICK s \in Token : Succeeds(c, s) /\ \A j \in Digest \ {s, t} : ~Wrote(c, j)
    BY <1>8
  <2>4. Succeeds(c, s)' /\ \A j \in Digest \ {s, t} : ~Wrote(c, j)'
    BY <1>1, <1>3, <2>1, <2>3, GoingVisit, VisitStays
  <2>5. \E u \in Token : Succeeds(c, u)' /\ \A j \in Digest \ {u, t} : ~Wrote(c, j)'
    BY <2>4
  <2>. QED  BY <1>2, <1>5, <1>8, <2>1, <2>2, <2>5 DEF RefreshOK
<1>9. CASE /\ pc = "commit" /\ Doing(c, "revoke") /\ First(c) /\ Marked(c) /\ RetiresPred(c)
           /\ \E s \in Token :
                 /\ Succeeds(c, s)
                 /\ \A j \in Digest \ {s, t} : Ended(c, j) /\ (Wrote(c, j) => j = table[t].pred)
  <2>1. table[t] # NoRow /\ table[t] \in SessionRow /\ table[t].root = root
    BY <1>1, <1>3, <1>9, HeldRow DEF First, Going
  <2>2. /\ k = table[t].pred /\ k # t /\ k \in Token
        /\ table[k] # NoRow => InChain(c, k)
    <3>1. k = table[t].pred
      BY <1>1, <1>2, <1>9 DEF RetiresPred
    <3>2. table[t].pred # t
      BY <1>3, <2>1 DEF ChainsHold
    <3>3. k \in Token
      BY <2>1, <3>1, NullAssumption DEF SessionRow
    <3>4. k # NoToken
      BY NullAssumption
    <3>5. table[k] # NoRow => table[k].root = root
      BY <1>3, <2>1, <3>1, <3>4 DEF ChainsHold
    <3>. QED  BY <1>1, <3>1, <3>2, <3>3, <3>5 DEF InChain
  <2>3. PICK s \in Token :
          /\ Succeeds(c, s)
          /\ \A j \in Digest \ {s, t} : Ended(c, j) /\ (Wrote(c, j) => j = table[t].pred)
    BY <1>9
  <2>4. Succeeds(c, s)' /\ s # k /\ First(c)' /\ Doing(c, "revoke")'
    BY <1>1, <1>2, <1>3, <1>9, <2>3, GoingVisit DEF Doing
  <2>5. Marked(c)'
    <3>1. PICK row : row = [table[t] EXCEPT !.rotated = calls[c].at]
      OBVIOUS
    <3>2. Over(c, t, row)'
      BY <1>1, <1>3, <1>9, <2>2, <3>1, VisitStays DEF Marked
    <3>. QED  BY <1>2, <3>1, <3>2 DEF Marked, Over
  <2>6. RetiresPred(c)'
    <3>1. Todo(c)' \subseteq {table[t].pred}
      BY <1>1, <1>2, <1>9 DEF RetiresPred
    <3>2. table[k] # NoRow => Gone_(c, k)'
      BY <1>1, <1>9, <2>2, VisitStays DEF RetiresPred
    <3>. QED  BY <1>2, <2>2, <3>1, <3>2 DEF RetiresPred
  <2>7. ASSUME NEW j \in Digest \ {s, t}, Wrote(c, j)'
        PROVE  j = k /\ InChain(c, j)' /\ Over(c, j, [table[j] EXCEPT !.revoked = TRUE])'
    <3>1. j = k
      BY <1>2, <2>2, <2>3, <2>7, VisitStays
    <3>2. table[k] # NoRow
      BY <2>7, <3>1 DEF Visits
    <3>3. InChain(c, k)'
      BY <2>2, <3>2, VisitStays
    <3>. QED  BY <1>9, <2>7, <3>1, <3>3, VisitedRow
  <2>8. \A j \in Digest \ {s, t} : Ended(c, j)' /\ (Wrote(c, j)' => j = table[t].pred)
    BY <2>2, <2>7 DEF Ended
  <2>9. \E u \in Token :
          /\ Succeeds(c, u)'
          /\ \A j \in Digest \ {u, t} : Ended(c, j)' /\ (Wrote(c, j)' => j = table[t].pred)
    BY <2>4, <2>8
  <2>. QED  BY <1>2, <1>5, <1>9, <2>4, <2>5, <2>6, <2>9 DEF RefreshOK
<1>10. Todo(c) # {}
  BY <1>2
<1>11. RefreshOK(c)
  BY <1>3
<1>. QED  BY <1>1, <1>6, <1>7, <1>8, <1>9, <1>10, <1>11 DEF RefreshOK

LEMMA EndVisitKeeps ==
    ASSUME RowsOK, NEW c \in Caller, EndOK(c), NEW k \in Digest, Visits(c, k)
    PROVE  EndOK(c)'
<1>. USE DEF RowsOK
<1>1. PICK call, who : call = calls[c] /\ who = calls[c].who
  OBVIOUS
<1>2. /\ table' = table /\ issued' = issued /\ k \in Todo(c)
      /\ calls'[c].who = who /\ calls'[c].chains = call.chains /\ calls'[c].codes = call.codes
      /\ calls'[c].pc = call.pc /\ calls'[c].does = call.does
      /\ Todo(c)' \subseteq Todo(c)
  BY <1>1, VisitStays DEF Visits, Continues
<1>3. ScopeOK(c)' /\ call.chains \subseteq Token /\ call.codes \subseteq Code
  BY <1>1, <1>2 DEF EndOK, ScopeOK
<1>4. \A j \in Digest : Ours(c, j)' <=> Ours(c, j)
  BY <1>1, <1>2 DEF Ours
<1>5. \A r \in call.chains : (Takes(c, r) => Takes(c, r)') /\ (Has(c, r) => Has(c, r)')
  BY <1>3, VisitStays DEF Digest
<1>6. CASE call.pc = "endSessions"
  <2>1. Doing(c, "hold") /\ Clear(c) /\ Todo(c) \subseteq Token /\ \A r \in call.chains : Takes(c, r)
    BY <1>1, <1>6 DEF EndOK
  <2>2. Clear(c)' /\ Doing(c, "hold")'
    BY <1>1, <1>2, <2>1, VisitStays DEF Doing
  <2>. QED  BY <1>2, <1>3, <1>5, <1>6, <2>1, <2>2 DEF EndOK
<1>7. CASE call.pc # "endSessions"
  <2>1. /\ call.pc \in {"endCodes", "commit"}
        /\ Doing(c, IF call.pc = "endCodes" THEN "revoke" ELSE "redeem")
        /\ Todo(c) \subseteq (IF call.pc = "endCodes" THEN Token ELSE Code)
        /\ \A j \in Todo(c) : Ours(c, j)
        /\ \A r \in call.chains : Has(c, r)
        /\ \A t \in Token : Wrote(c, t) => EndsToken(c, t)
        /\ \A j \in Code : Wrote(c, j) => call.pc = "commit" /\ SpendsCode(c, j)
        /\ FoundEnd(c)
        /\ HeadsEndToo(c)
        /\ call.pc = "commit" => \A j \in call.codes :
              table[j] # NoRow /\ table[j].subject \in who => Reached(c, j) \/ table[j].redeemed
    BY <1>1, <1>7 DEF EndOK
  <2>2. /\ Doing(c, IF call.pc = "endCodes" THEN "revoke" ELSE "redeem")'
        /\ Todo(c)' \subseteq (IF call.pc = "endCodes" THEN Token ELSE Code)
        /\ \A j \in Todo(c)' : Ours(c, j)'
    <3>1. Todo(c) \subseteq Digest
      BY <2>1 DEF Digest
    <3>. QED  BY <1>1, <1>2, <1>4, <2>1, <3>1 DEF Doing
  <2>3. Ours(c, k)
    BY <1>2, <2>1
  <2>4. (k \in Token <=> call.pc = "endCodes") /\ (k \in Code <=> call.pc = "commit")
    BY <1>2, <2>1, DigestAssumption
  <2>5. ASSUME NEW t \in Token, Wrote(c, t)'  PROVE EndsToken(c, t)'
    <3>1. PICK row : row = [table[t] EXCEPT !.revoked = TRUE]
      OBVIOUS
    <3>2. Over(c, t, row)' /\ Ours(c, t)
      <4>1. CASE t = k
        <5>1. Over(c, k, [table[k] EXCEPT !.revoked = TRUE])'
          BY <2>1, <2>4, <2>5, <4>1, VisitedRow
        <5>. QED  BY <1>2, <2>3, <3>1, <4>1, <5>1 DEF Over
      <4>2. CASE t # k
        <5>1. EndsToken(c, t) /\ t \in Digest
          BY <2>1, <2>5, <4>2, VisitStays DEF Digest
        <5>. QED  BY <3>1, <4>2, <5>1, VisitStays DEF EndsToken
      <4>. QED  BY <4>1, <4>2
    <3>. QED  BY <1>2, <1>4, <3>1, <3>2 DEF EndsToken, Over, Digest
  <2>6. ASSUME NEW j \in Code, Wrote(c, j)'  PROVE call.pc = "commit" /\ SpendsCode(c, j)'
    <3>1. PICK row : row = [table[j] EXCEPT !.redeemed = TRUE]
      OBVIOUS
    <3>2. Over(c, j, row)' /\ Ours(c, j) /\ call.pc = "commit"
      <4>1. CASE j = k
        <5>1. Over(c, k, [table[k] EXCEPT !.redeemed = TRUE])'
          BY <2>1, <2>4, <2>6, <4>1, VisitedRow
        <5>. QED  BY <1>2, <2>3, <2>4, <3>1, <4>1, <5>1 DEF Over
      <4>2. CASE j # k
        <5>1. call.pc = "commit" /\ SpendsCode(c, j) /\ j \in Digest
          BY <2>1, <2>6, <4>2, VisitStays DEF Digest
        <5>. QED  BY <3>1, <4>2, <5>1, VisitStays DEF SpendsCode
      <4>. QED  BY <4>1, <4>2
    <3>. QED  BY <1>2, <1>4, <3>1, <3>2 DEF SpendsCode, Over, Digest
  <2>7. ASSUME NEW t \in Token, table[t] # NoRow, Gone_(c, t)  PROVE Gone_(c, t)'
    <3>1. CASE call.pc = "endCodes"
      BY <2>1, <2>7, <3>1, VisitStays
    <3>2. CASE call.pc = "commit"
      BY <1>2, <2>4, <2>7, <3>2, VisitStays DEF Gone_, Digest
    <3>. QED  BY <2>1, <3>1, <3>2
  <2>8. FoundEnd(c)'
    BY <1>1, <1>2, <2>1, <2>7 DEF FoundEnd
  <2>9. HeadsEndToo(c)'
    <3>. SUFFICES ASSUME NEW t \in Token, table[t] # NoRow, Reached(c, t)', NEW r, r = table[t].root,
                         table[r] # NoRow
                  PROVE  Reached(c, r)' \/ table[r].revoked
      BY <1>2 DEF HeadsEndToo, Reached, Wrote, Todo
    <3>1. Reached(c, t) /\ r \in Token
      BY VisitStays DEF Digest, TypeOK, SessionRow
    <3>2. Gone_(c, r)
      BY <2>1, <3>1 DEF HeadsEndToo, Gone_
    <3>. QED  BY <1>2, <2>7, <3>1, <3>2 DEF Gone_
  <2>10. call.pc = "commit" => \A j \in call.codes :
              table[j] # NoRow /\ table[j].subject \in who => Reached(c, j)' \/ table[j].redeemed
    <3>. SUFFICES ASSUME call.pc = "commit", NEW j \in call.codes,
                         table[j] # NoRow, table[j].subject \in who, ~table[j].redeemed
                  PROVE  Reached(c, j)'
      OBVIOUS
    <3>1. Reached(c, j) /\ j \in Code /\ j \in Digest
      BY <1>3, <2>1 DEF Digest
    <3>2. CASE j = k
      BY <2>1, <3>1, <3>2, VisitedRow DEF Reached
    <3>3. CASE j # k
      BY <3>1, <3>3, VisitStays
    <3>. QED  BY <3>2, <3>3
  <2>. QED  BY <1>2, <1>3, <1>5, <2>1, <2>2, <2>5, <2>6, <2>8, <2>9, <2>10 DEF EndOK
<1>. QED  BY <1>6, <1>7

LEMMA RewriteVisitKeeps ==
    ASSUME RowsOK, NEW c \in Caller, calls[c].op \in {"rename", "readdress"}, RewriteOK(c),
           NEW k \in Digest, Visits(c, k)
    PROVE  RewriteOK(c)'
<1>. USE DEF RowsOK
<1>1. PICK call, who : call = calls[c] /\ who = calls[c].who
  OBVIOUS
<1>2. /\ table' = table /\ issued' = issued /\ k \in Todo(c)
      /\ calls'[c].who = who /\ calls'[c].chains = call.chains /\ calls'[c].codes = call.codes
      /\ calls'[c].op = call.op /\ calls'[c].set = call.set /\ calls'[c].at = call.at
      /\ calls'[c].pc = call.pc /\ calls'[c].does = call.does
      /\ Todo(c)' \subseteq Todo(c)
  BY <1>1, VisitStays DEF Visits, Continues
<1>3. ScopeOK(c)' /\ call.codes \subseteq Code /\ call.set \in (IF call.op = "rename" THEN Name ELSE Email)
  BY <1>1, <1>2 DEF RewriteOK, ScopeOK
<1>4. \A j \in Digest : /\ Ours(c, j)' <=> Ours(c, j)
                        /\ NameToken(c, j)' <=> NameToken(c, j)
                        /\ NameCode(c, j)' <=> NameCode(c, j)
                        /\ Named(c, table[j])' = Named(c, table[j])
                        /\ FoundBy(c, j)' <=> FoundBy(c, j)
  BY <1>1, <1>2 DEF Ours, NameToken, NameCode, Named, FoundBy
<1>5. \A j \in call.codes : (Takes(c, j) => Takes(c, j)') /\ (Has(c, j) => Has(c, j)')
  BY <1>3, VisitStays DEF Digest
<1>6. ASSUME NEW t \in Token, FoundBy(c, t), NEW r, r = table[t].root
      PROVE (Takes(c, r) => Takes(c, r)') /\ (Has(c, r) => Has(c, r)')
  <2>1. r \in Digest
    BY <1>6 DEF FoundBy, TypeOK, SessionRow, Digest
  <2>. QED  BY <2>1, VisitStays
<1>7. CASE call.pc = "holdSessions"
  <2>1. Doing(c, "hold") /\ Clear(c) /\ Todo(c) \subseteq Code /\ \A j \in call.codes : Takes(c, j)
    BY <1>1, <1>7 DEF RewriteOK
  <2>2. Clear(c)' /\ Doing(c, "hold")'
    BY <1>1, <1>2, <2>1, VisitStays DEF Doing
  <2>. QED  BY <1>2, <1>3, <1>5, <1>7, <2>1, <2>2 DEF RewriteOK
<1>8. CASE call.pc = "rewriteSessions"
  <2>1. Doing(c, "hold") /\ Clear(c) /\ Todo(c) \subseteq Token /\ (\A j \in call.codes : Has(c, j))
        /\ \A t \in Token : FoundBy(c, t) => Takes(c, table[t].root)
    BY <1>1, <1>8 DEF RewriteOK
  <2>2. Clear(c)' /\ Doing(c, "hold")'
    BY <1>1, <1>2, <2>1, VisitStays DEF Doing
  <2>3. ASSUME NEW t \in Token, FoundBy(c, t)', NEW r, r = table[t].root  PROVE Takes(c, r)'
    BY <1>4, <1>6, <2>1, <2>3 DEF Digest
  <2>4. (\A t \in Token : FoundBy(c, t) => Takes(c, table[t].root))'
    BY <1>2, <2>3 DEF Takes, Has, Todo
  <2>. QED  BY <1>2, <1>3, <1>5, <1>8, <2>1, <2>2, <2>4 DEF RewriteOK
<1>9. CASE call.pc \in {"rewriteCodes", "commit"}
  <2>1. /\ Doing(c, IF call.pc = "rewriteCodes" THEN "nameSession" ELSE "nameCode")
        /\ Todo(c) \subseteq (IF call.pc = "rewriteCodes" THEN Token ELSE Code)
        /\ \A j \in Todo(c) : Ours(c, j)
        /\ \A j \in call.codes : Has(c, j)
        /\ \A t \in Token : FoundBy(c, t) => Has(c, table[t].root)
        /\ \A t \in Token : Wrote(c, t) => Ours(c, t) /\ NameToken(c, t) /\ Over(c, t, Named(c, table[t]))
        /\ \A j \in Code : Wrote(c, j) =>
              call.pc = "commit" /\ Ours(c, j) /\ NameCode(c, j) /\ Over(c, j, Named(c, table[j]))
        /\ \A t \in Token : FoundBy(c, t) /\ NameToken(c, t) => Reached(c, t)
        /\ call.pc = "commit" => \A j \in call.codes :
              table[j] # NoRow /\ table[j].subject \in who /\ NameCode(c, j) => Reached(c, j)
    BY <1>1, <1>9 DEF RewriteOK
  <2>2. /\ Doing(c, IF call.pc = "rewriteCodes" THEN "nameSession" ELSE "nameCode")'
        /\ Todo(c)' \subseteq (IF call.pc = "rewriteCodes" THEN Token ELSE Code)
        /\ \A j \in Todo(c)' : Ours(c, j)'
    <3>1. Todo(c) \subseteq Digest
      BY <2>1 DEF Digest
    <3>. QED  BY <1>1, <1>2, <1>4, <2>1, <3>1 DEF Doing
  <2>3. Ours(c, k)
    BY <1>2, <2>1
  <2>4. (k \in Token <=> call.pc = "rewriteCodes") /\ (k \in Code <=> call.pc = "commit")
    BY <1>2, <1>9, <2>1, DigestAssumption
  <2>5. /\ Wrote(c, k)' => Over(c, k, Named(c, table[k]))' /\ (k \in Token => NameToken(c, k))
                                                          /\ (k \in Code => NameCode(c, k))
        /\ k \in Token /\ table[k] # NoRow /\ NameToken(c, k) => Wrote(c, k)'
        /\ k \in Code /\ table[k] # NoRow /\ NameCode(c, k) => Wrote(c, k)'
    <3>1. CASE call.pc = "rewriteCodes"
      BY <1>1, <1>3, <2>1, <2>4, <3>1, NamedRow
    <3>2. CASE call.pc = "commit"
      BY <1>1, <1>3, <2>1, <2>4, <3>2, NamedRow
    <3>. QED  BY <1>9, <3>1, <3>2
  <2>6. ASSUME NEW j \in Digest, Wrote(c, j)'
        PROVE  /\ Ours(c, j)' /\ Over(c, j, Named(c, table[j]))'
               /\ j \in Token => NameToken(c, j)'
               /\ j \in Code => call.pc = "commit" /\ NameCode(c, j)'
    <3>1. CASE j = k
      BY <1>4, <2>3, <2>4, <2>5, <2>6, <3>1
    <3>2. CASE j # k
      <4>1. PICK row : row = Named(c, table[j])
        OBVIOUS
      <4>2. /\ Ours(c, j) /\ Over(c, j, row)
            /\ j \in Token => NameToken(c, j)
            /\ j \in Code => call.pc = "commit" /\ NameCode(c, j)
        <5>1. Wrote(c, j)
          BY <2>6, <3>2, VisitStays
        <5>. QED  BY <2>1, <4>1, <5>1 DEF Digest
      <4>3. Over(c, j, row)'
        BY <3>2, <4>2, VisitStays
      <4>4. Over(c, j, Named(c, table[j]))'
        BY <1>4, <4>1, <4>3 DEF Over
      <4>. QED  BY <1>4, <4>2, <4>4
    <3>. QED  BY <3>1, <3>2
  <2>7. \A t \in Token : FoundBy(c, t)' /\ NameToken(c, t)' => Reached(c, t)'
    <3>. SUFFICES ASSUME NEW t \in Token, FoundBy(c, t), NameToken(c, t)  PROVE Reached(c, t)'
      BY <1>4 DEF Digest
    <3>1. Reached(c, t) /\ table[t] # NoRow /\ t \in Digest
      BY <2>1 DEF FoundBy, Digest
    <3>2. CASE t = k
      BY <2>5, <3>1, <3>2 DEF Reached
    <3>3. CASE t # k
      BY <3>1, <3>3, VisitStays
    <3>. QED  BY <3>2, <3>3
  <2>8. call.pc = "commit" => \A j \in call.codes :
              table[j] # NoRow /\ table[j].subject \in who /\ NameCode(c, j)' => Reached(c, j)'
    <3>. SUFFICES ASSUME call.pc = "commit", NEW j \in call.codes,
                         table[j] # NoRow, table[j].subject \in who, NameCode(c, j)
                  PROVE  Reached(c, j)'
      BY <1>3, <1>4 DEF Digest
    <3>1. Reached(c, j) /\ j \in Code /\ j \in Digest
      BY <1>3, <2>1 DEF Digest
    <3>2. CASE j = k
      BY <2>5, <3>1, <3>2 DEF Reached
    <3>3. CASE j # k
      BY <3>1, <3>3, VisitStays
    <3>. QED  BY <3>2, <3>3
  <2>9. (\A t \in Token : FoundBy(c, t) => Has(c, table[t].root))'
    <3>1. ASSUME NEW t \in Token, FoundBy(c, t)', NEW r, r = table[t].root  PROVE Has(c, r)'
      BY <1>4, <1>6, <2>1, <3>1 DEF Digest
    <3>. QED  BY <1>2, <3>1 DEF Has
  <2>10. /\ \A t \in Token : Wrote(c, t)' => Ours(c, t)' /\ NameToken(c, t)' /\ Over(c, t, Named(c, table[t]))'
         /\ \A j \in Code : Wrote(c, j)' =>
              call.pc = "commit" /\ Ours(c, j)' /\ NameCode(c, j)' /\ Over(c, j, Named(c, table[j]))'
    BY <2>6 DEF Digest
  <2>. QED  BY <1>2, <1>3, <1>5, <1>9, <2>1, <2>2, <2>7, <2>8, <2>9, <2>10 DEF RewriteOK
<1>. QED  BY <1>1, <1>7, <1>8, <1>9 DEF RewriteOK

LEMMA VisitKeeps ==
    ASSUME RowsOK, NEW c \in Caller, CallOK(c), Visit(c)
    PROVE  calls'[c] \in CallRecord /\ CallOK(c)'
<1>1. PICK k \in Digest : Visits(c, k)
  BY VisitIs
<1>2. calls[c] # Nothing /\ calls'[c] \in CallRecord /\ calls'[c].op = calls[c].op
  BY <1>1 DEF Visits, Continues
<1>3. AnyOK(c)'
  BY <1>1, <1>2, VisitStays DEF CallOK
<1>4. calls[c].op = "pair" => PairOK(c)'
  BY <1>1, <1>2, PairVisitKeeps DEF CallOK
<1>5. calls[c].op \in {"refresh", "logout"} => ChainOK(c)'
  BY <1>1, <1>2, RefreshVisitKeeps, LogoutVisitKeeps DEF CallOK
<1>6. calls[c].op = "end" => EndOK(c)'
  BY <1>1, <1>2, EndVisitKeeps DEF CallOK
<1>7. calls[c].op \in {"rename", "readdress"} => RewriteOK(c)'
  BY <1>1, <1>2, RewriteVisitKeeps DEF CallOK
<1>. QED  BY <1>2, <1>3, <1>4, <1>5, <1>6, <1>7 DEF CallOK

-----------------------------------------------------------------------------
(* A call inserts a session, and commits.                                   *)

LEMMA InsertIs ==
    ASSUME TypeOK, NEW c \in Caller, calls[c] # Nothing, NEW k \in Digest, NEW row, NEW next \in Place,
           Insert(c, k, row, next)
    PROVE  /\ Continues(calls'[c], calls[c]) /\ calls'[c].keep = calls[c].keep /\ calls'[c].pc = next
           /\ calls'[c].does = calls[c].does /\ calls'[c].todo = calls[c].todo
           /\ UNCHANGED <<table, holder, issued, clock>>
           /\ draft'[c][k] = row
           /\ \A j \in Digest : j # k => draft'[c][j] = draft[c][j]
           /\ \A d \in Caller \ {c} : draft'[d] = draft[d] /\ calls'[d] = calls[d]
<1>1. calls[c] \in CallRecord
  BY DEF TypeOK
<1>2. calls'[c] = [calls[c] EXCEPT !.pc = next] /\ \A d \in Caller \ {c} : calls'[d] = calls[d]
  BY DEF Insert, TypeOK
<1>3. /\ draft'[c][k] = row
      /\ \A j \in Digest : j # k => draft'[c][j] = draft[c][j]
      /\ \A d \in Caller \ {c} : draft'[d] = draft[d]
  BY DEF Insert, TypeOK
<1>4. UNCHANGED <<table, holder, issued, clock>>
  BY DEF Insert
<1>. QED  BY <1>1, <1>2, <1>3, <1>4, GoesTo

\* What was drawn, and what it says.
Draws(c, s, row) ==
    /\ s \in Token /\ Fresh(s)
    /\ Continues(calls'[c], calls[c]) /\ calls'[c].keep = calls[c].keep
    /\ calls'[c].does = calls[c].does /\ calls'[c].todo = {} /\ calls[c].todo = {}
    /\ UNCHANGED <<table, holder, issued, clock>>
    /\ draft'[c][s] = row
    /\ \A j \in Digest : j # s => draft'[c][j] = draft[c][j]
    /\ \A d \in Caller \ {c} : draft'[d] = draft[d] /\ calls'[d] = calls[d]

\* The row of a code that a call spent.
LEMMA SpentRow ==
    ASSUME RowsOK, NEW c \in Caller, calls[c].key \in Code, CodeSpent(c)
    PROVE  /\ table[calls[c].key] \in CodeRow /\ table[calls[c].key] # NoRow
           /\ draft[c][calls[c].key] = [table[calls[c].key] EXCEPT !.redeemed = TRUE]
           /\ draft[c][calls[c].key].subject = table[calls[c].key].subject
           /\ draft[c][calls[c].key].name = table[calls[c].key].name
<1>1. PICK k, row : k = calls[c].key /\ row = [table[k] EXCEPT !.redeemed = TRUE]
  OBVIOUS
<1>2. holder[k] = c /\ draft[c][k] = row
  BY <1>1 DEF CodeSpent, Over
<1>3. table[k] \in CodeRow /\ table[k] # NoRow
  BY <1>1, <1>2, HeldRow DEF RowsOK, Digest
<1>4. row.subject = table[k].subject /\ row.name = table[k].name
  BY <1>1, <1>3 DEF CodeRow
<1>. QED  BY <1>1, <1>2, <1>3, <1>4

LEMMA OpenSessionIs ==
    ASSUME RowsOK, NEW c \in Caller, CallOK(c), OpenSession(c)
    PROVE  /\ calls[c] # Nothing /\ calls[c].op = "pair" /\ calls'[c].pc = "commit"
           /\ calls[c].pc = "openSession" /\ CodeSpent(c) /\ calls[c].email \in Email
           /\ \A j \in Digest : Wrote(c, j) => j = calls[c].key
           /\ \E s \in Token : Draws(c, s,
                [subject |-> table[calls[c].key].subject, name |-> table[calls[c].key].name,
                 email |-> calls[c].email, expires |-> calls[c].at + SessionTtl, revoked |-> FALSE,
                 rotated |-> NotRotated, pred |-> NoToken, root |-> s, code |-> calls[c].key])
<1>. USE DEF RowsOK
<1>1. PICK t : t = calls[c].key
  OBVIOUS
<1>2. calls[c] # Nothing /\ calls[c].op = "pair" /\ calls[c].todo = {} /\ calls[c].pc = "openSession"
      /\ t \in Code \cap issued /\ calls[c].email \in Email /\ t \in Digest
      /\ \A j \in Digest : Wrote(c, j) => j = t /\ CodeSpent(c)
  BY <1>1, PlaceOf DEF OpenSession, At, CallOK, PairOK, Digest
<1>3. CodeSpent(c)
  BY <1>1, <1>2 DEF OpenSession, Wrote
<1>4. draft[c][t].subject = table[t].subject /\ draft[c][t].name = table[t].name
  BY <1>1, <1>2, <1>3, SpentRow
<1>5. PICK s \in Token :
        /\ Fresh(s)
        /\ Insert(c, s,
              [subject |-> table[t].subject, name |-> table[t].name,
               email |-> calls[c].email, expires |-> calls[c].at + SessionTtl, revoked |-> FALSE,
               rotated |-> NotRotated, pred |-> NoToken, root |-> s, code |-> t], "commit")
  BY <1>1, <1>4 DEF OpenSession
<1>6. PICK row : row = [subject |-> table[t].subject, name |-> table[t].name,
               email |-> calls[c].email, expires |-> calls[c].at + SessionTtl, revoked |-> FALSE,
               rotated |-> NotRotated, pred |-> NoToken, root |-> s, code |-> t]
  OBVIOUS
<1>7. Insert(c, s, row, "commit") /\ s \in Digest /\ "commit" \in Place
  BY <1>5, <1>6 DEF Digest, Place
<1>8. Draws(c, s, row) /\ calls'[c].pc = "commit"
  BY <1>2, <1>5, <1>7, InsertIs DEF Draws
<1>. QED  BY <1>1, <1>2, <1>3, <1>6, <1>8

LEMMA OpenSessionKeeps ==
    ASSUME RowsOK, NEW c \in Caller, CallOK(c), OpenSession(c)
    PROVE  calls'[c] \in CallRecord /\ CallOK(c)'
<1>. USE DEF RowsOK
<1>1. PICK k : k = calls[c].key
  OBVIOUS
<1>2. /\ calls[c] # Nothing /\ calls[c].op = "pair" /\ calls'[c].pc = "commit"
      /\ CodeSpent(c) /\ calls[c].email \in Email /\ \A j \in Digest : Wrote(c, j) => j = k
  BY <1>1, OpenSessionIs
<1>3. PICK s \in Token : Draws(c, s,
        [subject |-> table[k].subject, name |-> table[k].name,
         email |-> calls[c].email, expires |-> calls[c].at + SessionTtl, revoked |-> FALSE,
         rotated |-> NotRotated, pred |-> NoToken, root |-> s, code |-> k])
  BY <1>1, OpenSessionIs
<1>4. /\ calls'[c].key = k /\ calls'[c].at = calls[c].at /\ calls'[c].email = calls[c].email
      /\ calls'[c].op = "pair" /\ calls'[c].todo = {} /\ calls'[c] \in CallRecord
      /\ table' = table /\ issued' = issued /\ holder' = holder /\ clock' = clock
      /\ s \notin issued
  BY <1>1, <1>2, <1>3 DEF Draws, Continues, Fresh
<1>5. k \in Code \cap issued /\ k \in Digest /\ k # s /\ calls[c].at <= clock
  BY <1>1, <1>2, <1>4 DEF CallOK, PairOK, AnyOK, Digest
<1>6. draft'[c][k] = draft[c][k]
  BY <1>3, <1>5 DEF Draws
<1>7. CodeSpent(c)'
  BY <1>1, <1>2, <1>4, <1>6 DEF CodeSpent, Over
<1>8. Opens(c, s)'
  BY <1>3, <1>4 DEF Opens, Draws
<1>9. \A j \in Digest \ {k, s} : ~Wrote(c, j)'
  BY <1>2, <1>3 DEF Draws, Wrote
<1>10. AnyOK(c)'
  BY <1>4, <1>5 DEF AnyOK, Todo
<1>11. PairOK(c)'
  <2>1. \E t \in Token : CodeSpent(c)' /\ Opens(c, t)' /\ \A j \in Digest \ {k, t} : ~Wrote(c, j)'
    BY <1>7, <1>8, <1>9
  <2>. QED  BY <1>2, <1>4, <1>5, <2>1 DEF PairOK, Todo
<1>. QED  BY <1>2, <1>4, <1>10, <1>11 DEF CallOK

LEMMA InsertSuccessorIs ==
    ASSUME RowsOK, NEW c \in Caller, CallOK(c), InsertSuccessor(c)
    PROVE  /\ calls[c] # Nothing /\ calls[c].op = "refresh" /\ ChainOK(c) /\ calls'[c].pc = "markRotated"
           /\ calls[c].pc = "insertSuccessor"
           /\ \/ First(c) /\ Clear(c)
              \/ Again(c) /\ EndsOnly(c) /\ ChainGoes(c)
           /\ \E s \in Token : Draws(c, s,
                [table[calls[c].key] EXCEPT !.pred = calls[c].key, !.root = calls[c].root,
                                            !.rotated = NotRotated, !.revoked = FALSE])
<1>. USE DEF RowsOK
<1>1. PICK t, root : t = calls[c].key /\ root = calls[c].root
  OBVIOUS
<1>2. calls[c] # Nothing /\ calls[c].op = "refresh" /\ calls[c].todo = {} /\ calls[c].pc = "insertSuccessor"
      /\ ChainOK(c) /\ t \in Token /\ t \in Digest
  BY <1>1, PlaceOf DEF InsertSuccessor, At, CallOK, ChainOK, Digest
<1>3. \/ First(c) /\ Clear(c)
      \/ Again(c) /\ EndsOnly(c) /\ ChainGoes(c)
  BY <1>2 DEF ChainOK, RefreshOK
<1>4. View(c)[t] = table[t]
  BY <1>1, <1>2, <1>3, ViewIs DEF Clear, Again, Reached, Wrote
<1>5. PICK s \in Token :
        /\ Fresh(s)
        /\ Insert(c, s, [View(c)[t] EXCEPT !.pred = t, !.root = root,
                                          !.rotated = NotRotated, !.revoked = FALSE], "markRotated")
  BY <1>1 DEF InsertSuccessor
<1>6. PICK row : row = [table[t] EXCEPT !.pred = t, !.root = root,
                                        !.rotated = NotRotated, !.revoked = FALSE]
  OBVIOUS
<1>7. Insert(c, s, row, "markRotated") /\ s \in Digest /\ "markRotated" \in Place
  BY <1>4, <1>5, <1>6 DEF Digest, Place
<1>8. Draws(c, s, row) /\ calls'[c].pc = "markRotated"
  BY <1>2, <1>5, <1>7, InsertIs DEF Draws
<1>. QED  BY <1>1, <1>2, <1>3, <1>6, <1>8

LEMMA InsertSuccessorKeeps ==
    ASSUME RowsOK, NEW c \in Caller, CallOK(c), InsertSuccessor(c)
    PROVE  calls'[c] \in CallRecord /\ CallOK(c)'
<1>. USE DEF RowsOK
<1>1. PICK t, root : t = calls[c].key /\ root = calls[c].root
  OBVIOUS
<1>2. /\ calls[c] # Nothing /\ calls[c].op = "refresh" /\ ChainOK(c) /\ calls'[c].pc = "markRotated"
      /\ \/ First(c) /\ Clear(c)
         \/ Again(c) /\ EndsOnly(c) /\ ChainGoes(c)
  BY InsertSuccessorIs
<1>3. PICK s \in Token : Draws(c, s,
        [table[t] EXCEPT !.pred = t, !.root = root, !.rotated = NotRotated, !.revoked = FALSE])
  BY <1>1, InsertSuccessorIs
<1>4. /\ calls'[c].key = t /\ calls'[c].root = root /\ calls'[c].at = calls[c].at
      /\ calls'[c].keep = calls[c].keep
      /\ calls'[c].op = "refresh" /\ calls'[c].todo = {} /\ calls[c].todo = {} /\ calls'[c] \in CallRecord
      /\ table' = table /\ issued' = issued /\ holder' = holder /\ clock' = clock
      /\ s \notin issued
  BY <1>1, <1>2, <1>3 DEF Draws, Continues, Fresh
<1>5. t \in Token \cap issued /\ t \in Digest /\ t # s /\ calls[c].at <= clock /\ RefreshOK(c)
  BY <1>1, <1>2, <1>4 DEF CallOK, ChainOK, AnyOK, Digest
<1>6. \A j \in Digest : j # s => draft'[c][j] = draft[c][j]
  BY <1>3 DEF Draws
<1>7. Succeeds(c, s)'
  BY <1>3, <1>4 DEF Succeeds, Draws
<1>8. AnyOK(c)'
  BY <1>4, <1>5 DEF AnyOK, Todo
<1>9. (table[calls[c].key] # NoRow /\ calls[c].at < table[calls[c].key].expires
          => table[calls[c].root] # NoRow)'
  BY <1>1, <1>4, <1>5 DEF RefreshOK
<1>10. CASE First(c) /\ Clear(c)
  <2>1. First(c)'
    BY <1>1, <1>4, <1>10 DEF First, Going
  <2>2. \A k \in Digest \ {s} : ~Wrote(c, k)'
    BY <1>6, <1>10 DEF Wrote, Clear
  <2>3. RefreshOK(c)'
    BY <1>2, <1>4, <1>7, <1>9, <2>1, <2>2 DEF RefreshOK, Todo
  <2>. QED  BY <1>2, <1>4, <1>8, <2>3, <1>1 DEF CallOK, ChainOK
<1>11. CASE Again(c) /\ EndsOnly(c) /\ ChainGoes(c)
  <2>1. ~Wrote(c, t)' /\ ~Wrote(c, t)
    BY <1>1, <1>5, <1>6, <1>11 DEF Again, Reached, Wrote
  <2>2. Again(c)'
    BY <1>1, <1>4, <1>11, <2>1 DEF Again, Going, IsLate, Reached, Todo
  <2>3. table[s] = NoRow
    BY <1>4 DEF RowsAreIssued, Digest
  <2>4. ChainGoes(c)'
    BY <1>1, <1>4, <1>6, <1>11, <2>3 DEF ChainGoes, Gone_, Reached, Wrote, Todo, InChain, Digest
  <2>5. EndsBut(c, s)'
    <3>1. \A k \in Digest \ {s} : Ended(c, k)'
      BY <1>1, <1>4, <1>6, <1>11 DEF EndsOnly, Ended, Over, Wrote, InChain
    <3>. QED  BY <1>4, <3>1 DEF EndsBut, TakesChain, Todo
  <2>6. RefreshOK(c)'
    BY <1>2, <1>4, <1>7, <1>9, <2>2, <2>4, <2>5 DEF RefreshOK, Todo
  <2>. QED  BY <1>2, <1>4, <1>8, <2>6, <1>1 DEF CallOK, ChainOK
<1>. QED  BY <1>2, <1>10, <1>11

LEMMA CommitIs ==
    ASSUME TypeOK, NEW c \in Caller, NEW call, CommitThen(c, call)
    PROVE  /\ table' = View(c) /\ issued' = issued \cup Present(c) /\ UNCHANGED clock
           /\ \A k \in Digest : draft'[c][k] = Untouched
           /\ \A k \in Digest : holder'[k] = IF holder[k] = c THEN Nobody ELSE holder[k]
           /\ calls'[c] = call
           /\ \A d \in Caller \ {c} : draft'[d] = draft[d] /\ calls'[d] = calls[d]
BY DEF CommitThen, Clean, Released, TypeOK

LEMMA CommitsKeep ==
    ASSUME RowsOK, NEW c \in Caller, CallOK(c), Commits(c)
    PROVE  calls'[c] \in CallRecord \cup {Nothing} /\ CallOK(c)'
<1>. USE DEF RowsOK
<1>1. CASE Commit(c)
  <2>1. calls'[c] = Nothing
    BY <1>1 DEF Commit, CommitThen, TypeOK
  <2>. QED  BY <2>1 DEF CallOK
<1>2. CASE PurgedCodes(c) \/ PurgedSessions(c)
  <2>1. PICK next : next = IF PurgedCodes(c) THEN "purgeSessions" ELSE "readCode"
    OBVIOUS
  <2>2. PICK call : call = [calls[c] EXCEPT !.pc = next]
    OBVIOUS
  <2>3. CommitThen(c, call)
    BY <1>2, <2>1, <2>2 DEF PurgedCodes, PurgedSessions
  <2>4. calls[c] # Nothing /\ calls[c].op = "pair" /\ calls[c].todo = {} /\ calls[c] \in CallRecord
        /\ calls[c].key \in Code \cap issued /\ calls[c].at <= clock
    BY <1>2, PlaceOf DEF PurgedCodes, PurgedSessions, At, CallOK, PairOK, AnyOK
  <2>5. Continues(call, calls[c]) /\ call.pc = next /\ call.todo = {}
    BY <2>1, <2>2, <2>4, GoesTo DEF Place
  <2>6. calls'[c] = call /\ Clear(c)' /\ issued \subseteq issued' /\ clock' = clock
    BY <2>3, CommitIs DEF Clear
  <2>7. AnyOK(c)' /\ PairOK(c)'
    BY <2>1, <2>4, <2>5, <2>6 DEF AnyOK, PairOK, Todo, Continues
  <2>. QED  BY <2>4, <2>5, <2>6, <2>7 DEF CallOK, Continues
<1>. QED  BY <1>1, <1>2 DEF Commits

-----------------------------------------------------------------------------
(* What the steps of the others leave of what a call has done.              *)

\* A token keeps its person, its expiry, its place in the chain and its end.
SameToken(old, new) ==
    /\ new \in SessionRow
    /\ new.subject = old.subject /\ new.expires = old.expires
    /\ new.pred = old.pred /\ new.root = old.root /\ new.code = old.code
    /\ old.revoked => new.revoked

SameCode(old, new) ==
    /\ new \in CodeRow
    /\ new.subject = old.subject /\ new.expires = old.expires
    /\ old.redeemed => new.redeemed

\* A token that a transaction inserts: the head of the chain that a code it holds
\* bought, or the next token of a chain whose head it holds.
NewHead(d, t, row) ==
    row \in SessionRow /\ row.root = t /\ row.pred = NoToken /\ ~row.revoked /\ holder[row.code] = d

NewLink(d, t, row) ==
    /\ row \in SessionRow /\ ~row.revoked
    /\ row.pred \in Token /\ holder[row.pred] = d /\ table[row.pred].root = row.root
    /\ holder[row.root] = d /\ table[row.root].root = row.root
    /\ row.subject = table[row.root].subject
    /\ row.expires = table[row.root].expires
    /\ row.code = table[row.root].code

\* Nobody takes the head of a chain from a refresh and leaves it its token.
RootStays(c) ==
    LET t == calls[c].key
    IN calls[c] # Nothing /\ calls[c].op = "refresh" /\ table'[t] # NoRow
          /\ calls[c].at < table'[t].expires /\ table[calls[c].root] # NoRow
          => table'[calls[c].root] # NoRow

Env(c) ==
    /\ calls'[c] = calls[c] /\ draft'[c] = draft[c]
    /\ clock' \in Nat /\ clock <= clock'
    /\ issued \subseteq issued'
    /\ \A k \in Digest \ issued : Wrote(c, k) => k \notin issued'
    /\ \A k \in Digest : holder[k] = c => holder'[k] = c /\ table'[k] = table[k]
    /\ \A k \in issued : table[k] = NoRow => table'[k] = NoRow
    /\ \A t \in Token \cap issued : table'[t] # NoRow => SameToken(table[t], table'[t])
    /\ \A k \in Code \cap issued : table'[k] # NoRow => SameCode(table[k], table'[k])
    /\ \A t \in Token \ issued : table'[t] # NoRow =>
          \E d \in Caller \ {c} : NewHead(d, t, table'[t]) \/ NewLink(d, t, table'[t])
    /\ RootStays(c)

LEMMA EnvStays ==
    ASSUME RowsOK, NEW c \in Caller, Env(c), calls[c] # Nothing
    PROVE  /\ AnyOK(c) => AnyOK(c)'
           /\ Todo(c)' = Todo(c) /\ (Clear(c)' <=> Clear(c))
           /\ \A k \in Digest : (Wrote(c, k)' <=> Wrote(c, k)) /\ (Reached(c, k)' <=> Reached(c, k))
           /\ \A k \in Digest : (holder[k] = c => table'[k] = table[k] /\ k \in issued)
           /\ \A k \in Digest : \A row : Over(c, k, row) => Over(c, k, row)'
           /\ \A k \in issued : table'[k] # NoRow => table[k] # NoRow
           /\ \A k \in issued : (Has(c, k) => Has(c, k)') /\ (Takes(c, k) => Takes(c, k)')
           /\ \A u \in Token \cap issued : table'[u] # NoRow /\ Gone_(c, u) => Gone_(c, u)'
           /\ \A u \in Token \cap issued : InChain(c, u)' => InChain(c, u)
<1>. USE DEF RowsOK
<1>1. /\ Todo(c)' = Todo(c) /\ (Clear(c)' <=> Clear(c))
      /\ \A k \in Digest : (Wrote(c, k)' <=> Wrote(c, k)) /\ (Reached(c, k)' <=> Reached(c, k))
      /\ \A k \in Digest : \A row : Over(c, k, row) => Over(c, k, row)'
  BY DEF Env, Todo, Clear, Wrote, Reached, Over
<1>2. \A k \in Digest : (holder[k] = c => table'[k] = table[k] /\ k \in issued)
  BY NullAssumption DEF Env, HeldAreThere, RowsAreIssued
<1>3. \A k \in issued : table'[k] # NoRow => table[k] # NoRow
  BY DEF Env
<1>4. \A k \in issued : (Has(c, k) => Has(c, k)') /\ (Takes(c, k) => Takes(c, k)')
  BY <1>1 DEF Env, Has, Takes, TypeOK
<1>5. \A u \in Token \cap issued : table'[u] # NoRow /\ Gone_(c, u) => Gone_(c, u)'
  BY <1>1 DEF Gone_, Env, SameToken, Digest
<1>6. \A u \in Token \cap issued : InChain(c, u)' => InChain(c, u)
  BY <1>3 DEF InChain, Env, SameToken
<1>7. AnyOK(c) => AnyOK(c)'
  <2>1. calls[c].at \in Int /\ clock \in Int
    BY DEF TypeOK, CallRecord
  <2>. QED  BY <1>1, <2>1 DEF AnyOK, Env, TypeOK
<1>. QED  BY <1>1, <1>2, <1>3, <1>4, <1>5, <1>6, <1>7

LEMMA PairEnvKeeps ==
    ASSUME RowsOK, NEW c \in Caller, calls[c] # Nothing, AnyOK(c), PairOK(c), Env(c)
    PROVE  PairOK(c)'
<1>. USE DEF RowsOK
<1>1. PICK k, call : k = calls[c].key /\ call = calls[c]
  OBVIOUS
<1>2. calls'[c] = call /\ k \in Code \cap issued /\ k \in Code \cap issued' /\ k \in Digest
      /\ Todo(c)' = Todo(c) /\ Todo(c) \subseteq issued /\ issued \subseteq Digest
  BY <1>1, EnvStays DEF Env, PairOK, AnyOK, Digest, TypeOK
<1>3. ASSUME NEW kind, kind \in {Code, Token}, PurgeOK(c, kind)
      PROVE  PurgeOK(c, kind)'
  <2>1. ASSUME NEW j \in Digest, Wrote(c, j)'  PROVE j \in kind /\ Deleted(c, j)'
    <3>1. j \in kind /\ Deleted(c, j)
      BY <1>3, <2>1, EnvStays DEF PurgeOK
    <3>2. table'[j] = table[j] /\ Over(c, j, NoRow)'
      BY <3>1, EnvStays DEF Deleted, Over
    <3>. QED  BY <1>1, <1>2, <3>1, <3>2 DEF Deleted
  <2>2. ASSUME NEW j \in Todo(c), table'[j] # NoRow  PROVE table'[j].expires <= call.at
    <3>1. table[j] # NoRow /\ table[j].expires <= call.at /\ j \in kind /\ j \in issued
      BY <1>1, <1>2, <1>3, <2>2, EnvStays DEF PurgeOK
    <3>. QED  BY <1>3, <2>2, <3>1 DEF Env, SameToken, SameCode
  <2>. QED  BY <1>1, <1>2, <1>3, <2>1, <2>2 DEF PurgeOK, Doing
<1>4. CodeSpent(c) => CodeSpent(c)' /\ table'[k] = table[k]
  <2>. SUFFICES ASSUME CodeSpent(c)  PROVE CodeSpent(c)' /\ table'[k] = table[k]
    OBVIOUS
  <2>1. PICK row : row = [table[k] EXCEPT !.redeemed = TRUE]
    OBVIOUS
  <2>2. Over(c, k, row)' /\ table'[k] = table[k]
    BY <1>1, <1>2, <2>1, EnvStays DEF CodeSpent, Over
  <2>. QED  BY <1>1, <1>2, <2>1, <2>2 DEF CodeSpent, Over
<1>5. CASE call.pc = "codesPurged" /\ PurgeOK(c, Code)
  <2>1. PurgeOK(c, Code)'
    BY <1>3, <1>5
  <2>. QED  BY <1>1, <1>2, <1>5, <2>1 DEF PairOK
<1>6. CASE call.pc = "sessionsPurged" /\ PurgeOK(c, Token) /\ HeadsGoToo(c)
  <2>1. PurgeOK(c, Token)'
    BY <1>3, <1>6
  <2>2. HeadsGoToo(c)'
    <3>. SUFFICES ASSUME NEW u \in Token, table'[u] # NoRow, Reached(c, u), NEW r, r = table'[u].root,
                         table'[r] # NoRow
                  PROVE  Reached(c, r)'
      BY EnvStays DEF HeadsGoToo, Digest, Reached, Wrote, Todo
    <3>1. u \in issued
      <4>1. CASE u \in Todo(c)
        BY <1>2, <4>1
      <4>2. CASE Wrote(c, u)
        BY <1>6, <4>2, EnvStays DEF PurgeOK, Deleted, Over, Digest
      <4>. QED  BY <4>1, <4>2 DEF Reached
    <3>2. table[u] # NoRow /\ table[u].root = r
      BY <3>1, EnvStays DEF Env, SameToken
    <3>3. r \in issued /\ r \in Token
      BY <3>2 DEF ChainsHold, TypeOK, SessionRow
    <3>4. Reached(c, r)
      BY <1>6, <3>2, <3>3, EnvStays DEF HeadsGoToo
    <3>. QED  BY <3>3, <3>4, EnvStays DEF Digest
  <2>. QED  BY <1>1, <1>2, <1>6, <2>1, <2>2 DEF PairOK
<1>7. CASE call.pc \in {"purgeSessions", "readCode", "spendCode"}
  BY <1>1, <1>2, <1>7, EnvStays DEF PairOK
<1>8. CASE call.pc = "openSession"
  BY <1>1, <1>2, <1>4, <1>8, EnvStays DEF PairOK, Doing
<1>9. CASE call.pc = "commit"
  <2>1. Todo(c) = {} /\ (Clear(c) \/ \E t \in Token :
              CodeSpent(c) /\ Opens(c, t) /\ call.email \in Email /\ \A j \in Digest \ {k, t} : ~Wrote(c, j))
    BY <1>1, <1>9 DEF PairOK
  <2>2. CASE Clear(c)
    BY <1>1, <1>2, <1>9, <2>1, <2>2, EnvStays DEF PairOK
  <2>3. ASSUME NEW t \in Token, CodeSpent(c), Opens(c, t), call.email \in Email, \A j \in Digest \ {k, t} : ~Wrote(c, j)
        PROVE  PairOK(c)'
    <3>1. Wrote(c, t) /\ t \in Digest
      <4>1. PICK row : row = draft[c][t]
        OBVIOUS
      <4>2. table[k] \in CodeRow
        BY <1>1, <1>2, <2>3, SpentRow
      <4>3. call.at + SessionTtl \in Nat
        BY <1>1, ClockAssumption, TtlAssumption DEF TypeOK, CallRecord
      <4>4. row = [subject |-> table[k].subject, name |-> table[k].name, email |-> call.email,
                   expires |-> call.at + SessionTtl, revoked |-> FALSE, rotated |-> NotRotated,
                   pred |-> NoToken, root |-> t, code |-> k]
        BY <1>1, <2>3, <4>1 DEF Opens
      <4>5. row \in SessionRow
        BY <1>2, <2>3, <4>2, <4>3, <4>4 DEF SessionRow, CodeRow
      <4>. QED  BY <4>1, <4>5, NullAssumption DEF Wrote, Digest
    <3>2. t \notin issued'
      BY <2>3, <3>1 DEF Opens, Env
    <3>3. Opens(c, t)'
      BY <1>1, <1>2, <1>4, <2>3, <3>2 DEF Opens, Env
    <3>4. \A j \in Digest \ {k, t} : ~Wrote(c, j)'
      BY <2>3, EnvStays
    <3>. QED  BY <1>1, <1>2, <1>4, <1>9, <2>1, <2>3, <3>3, <3>4 DEF PairOK
  <2>. QED  BY <2>1, <2>2, <2>3
<1>. QED  BY <1>1, <1>5, <1>6, <1>7, <1>8, <1>9 DEF PairOK

\* The row of a chain that somebody else inserts is not of a chain whose head this call holds.
LEMMA NewToken ==
    ASSUME RowsOK, NEW c \in Caller, Env(c), calls[c] # Nothing, NEW t \in Token, t \notin issued,
           table'[t] # NoRow
    PROVE  \/ table'[t].root = t /\ holder[table'[t].code] # c /\ table'[t].code \in Code
              /\ table[table'[t].code] # NoRow
           \/ \E r \in Token :
                 /\ table'[t].root = r /\ table[r] # NoRow /\ table[r].root = r /\ holder[r] # c
                 /\ r \in issued
                 /\ table'[t].subject = table[r].subject /\ table'[t].code = table[r].code
<1>. USE DEF RowsOK
<1>1. PICK d \in Caller \ {c} : NewHead(d, t, table'[t]) \/ NewLink(d, t, table'[t])
  BY DEF Env
<1>2. PICK row : row = table'[t]
  OBVIOUS
<1>3. row \in SessionRow /\ row.root \in Token /\ row.code \in Code
  BY <1>1, <1>2 DEF NewHead, NewLink, SessionRow
<1>4. CASE NewHead(d, t, row)
  <2>1. table[row.code] # NoRow /\ row.root = t /\ holder[row.code] # c
    BY <1>1, <1>3, <1>4, HeldRow DEF NewHead, Digest
  <2>. QED  BY <1>2, <1>3, <2>1
<1>5. CASE NewLink(d, t, row)
  <2>1. PICK r : r = row.root
    OBVIOUS
  <2>2. r \in Token /\ holder[r] = d /\ table[r].root = r /\ row.subject = table[r].subject
        /\ row.code = table[r].code
    BY <1>3, <1>5, <2>1 DEF NewLink
  <2>3. table[r] # NoRow /\ r \in issued /\ holder[r] # c
    BY <1>1, <2>2, HeldRow DEF Digest, RowsAreIssued
  <2>. QED  BY <1>2, <2>1, <2>2, <2>3
<1>. QED  BY <1>1, <1>2, <1>4, <1>5

LEMMA ChainEnv ==
    ASSUME RowsOK, NEW c \in Caller, calls[c] # Nothing, Env(c),
           calls[c].root \in Token \cap issued, Has(c, calls[c].root)
    PROVE  /\ \A u \in Token : InChain(c, u)' => InChain(c, u) /\ u \in issued
           /\ LinksGo(c) => LinksGo(c)'
           /\ ChainGoes(c) => ChainGoes(c)'
<1>. USE DEF RowsOK
<1>1. PICK root : root = calls[c].root
  OBVIOUS
<1>2. calls'[c] = calls[c] /\ root \in Token \cap issued /\ (table[root] = NoRow \/ holder[root] = c)
  BY <1>1 DEF Env, Has
<1>3. ASSUME NEW u \in Token, InChain(c, u)'  PROVE InChain(c, u) /\ u \in issued
  <2>1. table'[u] # NoRow /\ table'[u].root = root
    BY <1>1, <1>2, <1>3 DEF InChain
  <2>2. u \in issued
    <3>. SUFFICES ASSUME u \notin issued  PROVE FALSE
      OBVIOUS
    <3>. QED  BY <1>2, <2>1, NewToken
  <2>. QED  BY <1>3, <2>2, EnvStays
<1>4. \A u \in Token : InChain(c, u)' /\ Gone_(c, u) => Gone_(c, u)'
  BY <1>3, EnvStays DEF InChain
<1>. QED  BY <1>2, <1>3, <1>4 DEF LinksGo, ChainGoes

LEMMA EndsEnv ==
    ASSUME RowsOK, NEW c \in Caller, calls[c] # Nothing, AnyOK(c), Env(c)
    PROVE  /\ \A k \in Digest : Ended(c, k) => Ended(c, k)'
           /\ TakesChain(c) => TakesChain(c)'
           /\ EndsOnly(c) => EndsOnly(c)'
<1>. USE DEF RowsOK
<1>1. calls'[c] = calls[c] /\ Todo(c)' = Todo(c) /\ Todo(c) \subseteq issued
  BY EnvStays DEF Env, AnyOK
<1>2. ASSUME NEW k \in Digest, Ended(c, k)  PROVE Ended(c, k)'
  <2>. SUFFICES ASSUME Wrote(c, k)
                PROVE  InChain(c, k)' /\ Over(c, k, [table[k] EXCEPT !.revoked = TRUE])'
    BY EnvStays DEF Ended
  <2>1. PICK row : row = [table[k] EXCEPT !.revoked = TRUE]
    OBVIOUS
  <2>2. InChain(c, k) /\ Over(c, k, row)
    BY <1>2, <2>1 DEF Ended
  <2>3. table'[k] = table[k] /\ Over(c, k, row)'
    BY <2>2, EnvStays DEF Over
  <2>. QED  BY <1>1, <2>1, <2>2, <2>3 DEF InChain, Over
<1>3. TakesChain(c) => TakesChain(c)'
  <2>. SUFFICES ASSUME TakesChain(c), NEW k \in Todo(c), table'[k] # NoRow
                PROVE  k \in Token /\ InChain(c, k)'
    BY <1>1 DEF TakesChain
  <2>1. k \in Token \cap issued /\ table[k] # NoRow /\ table[k].root = calls[c].root
    BY <1>1, EnvStays DEF TakesChain, InChain
  <2>2. table'[k].root = table[k].root
    BY <2>1 DEF Env, SameToken
  <2>. QED  BY <1>1, <2>1, <2>2 DEF InChain
<1>. QED  BY <1>1, <1>2, <1>3 DEF EndsOnly, Doing

LEMMA LogoutEnvKeeps ==
    ASSUME RowsOK, NEW c \in Caller, calls[c] # Nothing, AnyOK(c), ChainOK(c), calls[c].op = "logout", Env(c)
    PROVE  ChainOK(c)'
<1>. USE DEF RowsOK
<1>1. PICK t, root : t = calls[c].key /\ root = calls[c].root
  OBVIOUS
<1>2. /\ calls'[c] = calls[c] /\ t \in Token \cap issued /\ root \in Token \cap issued
      /\ issued \subseteq issued'
      /\ table[t] # NoRow => table[t].root = root
      /\ table[root] # NoRow => table[root].root = root
      /\ LogoutOK(c)
  BY <1>1 DEF ChainOK, Env
<1>3. /\ table'[t] # NoRow => table'[t].root = root
      /\ table'[root] # NoRow => table'[root].root = root
  BY <1>2, EnvStays DEF Env, SameToken
<1>4. /\ Takes(c, t) => Takes(c, t)'
      /\ Takes(c, root) => Takes(c, root)'
      /\ Has(c, t) => Has(c, t)'
      /\ Has(c, root) => Has(c, root)'
      /\ (Clear(c)' <=> Clear(c)) /\ Todo(c)' = Todo(c)
  BY <1>2, EnvStays
<1>5. CASE calls[c].pc \in {"holdChain", "revokeToken"}
  <2>1. LogoutOK(c)'
    BY <1>1, <1>2, <1>4, <1>5 DEF LogoutOK, Doing
  <2>. QED  BY <1>1, <1>2, <1>3, <2>1 DEF ChainOK
<1>6. CASE calls[c].pc \notin {"holdChain", "revokeToken"}
  <2>1. /\ calls[c].pc \in {"revokeChain", "sweepHead", "commit"} /\ calls[c].keep = NoToken
        /\ Has(c, t) /\ Has(c, root) /\ EndsOnly(c)
        /\ calls[c].pc = "sweepHead" => LinksGo(c)
        /\ calls[c].pc = "commit" => ChainGoes(c)
    BY <1>1, <1>2, <1>6 DEF LogoutOK
  <2>2. /\ EndsOnly(c)' /\ (LinksGo(c) => LinksGo(c)') /\ (ChainGoes(c) => ChainGoes(c)')
    BY <1>1, <1>2, <2>1, EndsEnv, ChainEnv
  <2>3. LogoutOK(c)'
    BY <1>1, <1>2, <1>4, <2>1, <2>2 DEF LogoutOK
  <2>. QED  BY <1>1, <1>2, <1>3, <2>3 DEF ChainOK
<1>. QED  BY <1>5, <1>6

\* A refresh that decided holds its token and the head of the chain: nobody changes them.
LEMMA GoingEnv ==
    ASSUME RowsOK, NEW c \in Caller, calls[c] # Nothing, AnyOK(c), Env(c), Going(c),
           calls[c].key \in Token \cap issued, calls[c].root \in Token \cap issued
    PROVE  /\ Going(c)' /\ Has(c, calls[c].root)
           /\ table'[calls[c].key] = table[calls[c].key] /\ table[calls[c].key] # NoRow
           /\ Ending(c) => Ending(c)'
           /\ Again(c) => Again(c)'
           /\ First(c) => First(c)'
           /\ Marked(c) => Marked(c)'
           /\ RetiresPred(c) => RetiresPred(c)'
           /\ \A s : Succeeds(c, s) => Succeeds(c, s)'
<1>. USE DEF RowsOK
<1>1. PICK t, root : t = calls[c].key /\ root = calls[c].root
  OBVIOUS
<1>2. /\ calls'[c] = calls[c] /\ t \in Token \cap issued /\ t \in Digest /\ root \in Digest
      /\ holder[t] = c /\ holder[root] = c /\ table'[t] = table[t] /\ table[t] # NoRow
      /\ table[t] \in SessionRow
      /\ calls[c].at < table[t].expires /\ Todo(c)' = Todo(c)
  BY <1>1, HeldRow, EnvStays DEF Env, Going, Digest
<1>3. Going(c)' /\ Has(c, calls[c].root)
  BY <1>1, <1>2 DEF Going, Env, Has
<1>4. (IsLate(c)' <=> IsLate(c)) /\ (Reached(c, t)' <=> Reached(c, t))
  BY <1>1, <1>2, EnvStays DEF IsLate
<1>5. Marked(c) => Marked(c)'
  <2>1. PICK row : row = [table[t] EXCEPT !.rotated = calls[c].at]
    OBVIOUS
  <2>2. Over(c, t, row) => Over(c, t, row)'
    BY <1>2, EnvStays
  <2>. QED  BY <1>1, <1>2, <2>1, <2>2 DEF Marked, Over
<1>6. RetiresPred(c) => RetiresPred(c)'
  <2>1. PICK p : p = table[t].pred
    OBVIOUS
  <2>2. p \in Token => p \in issued /\ p # NoToken
    BY <1>2, <2>1, NullAssumption DEF ChainsHold, Digest
  <2>3. p \in Token /\ table'[p] # NoRow => table[p] # NoRow /\ (Gone_(c, p) => Gone_(c, p)')
    BY <2>2, EnvStays
  <2>. QED  BY <1>1, <1>2, <2>1, <2>3 DEF RetiresPred
<1>7. ASSUME NEW s, Succeeds(c, s)  PROVE Succeeds(c, s)'
  <2>1. PICK row : row = draft[c][s]
    OBVIOUS
  <2>2. row = [table[t] EXCEPT !.pred = t, !.root = root, !.rotated = NotRotated, !.revoked = FALSE]
        /\ s \in Token /\ s \notin issued /\ s \in Digest
    BY <1>1, <1>7, <2>1 DEF Succeeds, Digest
  <2>3. row \in SessionRow
    BY <1>1, <1>2, <2>2 DEF SessionRow
  <2>4. Wrote(c, s)
    BY <2>1, <2>3, NullAssumption DEF Wrote
  <2>. QED  BY <1>1, <1>2, <2>1, <2>2, <2>4 DEF Succeeds, Env
<1>. QED  BY <1>1, <1>2, <1>3, <1>4, <1>5, <1>6, <1>7 DEF Ending, Again, First

LEMMA RefreshEnvKeeps ==
    ASSUME RowsOK, NEW c \in Caller, calls[c] # Nothing, AnyOK(c), ChainOK(c), calls[c].op = "refresh", Env(c)
    PROVE  ChainOK(c)'
<1>. USE DEF RowsOK
<1>1. PICK t, root, pc : t = calls[c].key /\ root = calls[c].root /\ pc = calls[c].pc
  OBVIOUS
<1>2. /\ calls'[c] = calls[c] /\ t \in Token \cap issued /\ root \in Token \cap issued
      /\ issued \subseteq issued' /\ t \in Digest /\ root \in Digest
      /\ table[t] # NoRow => table[t].root = root
      /\ table[root] # NoRow => table[root].root = root
      /\ RefreshOK(c) /\ Todo(c)' = Todo(c) /\ (Clear(c)' <=> Clear(c))
  BY <1>1, EnvStays DEF ChainOK, Env, Digest
<1>3. /\ table'[t] # NoRow => table'[t].root = root
      /\ table'[root] # NoRow => table'[root].root = root
  BY <1>2, EnvStays DEF Env, SameToken
<1>4. (table[calls[c].key] # NoRow /\ calls[c].at < table[calls[c].key].expires
          => table[calls[c].root] # NoRow)'
  <2>. SUFFICES ASSUME table'[t] # NoRow, calls[c].at < table'[t].expires  PROVE table'[root] # NoRow
    BY <1>1, <1>2
  <2>1. table[t] # NoRow /\ table'[t].expires = table[t].expires
    BY <1>2, EnvStays DEF Env, SameToken
  <2>2. table[root] # NoRow
    BY <1>1, <1>2, <2>1 DEF RefreshOK
  <2>. QED  BY <1>1, <2>2 DEF Env, RootStays
<1>5. SUFFICES RefreshOK(c)'
  BY <1>1, <1>2, <1>3 DEF ChainOK
<1>6. CASE pc = "holdChain" \/ (pc = "commit" /\ Todo(c) = {} /\ Clear(c))
  BY <1>1, <1>2, <1>4, <1>6 DEF RefreshOK
<1>7. CASE pc = "decide"
  <2>1. (Takes(c, t) => Takes(c, t)') /\ (Takes(c, root) => Takes(c, root)')
    BY <1>2, EnvStays
  <2>2. /\ Doing(c, "hold") /\ Clear(c) /\ calls[c].keep = NoToken
        /\ Todo(c) \subseteq {t, root} /\ Takes(c, t) /\ Takes(c, root)
    BY <1>1, <1>2, <1>7 DEF RefreshOK
  <2>. QED  BY <1>1, <1>2, <1>4, <1>7, <2>1, <2>2 DEF RefreshOK, Doing
<1>8. CASE \/ pc = "sweepHead" /\ (Ending(c) \/ Again(c)) /\ EndsOnly(c) /\ LinksGo(c)
           \/ pc = "insertSuccessor" /\ Again(c) /\ EndsOnly(c) /\ ChainGoes(c)
           \/ pc = "commit" /\ Ending(c) /\ EndsOnly(c) /\ ChainGoes(c)
  <2>1. Going(c)
    BY <1>8 DEF Ending, Again
  <2>2. (Ending(c) => Ending(c)') /\ (Again(c) => Again(c)') /\ Has(c, calls[c].root)
    BY <1>1, <1>2, <2>1, GoingEnv
  <2>3. EndsOnly(c)' /\ (LinksGo(c) => LinksGo(c)') /\ (ChainGoes(c) => ChainGoes(c)')
    BY <1>1, <1>2, <1>8, <2>2, EndsEnv, ChainEnv
  <2>. QED  BY <1>1, <1>2, <1>4, <1>8, <2>2, <2>3 DEF RefreshOK
<1>9. CASE pc = "insertSuccessor" /\ First(c) /\ Todo(c) = {} /\ Clear(c)
  <2>1. First(c)'
    BY <1>1, <1>2, <1>9, GoingEnv DEF First
  <2>. QED  BY <1>1, <1>2, <1>4, <1>9, <2>1 DEF RefreshOK
<1>10. CASE /\ pc = "markRotated" /\ Todo(c) = {} /\ First(c)
            /\ \E s \in Token : Succeeds(c, s) /\ \A k \in Digest \ {s} : ~Wrote(c, k)
  <2>1. First(c)' /\ \A s : Succeeds(c, s) => Succeeds(c, s)'
    BY <1>1, <1>2, <1>10, GoingEnv DEF First
  <2>2. \E s \in Token : Succeeds(c, s)' /\ \A k \in Digest \ {s} : ~Wrote(c, k)'
    BY <1>10, <2>1, EnvStays
  <2>. QED  BY <1>1, <1>2, <1>4, <1>10, <2>1, <2>2 DEF RefreshOK
<1>11. CASE /\ pc \in {"markRotated", "retire", "commit"} /\ Todo(c) = {} /\ Again(c) /\ ChainGoes(c)
            /\ \E s \in Token : Succeeds(c, s) /\ EndsBut(c, s)
  <2>1. Again(c)' /\ Has(c, calls[c].root) /\ \A s : Succeeds(c, s) => Succeeds(c, s)'
    BY <1>1, <1>2, <1>11, GoingEnv DEF Again
  <2>2. ChainGoes(c)'
    BY <1>1, <1>2, <1>11, <2>1, ChainEnv
  <2>3. PICK s \in Token : Succeeds(c, s) /\ EndsBut(c, s)
    BY <1>11
  <2>4. EndsBut(c, s)'
    BY <2>3, EndsEnv DEF EndsBut
  <2>5. \E u \in Token : Succeeds(c, u)' /\ EndsBut(c, u)'
    BY <2>1, <2>3, <2>4
  <2>. QED  BY <1>1, <1>2, <1>4, <1>11, <2>1, <2>2, <2>5 DEF RefreshOK
<1>12. CASE /\ pc = "retire" /\ Doing(c, "mark") /\ First(c) /\ Todo(c) \subseteq {t}
            /\ t \in Todo(c) \/ Marked(c)
            /\ \E s \in Token : Succeeds(c, s) /\ \A k \in Digest \ {s, t} : ~Wrote(c, k)
  <2>1. First(c)' /\ (Marked(c) => Marked(c)') /\ \A s : Succeeds(c, s) => Succeeds(c, s)'
    BY <1>1, <1>2, <1>12, GoingEnv DEF First
  <2>2. \E s \in Token : Succeeds(c, s)' /\ \A k \in Digest \ {s, t} : ~Wrote(c, k)'
    BY <1>12, <2>1, EnvStays
  <2>. QED  BY <1>1, <1>2, <1>4, <1>12, <2>1, <2>2 DEF RefreshOK, Doing
<1>13. CASE /\ pc = "commit" /\ Doing(c, "revoke") /\ First(c) /\ Marked(c) /\ RetiresPred(c)
            /\ \E s \in Token :
                  /\ Succeeds(c, s)
                  /\ \A k \in Digest \ {s, t} : Ended(c, k) /\ (Wrote(c, k) => k = table[t].pred)
  <2>1. First(c)' /\ Marked(c)' /\ RetiresPred(c)' /\ table'[t] = table[t]
        /\ \A s : Succeeds(c, s) => Succeeds(c, s)'
    BY <1>1, <1>2, <1>13, GoingEnv DEF First
  <2>2. \E s \in Token :
          /\ Succeeds(c, s)'
          /\ \A k \in Digest \ {s, t} : Ended(c, k)' /\ (Wrote(c, k)' => k = table'[t].pred)
    BY <1>13, <2>1, EnvStays, EndsEnv
  <2>. QED  BY <1>1, <1>2, <1>4, <1>13, <2>1, <2>2 DEF RefreshOK, Doing
<1>14. RefreshOK(c)
  BY <1>2
<1>. QED  BY <1>1, <1>6, <1>7, <1>8, <1>9, <1>10, <1>11, <1>12, <1>13, <1>14 DEF RefreshOK

\* What a call on persons wrote over a row that it holds, and whose the row is.
LEMMA ScopeEnv ==
    ASSUME RowsOK, NEW c \in Caller, calls[c] # Nothing, AnyOK(c), ScopeOK(c), Env(c)
    PROVE  /\ ScopeOK(c)'
           /\ calls[c].chains \subseteq Token \cap issued /\ calls[c].codes \subseteq Code \cap issued
           /\ \A k \in Token \cap issued : Ours(c, k) => Ours(c, k)'
           /\ \A k \in Code \cap issued : Ours(c, k) => Ours(c, k)'
           /\ \A r \in calls[c].chains : (Has(c, r) => Has(c, r)') /\ (Takes(c, r) => Takes(c, r)')
           /\ \A k \in calls[c].codes : (Has(c, k) => Has(c, k)') /\ (Takes(c, k) => Takes(c, k)')
           /\ \A t \in Token : EndsToken(c, t) => EndsToken(c, t)'
           /\ \A k \in Code : SpendsCode(c, k) => SpendsCode(c, k)'
<1>. USE DEF RowsOK
<1>1. calls'[c] = calls[c] /\ issued \subseteq issued'
      /\ calls[c].chains \subseteq Token \cap issued /\ calls[c].codes \subseteq Code \cap issued
      /\ calls[c].who \in Scope
  BY DEF Env, ScopeOK
<1>2. \A k \in Token \cap issued : Ours(c, k) => Ours(c, k)'
  BY <1>1, EnvStays DEF Ours, Env, SameToken
<1>3. \A k \in Code \cap issued : Ours(c, k) => Ours(c, k)'
  BY <1>1, EnvStays DEF Ours, Env, SameCode
<1>4. ASSUME NEW t \in Token, EndsToken(c, t)  PROVE EndsToken(c, t)'
  <2>1. PICK row : row = [table[t] EXCEPT !.revoked = TRUE]
    OBVIOUS
  <2>2. Over(c, t, row) /\ t \in Digest
    BY <1>4, <2>1 DEF EndsToken, Digest
  <2>3. Over(c, t, row)' /\ table'[t] = table[t] /\ t \in issued
    BY <2>2, EnvStays DEF Over
  <2>. QED  BY <1>2, <1>4, <2>1, <2>3 DEF EndsToken, Over
<1>5. ASSUME NEW k \in Code, SpendsCode(c, k)  PROVE SpendsCode(c, k)'
  <2>1. PICK row : row = [table[k] EXCEPT !.redeemed = TRUE]
    OBVIOUS
  <2>2. Over(c, k, row) /\ k \in Digest
    BY <1>5, <2>1 DEF SpendsCode, Digest
  <2>3. Over(c, k, row)' /\ table'[k] = table[k] /\ k \in issued
    BY <2>2, EnvStays DEF Over
  <2>. QED  BY <1>3, <1>5, <2>1, <2>3 DEF SpendsCode, Over
<1>6. /\ \A r \in calls[c].chains : (Has(c, r) => Has(c, r)') /\ (Takes(c, r) => Takes(c, r)')
      /\ \A k \in calls[c].codes : (Has(c, k) => Has(c, k)') /\ (Takes(c, k) => Takes(c, k)')
  BY <1>1, EnvStays
<1>7. ScopeOK(c)'
  BY <1>1 DEF ScopeOK
<1>. QED  BY <1>1, <1>2, <1>3, <1>4, <1>5, <1>6, <1>7

LEMMA EndEnvKeeps ==
    ASSUME RowsOK, NEW c \in Caller, calls[c] # Nothing, AnyOK(c), EndOK(c), Env(c)
    PROVE  EndOK(c)'
<1>. USE DEF RowsOK
<1>1. PICK call, who : call = calls[c] /\ who = calls[c].who
  OBVIOUS
<1>2. /\ calls'[c] = call /\ Todo(c)' = Todo(c) /\ (Clear(c)' <=> Clear(c)) /\ ScopeOK(c)
      /\ Todo(c) \subseteq issued
      /\ \A k \in Digest : (Wrote(c, k)' <=> Wrote(c, k)) /\ (Reached(c, k)' <=> Reached(c, k))
  BY <1>1, EnvStays DEF Env, EndOK, AnyOK
<1>3. /\ ScopeOK(c)'
      /\ call.chains \subseteq Token \cap issued /\ call.codes \subseteq Code \cap issued
      /\ \A k \in Token \cap issued : Ours(c, k) => Ours(c, k)'
      /\ \A k \in Code \cap issued : Ours(c, k) => Ours(c, k)'
      /\ \A r \in call.chains : (Has(c, r) => Has(c, r)') /\ (Takes(c, r) => Takes(c, r)')
      /\ \A t \in Token : EndsToken(c, t) => EndsToken(c, t)'
      /\ \A k \in Code : SpendsCode(c, k) => SpendsCode(c, k)'
  BY <1>1, <1>2, ScopeEnv
<1>4. CASE call.pc = "endSessions"
  BY <1>1, <1>2, <1>3, <1>4 DEF EndOK, Doing
<1>5. CASE call.pc # "endSessions"
  <2>1. /\ call.pc \in {"endCodes", "commit"}
        /\ Doing(c, IF call.pc = "endCodes" THEN "revoke" ELSE "redeem")
        /\ Todo(c) \subseteq (IF call.pc = "endCodes" THEN Token ELSE Code)
        /\ \A j \in Todo(c) : Ours(c, j)
        /\ \A r \in call.chains : Has(c, r)
        /\ \A t \in Token : Wrote(c, t) => EndsToken(c, t)
        /\ \A j \in Code : Wrote(c, j) => call.pc = "commit" /\ SpendsCode(c, j)
        /\ FoundEnd(c)
        /\ HeadsEndToo(c)
        /\ call.pc = "commit" => \A j \in call.codes :
              table[j] # NoRow /\ table[j].subject \in who => Reached(c, j) \/ table[j].redeemed
    BY <1>1, <1>5 DEF EndOK
  <2>2. \A j \in Todo(c) : Ours(c, j)'
    BY <1>2, <1>3, <2>1
  <2>3. FoundEnd(c)'
    <3>. SUFFICES ASSUME NEW t \in Token, table'[t] # NoRow, table'[t].subject \in who,
                         table'[t].root \in call.chains
                  PROVE  Gone_(c, t)'
      BY <1>1, <1>2 DEF FoundEnd
    <3>1. t \in issued
      <4>. SUFFICES ASSUME t \notin issued  PROVE FALSE
        OBVIOUS
      <4>1. table'[t].root # t /\ Has(c, table'[t].root)
        BY <1>3, <2>1
      <4>. QED  BY <1>1, <4>1, NewToken DEF Has
    <3>2. table[t] # NoRow /\ table[t].subject = table'[t].subject /\ table[t].root = table'[t].root
      BY <3>1, <1>1, EnvStays DEF Env, SameToken
    <3>3. Gone_(c, t)
      BY <1>1, <2>1, <3>2 DEF FoundEnd
    <3>. QED  BY <1>1, <3>1, <3>3, EnvStays
  <2>4. HeadsEndToo(c)'
    <3>. SUFFICES ASSUME NEW t \in Token, table'[t] # NoRow, Reached(c, t), NEW r, r = table'[t].root,
                         table'[r] # NoRow
                  PROVE  Reached(c, r)' \/ table'[r].revoked
      BY <1>2 DEF HeadsEndToo, Digest, Reached, Wrote, Todo
    <3>1. t \in issued
      <4>1. CASE t \in Todo(c)
        BY <1>2, <4>1
      <4>2. CASE Wrote(c, t)
        BY <1>1, <2>1, <4>2, EnvStays DEF EndsToken, Over, Digest
      <4>. QED  BY <4>1, <4>2 DEF Reached
    <3>2. table[t] # NoRow /\ table[t].root = r
      BY <1>1, <3>1, EnvStays DEF Env, SameToken
    <3>3. r \in issued /\ r \in Token /\ r \in Digest
      <4>1. table[t] \in SessionRow
        BY <3>2 DEF TypeOK
      <4>2. table[t].root \in issued
        BY <3>2 DEF ChainsHold
      <4>. QED  BY <3>2, <4>1, <4>2 DEF SessionRow, Digest
    <3>4. Gone_(c, r)
      BY <1>1, <2>1, <3>2, <3>3, EnvStays DEF HeadsEndToo, Gone_
    <3>5. Gone_(c, r)'
      BY <1>1, <3>3, <3>4, EnvStays
    <3>. QED  BY <3>5 DEF Gone_
  <2>5. call.pc = "commit" => \A j \in call.codes :
              table'[j] # NoRow /\ table'[j].subject \in who => Reached(c, j)' \/ table'[j].redeemed
    <3>. SUFFICES ASSUME call.pc = "commit", NEW j \in call.codes,
                         table'[j] # NoRow, table'[j].subject \in who
                  PROVE  Reached(c, j)' \/ table'[j].redeemed
      OBVIOUS
    <3>1. j \in Code \cap issued /\ j \in Digest
      BY <1>3 DEF Digest
    <3>2. /\ table[j] # NoRow /\ table[j].subject = table'[j].subject
          /\ table[j].redeemed => table'[j].redeemed
      BY <1>1, <3>1, EnvStays DEF Env, SameCode
    <3>3. Reached(c, j) \/ table[j].redeemed
      BY <2>1, <3>2
    <3>. QED  BY <1>2, <3>1, <3>2, <3>3
  <2>. QED  BY <1>1, <1>2, <1>3, <2>1, <2>2, <2>3, <2>4, <2>5 DEF EndOK, Doing, Digest
<1>. QED  BY <1>4, <1>5

\* A session that a rename must write and that somebody else just inserted: its chain,
\* or the code that bought it, is one that the rename holds or is about to.
LEMMA NewFound ==
    ASSUME RowsOK, NEW c \in Caller, calls[c] # Nothing, AnyOK(c), ScopeOK(c), Env(c),
           \A k \in calls[c].codes : Has(c, k),
           NEW t \in Token, FoundBy(c, t)', t \notin issued
    PROVE  \E r \in Token \cap issued :
              table'[t].root = r /\ FoundBy(c, r) /\ table[r] # NoRow /\ holder[r] # c /\ table[r].root = r
<1>. USE DEF RowsOK
<1>1. /\ table'[t] # NoRow /\ table'[t].subject \in calls[c].who
      /\ table'[t].root \in calls[c].chains \/ table'[t].code \in calls[c].codes
  BY DEF FoundBy, Env
<1>2. calls[c].chains \subseteq issued
  BY DEF ScopeOK
<1>3. ~(/\ table'[t].root = t /\ holder[table'[t].code] # c /\ table'[t].code \in Code
        /\ table[table'[t].code] # NoRow)
  BY <1>1, <1>2 DEF Has
<1>4. PICK r \in Token :
        /\ table'[t].root = r /\ table[r] # NoRow /\ table[r].root = r /\ holder[r] # c
        /\ r \in issued
        /\ table'[t].subject = table[r].subject /\ table'[t].code = table[r].code
  BY <1>1, <1>3, NewToken
<1>5. FoundBy(c, r)
  BY <1>1, <1>4 DEF FoundBy
<1>. QED  BY <1>4, <1>5

LEMMA RewriteEnvKeeps ==
    ASSUME RowsOK, NEW c \in Caller, calls[c] # Nothing, AnyOK(c), RewriteOK(c), Env(c)
    PROVE  RewriteOK(c)'
<1>. USE DEF RowsOK
<1>1. PICK call, who : call = calls[c] /\ who = calls[c].who
  OBVIOUS
<1>2. /\ calls'[c] = call /\ Todo(c)' = Todo(c) /\ (Clear(c)' <=> Clear(c)) /\ ScopeOK(c)
      /\ Todo(c) \subseteq issued
      /\ call.set \in (IF call.op = "rename" THEN Name ELSE Email)
      /\ \A k \in Digest : (Wrote(c, k)' <=> Wrote(c, k)) /\ (Reached(c, k)' <=> Reached(c, k))
  BY <1>1, EnvStays DEF Env, RewriteOK, AnyOK
<1>3. /\ ScopeOK(c)'
      /\ call.chains \subseteq Token \cap issued /\ call.codes \subseteq Code \cap issued
      /\ \A k \in Token \cap issued : Ours(c, k) => Ours(c, k)'
      /\ \A k \in Code \cap issued : Ours(c, k) => Ours(c, k)'
      /\ \A k \in call.codes : (Has(c, k) => Has(c, k)') /\ (Takes(c, k) => Takes(c, k)')
  BY <1>1, <1>2, ScopeEnv
<1>4. ASSUME NEW t \in Token, FoundBy(c, t)', t \in issued
      PROVE  FoundBy(c, t) /\ table'[t].root = table[t].root /\ table[t].root \in issued
  <2>1. table'[t] # NoRow /\ table[t] # NoRow /\ SameToken(table[t], table'[t])
    BY <1>1, <1>4, EnvStays DEF Env, FoundBy
  <2>2. FoundBy(c, t) /\ table'[t].root = table[t].root
    BY <1>1, <1>2, <1>4, <2>1 DEF FoundBy, SameToken
  <2>. QED  BY <2>1, <2>2 DEF ChainsHold
<1>5. CASE call.pc = "holdSessions"
  BY <1>1, <1>2, <1>3, <1>5 DEF RewriteOK, Doing
<1>6. CASE call.pc = "rewriteSessions"
  <2>1. Doing(c, "hold") /\ Clear(c) /\ Todo(c) \subseteq Token /\ (\A j \in call.codes : Has(c, j))
        /\ \A t \in Token : FoundBy(c, t) => Takes(c, table[t].root)
    BY <1>1, <1>6 DEF RewriteOK
  <2>2. ASSUME NEW t \in Token, FoundBy(c, t)', NEW r, r = table'[t].root  PROVE Takes(c, r)'
    <3>1. CASE t \in issued
      BY <1>1, <1>4, <2>1, <2>2, <3>1, EnvStays
    <3>2. CASE t \notin issued
      <4>1. r \in issued /\ Takes(c, r)
        BY <1>1, <1>2, <2>1, <2>2, <3>2, NewFound
      <4>. QED  BY <1>1, <4>1, EnvStays
    <3>. QED  BY <3>1, <3>2
  <2>3. (\A t \in Token : FoundBy(c, t) => Takes(c, table[t].root))'
    BY <2>2 DEF Takes, Has, Todo
  <2>. QED  BY <1>1, <1>2, <1>3, <1>6, <2>1, <2>3 DEF RewriteOK, Doing
<1>7. CASE call.pc \in {"rewriteCodes", "commit"}
  <2>1. /\ Doing(c, IF call.pc = "rewriteCodes" THEN "nameSession" ELSE "nameCode")
        /\ Todo(c) \subseteq (IF call.pc = "rewriteCodes" THEN Token ELSE Code)
        /\ \A j \in Todo(c) : Ours(c, j)
        /\ \A j \in call.codes : Has(c, j)
        /\ \A t \in Token : FoundBy(c, t) => Has(c, table[t].root)
        /\ \A t \in Token : Wrote(c, t) => Ours(c, t) /\ NameToken(c, t) /\ Over(c, t, Named(c, table[t]))
        /\ \A j \in Code : Wrote(c, j) =>
              call.pc = "commit" /\ Ours(c, j) /\ NameCode(c, j) /\ Over(c, j, Named(c, table[j]))
        /\ \A t \in Token : FoundBy(c, t) /\ NameToken(c, t) => Reached(c, t)
        /\ call.pc = "commit" => \A j \in call.codes :
              table[j] # NoRow /\ table[j].subject \in who /\ NameCode(c, j) => Reached(c, j)
    BY <1>1, <1>7 DEF RewriteOK
  <2>2. \A j \in Todo(c) : Ours(c, j)'
    BY <1>2, <1>3, <1>7, <2>1
  <2>3. ASSUME NEW t \in Token, FoundBy(c, t)'  PROVE t \in issued
    <3>. SUFFICES ASSUME t \notin issued  PROVE FALSE
      OBVIOUS
    <3>1. PICK r \in Token \cap issued :
            FoundBy(c, r) /\ table[r] # NoRow /\ holder[r] # c /\ table[r].root = r
      BY <1>1, <1>2, <2>1, <2>3, NewFound
    <3>. QED  BY <2>1, <3>1 DEF Has
  <2>4. ASSUME NEW t \in Token, FoundBy(c, t)', NEW r, r = table'[t].root  PROVE Has(c, r)'
    BY <1>1, <1>4, <2>1, <2>3, <2>4, EnvStays
  <2>5. (\A t \in Token : FoundBy(c, t) => Has(c, table[t].root))'
    BY <2>4 DEF Has
  <2>6. \A t \in Token : FoundBy(c, t)' /\ NameToken(c, t)' => Reached(c, t)'
    <3>. SUFFICES ASSUME NEW t \in Token, FoundBy(c, t)', NameToken(c, t)'  PROVE Reached(c, t)'
      OBVIOUS
    <3>1. t \in issued /\ FoundBy(c, t) /\ t \in Digest /\ table'[t] # NoRow
      BY <1>4, <2>3 DEF Digest, FoundBy
    <3>2. NameToken(c, t)
      BY <1>1, <1>2, <3>1 DEF NameToken, Env, SameToken
    <3>. QED  BY <1>2, <2>1, <3>1, <3>2
  <2>7. call.pc = "commit" => \A j \in call.codes :
              table'[j] # NoRow /\ table'[j].subject \in who /\ NameCode(c, j)' => Reached(c, j)'
    <3>. SUFFICES ASSUME call.pc = "commit", NEW j \in call.codes,
                         table'[j] # NoRow, table'[j].subject \in who, NameCode(c, j)'
                  PROVE  Reached(c, j)'
      OBVIOUS
    <3>1. j \in Code \cap issued /\ j \in Digest
      BY <1>3 DEF Digest
    <3>2. table[j] # NoRow /\ SameCode(table[j], table'[j])
      BY <1>1, <3>1, EnvStays DEF Env
    <3>3. table[j].subject \in who /\ NameCode(c, j)
      BY <1>1, <1>2, <3>2 DEF SameCode, NameCode
    <3>. QED  BY <1>2, <2>1, <3>1, <3>2, <3>3
  <2>8. ASSUME NEW j \in Digest, Wrote(c, j)
        PROVE  /\ Ours(c, j)' /\ Over(c, j, Named(c, table[j]))'
               /\ NameToken(c, j)' <=> NameToken(c, j)
               /\ NameCode(c, j)' <=> NameCode(c, j)
    <3>1. PICK row : row = Named(c, table[j])
      OBVIOUS
    <3>2. Over(c, j, row) /\ Ours(c, j)
      BY <2>1, <2>8, <3>1 DEF Digest
    <3>3. Over(c, j, row)' /\ table'[j] = table[j] /\ j \in issued
      BY <1>1, <3>2, EnvStays DEF Over
    <3>4. Named(c, table[j])' = row
      BY <1>1, <1>2, <3>1, <3>3 DEF Named
    <3>5. Ours(c, j)'
      BY <1>3, <3>2, <3>3 DEF Digest
    <3>. QED  BY <1>1, <1>2, <3>3, <3>4, <3>5 DEF Over, NameToken, NameCode
  <2>9. /\ \A t \in Token : Wrote(c, t)' => Ours(c, t)' /\ NameToken(c, t)' /\ Over(c, t, Named(c, table[t]))'
        /\ \A j \in Code : Wrote(c, j)' =>
              call.pc = "commit" /\ Ours(c, j)' /\ NameCode(c, j)' /\ Over(c, j, Named(c, table[j]))'
    BY <1>2, <2>1, <2>8 DEF Digest
  <2>. QED  BY <1>1, <1>2, <1>3, <1>7, <2>1, <2>2, <2>5, <2>6, <2>7, <2>9 DEF RewriteOK, Doing
<1>. QED  BY <1>1, <1>5, <1>6, <1>7 DEF RewriteOK

LEMMA EnvKeeps ==
    ASSUME RowsOK, NEW c \in Caller, CallOK(c), Env(c)
    PROVE  CallOK(c)'
<1>1. CASE calls[c] = Nothing
  BY <1>1 DEF Env, CallOK
<1>2. CASE calls[c] # Nothing
  <2>1. calls'[c] = calls[c] /\ AnyOK(c) /\ AnyOK(c)'
    BY <1>2, EnvStays DEF Env, CallOK
  <2>2. calls[c].op = "pair" => PairOK(c)'
    BY <1>2, <2>1, PairEnvKeeps DEF CallOK
  <2>3. calls[c].op \in {"refresh", "logout"} => ChainOK(c)'
    BY <1>2, <2>1, RefreshEnvKeeps, LogoutEnvKeeps DEF CallOK
  <2>4. calls[c].op = "end" => EndOK(c)'
    BY <1>2, <2>1, EndEnvKeeps DEF CallOK
  <2>5. calls[c].op \in {"rename", "readdress"} => RewriteOK(c)'
    BY <1>2, <2>1, RewriteEnvKeeps DEF CallOK
  <2>. QED  BY <2>1, <2>2, <2>3, <2>4, <2>5 DEF CallOK
<1>. QED  BY <1>1, <1>2

-----------------------------------------------------------------------------
(* What a transaction commits.                                              *)

\* A purge deletes what has expired, and the head with the token.
PurgeForm(d) ==
    /\ calls[d].at <= clock
    /\ calls[d].pc = "sessionsPurged" \/ \A t \in Token : ~Wrote(d, t)
    /\ \A k \in Digest : Wrote(d, k) => Deleted(d, k)
    /\ \A t \in Token : table[t] # NoRow /\ Wrote(d, t) =>
          table[table[t].root] = NoRow \/ Wrote(d, table[t].root)

\* Every other transaction writes over rows that it holds, or inserts a session.
ChangeForm(d) ==
    /\ \A t \in Token : Wrote(d, t) =>
          \/ t \in issued /\ holder[t] = d /\ SameToken(table[t], draft[d][t])
          \/ t \notin issued /\ (NewHead(d, t, draft[d][t]) \/ NewLink(d, t, draft[d][t]))
    /\ \A k \in Code : Wrote(d, k) => holder[k] = d /\ SameCode(table[k], draft[d][k])

\* What a transaction writes over a row that it holds.
LEMMA EndedSame ==
    ASSUME RowsOK, NEW d \in Caller, NEW t \in Token, Over(d, t, [table[t] EXCEPT !.revoked = TRUE])
    PROVE  t \in issued /\ holder[t] = d /\ SameToken(table[t], draft[d][t])
<1>. USE DEF RowsOK
<1>1. PICK row : row = [table[t] EXCEPT !.revoked = TRUE]
  OBVIOUS
<1>2. holder[t] = d /\ draft[d][t] = row /\ t \in Digest
  BY <1>1 DEF Over, Digest
<1>3. table[t] # NoRow /\ t \in issued
  BY <1>2, HeldRow DEF RowsAreIssued
<1>. QED  BY <1>1, <1>2, <1>3, EndedRow DEF SameToken

LEMMA MarkedSame ==
    ASSUME RowsOK, NEW d \in Caller, NEW t \in Token, calls[d] # Nothing, t = calls[d].key, Marked(d)
    PROVE  t \in issued /\ holder[t] = d /\ SameToken(table[t], draft[d][t])
<1>. USE DEF RowsOK
<1>1. PICK row : row = [table[t] EXCEPT !.rotated = calls[d].at]
  OBVIOUS
<1>2. holder[t] = d /\ draft[d][t] = row /\ t \in Digest
  BY <1>1 DEF Marked, Over, Digest
<1>3. table[t] # NoRow /\ t \in issued /\ table[t] \in SessionRow
  BY <1>2, HeldRow DEF RowsAreIssued
<1>4. calls[d].at \in Nat
  BY ClockAssumption DEF TypeOK, CallRecord
<1>. QED  BY <1>1, <1>2, <1>3, <1>4 DEF SameToken, SessionRow

LEMMA SpentSame ==
    ASSUME RowsOK, NEW d \in Caller, NEW k \in Code, Over(d, k, [table[k] EXCEPT !.redeemed = TRUE])
    PROVE  holder[k] = d /\ SameCode(table[k], draft[d][k])
<1>. USE DEF RowsOK
<1>1. PICK row : row = [table[k] EXCEPT !.redeemed = TRUE]
  OBVIOUS
<1>2. holder[k] = d /\ draft[d][k] = row /\ k \in Digest
  BY <1>1 DEF Over, Digest
<1>3. table[k] \in CodeRow
  BY <1>2, HeldRow
<1>. QED  BY <1>1, <1>2, <1>3 DEF SameCode, CodeRow

LEMMA NamedSame ==
    ASSUME RowsOK, NEW d \in Caller, NEW k \in Digest, Over(d, k, Named(d, table[k])),
           calls[d].set \in (IF calls[d].op = "rename" THEN Name ELSE Email)
    PROVE  /\ holder[k] = d /\ k \in issued
           /\ k \in Token => SameToken(table[k], draft[d][k])
           /\ k \in Code => SameCode(table[k], draft[d][k])
<1>. USE DEF RowsOK
<1>1. PICK row, set : row = Named(d, table[k]) /\ set = calls[d].set
  OBVIOUS
<1>2. holder[k] = d /\ draft[d][k] = row
  BY <1>1 DEF Over
<1>3. table[k] # NoRow /\ k \in issued
      /\ (k \in Token => table[k] \in SessionRow) /\ (k \in Code => table[k] \in CodeRow)
  BY <1>2, HeldRow DEF RowsAreIssued
<1>4. \/ set \in Name /\ row = [table[k] EXCEPT !.name = set]
      \/ set \in Email /\ row = [table[k] EXCEPT !.email = set]
  BY <1>1 DEF Named
<1>5. k \in Token => SameToken(table[k], row)
  BY <1>3, <1>4 DEF SameToken, SessionRow
<1>6. k \in Code => SameCode(table[k], row)
  BY <1>3, <1>4 DEF SameCode, CodeRow
<1>. QED  BY <1>2, <1>3, <1>5, <1>6

LEMMA OpensNew ==
    ASSUME RowsOK, NEW d \in Caller, calls[d] # Nothing, calls[d].key \in Code, NEW t \in Token,
           CodeSpent(d), Opens(d, t), calls[d].email \in Email
    PROVE  /\ Wrote(d, t) /\ t \notin issued
           /\ NewHead(d, t, draft[d][t])
           /\ draft[d][t].subject = table[calls[d].key].subject
           /\ draft[d][t].expires = calls[d].at + SessionTtl
           /\ draft[d][t].code = calls[d].key
           /\ draft[d][t].name = table[calls[d].key].name /\ draft[d][t].rotated = NotRotated
<1>. USE DEF RowsOK
<1>1. PICK k, row : k = calls[d].key /\ row = draft[d][t]
  OBVIOUS
<1>2. table[k] \in CodeRow /\ holder[k] = d
  BY <1>1, SpentRow DEF CodeSpent, Over
<1>3. calls[d].at + SessionTtl \in Nat
  BY <1>1, ClockAssumption, TtlAssumption DEF TypeOK, CallRecord
<1>4. row = [subject |-> table[k].subject, name |-> table[k].name, email |-> calls[d].email,
             expires |-> calls[d].at + SessionTtl, revoked |-> FALSE, rotated |-> NotRotated,
             pred |-> NoToken, root |-> t, code |-> k]
  BY <1>1 DEF Opens
<1>5. row \in SessionRow
  BY <1>1, <1>2, <1>3, <1>4 DEF SessionRow, CodeRow
<1>6. t \notin issued
  BY DEF Opens
<1>7. /\ row.root = t /\ row.pred = NoToken /\ ~row.revoked /\ row.code = k /\ row.subject = table[k].subject
      /\ row.expires = calls[d].at + SessionTtl /\ row.name = table[k].name /\ row.rotated = NotRotated
  BY <1>4
<1>8. NewHead(d, t, row)
  BY <1>2, <1>5, <1>7 DEF NewHead
<1>9. Wrote(d, t)
  BY <1>1, <1>5, NullAssumption DEF Wrote
<1>. QED  BY <1>1, <1>6, <1>7, <1>8, <1>9

LEMMA SucceedsNew ==
    ASSUME RowsOK, NEW d \in Caller, calls[d] # Nothing, ChainOK(d), Going(d), NEW s, Succeeds(d, s)
    PROVE  /\ Wrote(d, s) /\ s \in Token /\ s \notin issued
           /\ NewLink(d, s, draft[d][s])
           /\ draft[d][s].pred = calls[d].key /\ draft[d][s].root = calls[d].root
           /\ draft[d][s].rotated = NotRotated
           /\ draft[d][s].name = table[calls[d].key].name
           /\ draft[d][s].subject = table[calls[d].key].subject
           /\ draft[d][s].expires = table[calls[d].key].expires
           /\ draft[d][s].code = table[calls[d].key].code
<1>. USE DEF RowsOK
<1>1. PICK t, root, row, old : t = calls[d].key /\ root = calls[d].root /\ row = draft[d][s] /\ old = table[t]
  OBVIOUS
<1>2. t \in Token /\ root \in Token /\ t \in Digest /\ root \in Digest /\ holder[t] = d /\ holder[root] = d
  BY <1>1 DEF ChainOK, Going, Digest
<1>3. old \in SessionRow /\ table[root] \in SessionRow /\ table[t] # NoRow /\ table[root] # NoRow
  BY <1>1, <1>2, HeldRow
<1>4. old.root = root /\ table[root].root = root
  BY <1>1, <1>3 DEF ChainOK
<1>5. table[root].subject = old.subject /\ table[root].expires = old.expires /\ table[root].code = old.code
  BY <1>1, <1>2, <1>3, <1>4 DEF ChainsHold
<1>6. row = [old EXCEPT !.pred = t, !.root = root, !.rotated = NotRotated, !.revoked = FALSE]
      /\ s \in Token /\ s \notin issued
  BY <1>1 DEF Succeeds
<1>7. PICK half : half = [old EXCEPT !.pred = t, !.root = root]
  OBVIOUS
<1>8. row = [half EXCEPT !.rotated = NotRotated, !.revoked = FALSE]
  BY <1>3, <1>6, <1>7 DEF SessionRow
<1>9. /\ half \in SessionRow /\ half.pred = t /\ half.root = root /\ half.name = old.name
      /\ half.subject = old.subject /\ half.expires = old.expires /\ half.code = old.code
  BY <1>2, <1>3, <1>7 DEF SessionRow
<1>10. /\ row \in SessionRow /\ row.pred = t /\ row.root = root /\ row.name = old.name
       /\ row.subject = old.subject /\ row.expires = old.expires /\ row.code = old.code
       /\ row.rotated = NotRotated /\ ~row.revoked
  BY <1>8, <1>9 DEF SessionRow
<1>11. NewLink(d, s, row)
  BY <1>1, <1>2, <1>4, <1>5, <1>10 DEF NewLink
<1>. QED  BY <1>1, <1>6, <1>10, <1>11, NullAssumption DEF Wrote

LEMMA ChainForm ==
    ASSUME RowsOK, NEW d \in Caller, calls[d] # Nothing, ChainOK(d), calls[d].pc = "commit",
           Todo(d) = {}
    PROVE  ChangeForm(d)
<1>. USE DEF RowsOK
<1>1. calls[d].key \in Token /\ calls[d].key \in Digest
  BY DEF ChainOK, Digest
<1>2. ASSUME NEW k \in Digest, Wrote(d, k), Ended(d, k)
      PROVE  k \in Token \cap issued /\ holder[k] = d /\ SameToken(table[k], draft[d][k])
  <2>1. k \in Token /\ Over(d, k, [table[k] EXCEPT !.revoked = TRUE])
    BY <1>2 DEF Ended, InChain
  <2>. QED  BY <2>1, EndedSame
<1>3. ASSUME NEW s, Succeeds(d, s), Going(d)
      PROVE  s \in Token /\ s \notin issued /\ NewLink(d, s, draft[d][s])
  BY <1>3, SucceedsNew
<1>4. ASSUME \A k \in Digest : Ended(d, k)
      PROVE  ChangeForm(d)
  BY <1>2, <1>4, DigestAssumption DEF ChangeForm, Digest
<1>5. ASSUME NEW s, Succeeds(d, s), Going(d), Marked(d), \A k \in Digest \ {s, calls[d].key} : Ended(d, k)
      PROVE  ChangeForm(d)
  <2>1. calls[d].key \in issued /\ holder[calls[d].key] = d
        /\ SameToken(table[calls[d].key], draft[d][calls[d].key])
    BY <1>1, <1>5, MarkedSame
  <2>. QED  BY <1>1, <1>2, <1>3, <1>5, <2>1, DigestAssumption DEF ChangeForm, Digest
<1>6. ASSUME NEW s, Succeeds(d, s), Going(d), \A k \in Digest \ {s} : Ended(d, k)
      PROVE  ChangeForm(d)
  BY <1>2, <1>3, <1>6, DigestAssumption DEF ChangeForm, Digest
<1>7. CASE calls[d].op # "refresh"
  <2>1. \A k \in Digest : Ended(d, k)
    BY <1>7 DEF ChainOK, LogoutOK, EndsOnly
  <2>. QED  BY <1>4, <2>1
<1>8. CASE calls[d].op = "refresh"
  <2>1. \/ Again(d) /\ \E s \in Token : Succeeds(d, s) /\ EndsBut(d, s)
        \/ First(d) /\ Marked(d) /\ \E s \in Token :
              Succeeds(d, s) /\ \A k \in Digest \ {s, calls[d].key} : Ended(d, k)
        \/ Clear(d)
        \/ EndsOnly(d)
    BY <1>8 DEF ChainOK, RefreshOK
  <2>2. CASE Again(d) /\ \E s \in Token : Succeeds(d, s) /\ EndsBut(d, s)
    BY <1>6, <2>2 DEF Again, EndsBut
  <2>3. CASE First(d) /\ Marked(d) /\ \E s \in Token :
                Succeeds(d, s) /\ \A k \in Digest \ {s, calls[d].key} : Ended(d, k)
    BY <1>5, <2>3 DEF First
  <2>4. CASE Clear(d)
    BY <1>4, <2>4 DEF Clear, Ended, Wrote
  <2>5. CASE EndsOnly(d)
    BY <1>4, <2>5 DEF EndsOnly
  <2>. QED  BY <2>1, <2>2, <2>3, <2>4, <2>5
<1>. QED  BY <1>7, <1>8

LEMMA PurgedForm ==
    ASSUME RowsOK, NEW d \in Caller, CallOK(d), calls[d] # Nothing, Todo(d) = {},
           calls[d].pc \in {"codesPurged", "sessionsPurged"}
    PROVE  PurgeForm(d)
<1>. USE DEF RowsOK
<1>1. calls[d].op = "pair" /\ PairOK(d) /\ AnyOK(d)
  BY PlaceOf DEF CallOK
<1>2. \/ calls[d].pc = "codesPurged" /\ PurgeOK(d, Code)
      \/ calls[d].pc = "sessionsPurged" /\ PurgeOK(d, Token) /\ HeadsGoToo(d)
  BY <1>1 DEF PairOK
<1>3. \A k \in Digest : Wrote(d, k) => Deleted(d, k)
  BY <1>2 DEF PurgeOK
<1>4. calls[d].pc = "sessionsPurged" \/ \A t \in Token : ~Wrote(d, t)
  BY <1>2, DigestAssumption DEF PurgeOK, Digest
<1>5. \A t \in Token : table[t] # NoRow /\ Wrote(d, t) =>
          table[table[t].root] = NoRow \/ Wrote(d, table[t].root)
  BY <1>2, <1>4 DEF HeadsGoToo, Reached
<1>. QED  BY <1>1, <1>3, <1>4, <1>5 DEF PurgeForm, AnyOK

LEMMA CommitForms ==
    ASSUME RowsOK, NEW d \in Caller, CallOK(d), Commits(d)
    PROVE  calls[d] # Nothing /\ Todo(d) = {} /\ (PurgeForm(d) \/ ChangeForm(d))
<1>. USE DEF RowsOK
<1>1. calls[d] # Nothing /\ Todo(d) = {}
      /\ calls[d].pc \in {"codesPurged", "sessionsPurged", "commit"}
  BY DEF Commits, PurgedCodes, PurgedSessions, Commit, At, Todo
<1>2. AnyOK(d) /\ calls[d].op \in Op
  BY <1>1 DEF CallOK, TypeOK, CallRecord
<1>3. ASSUME \A k \in Digest : ~Wrote(d, k)
      PROVE  ChangeForm(d)
  BY <1>3 DEF ChangeForm, Digest
<1>4. CASE calls[d].pc \in {"codesPurged", "sessionsPurged"}
  BY <1>1, <1>4, PurgedForm
<1>5. CASE calls[d].pc = "commit"
  <2>1. CASE calls[d].op = "pair"
    <3>1. calls[d].key \in Code /\ (Clear(d) \/ \E t \in Token :
              CodeSpent(d) /\ Opens(d, t) /\ calls[d].email \in Email
              /\ \A j \in Digest \ {calls[d].key, t} : ~Wrote(d, j))
      BY <1>1, <1>5, <2>1 DEF CallOK, PairOK
    <3>2. CASE Clear(d)
      BY <1>1, <1>3, <3>2 DEF Clear, Wrote
    <3>3. ASSUME NEW t \in Token, CodeSpent(d), Opens(d, t), calls[d].email \in Email,
                 \A j \in Digest \ {calls[d].key, t} : ~Wrote(d, j)
          PROVE  ChangeForm(d)
      <4>1. NewHead(d, t, draft[d][t]) /\ t \notin issued
        BY <1>1, <3>1, <3>3, OpensNew
      <4>2. holder[calls[d].key] = d /\ SameCode(table[calls[d].key], draft[d][calls[d].key])
        <5>1. Over(d, calls[d].key, [table[calls[d].key] EXCEPT !.redeemed = TRUE])
          BY <3>3 DEF CodeSpent
        <5>. QED  BY <3>1, <5>1, SpentSame
      <4>. QED  BY <3>1, <3>3, <4>1, <4>2, DigestAssumption DEF ChangeForm, Digest
    <3>. QED  BY <1>1, <3>1, <3>2, <3>3
  <2>2. CASE calls[d].op \in {"refresh", "logout"}
    BY <1>1, <1>5, <2>2, ChainForm DEF CallOK
  <2>3. CASE calls[d].op = "end"
    <3>1. /\ \A t \in Token : Wrote(d, t) => EndsToken(d, t)
          /\ \A k \in Code : Wrote(d, k) => SpendsCode(d, k)
      BY <1>1, <1>5, <2>3 DEF CallOK, EndOK
    <3>. QED  BY <1>1, <3>1, EndedSame, SpentSame DEF ChangeForm, EndsToken, SpendsCode
  <2>4. CASE calls[d].op \in {"rename", "readdress"}
    <3>1. /\ \A t \in Token : Wrote(d, t) => Over(d, t, Named(d, table[t]))
          /\ \A k \in Code : Wrote(d, k) => Over(d, k, Named(d, table[k]))
          /\ calls[d].set \in (IF calls[d].op = "rename" THEN Name ELSE Email)
      BY <1>1, <1>5, <2>4 DEF CallOK, RewriteOK
    <3>. QED  BY <1>1, <3>1, NamedSame DEF ChangeForm, Digest
  <2>. QED  BY <1>2, <2>1, <2>2, <2>3, <2>4 DEF Op
<1>. QED  BY <1>1, <1>4, <1>5
LEMMA WrittenSession ==
    ASSUME NEW row \in SessionRow, NEW at \in Nat, NEW set, NEW new,
           \/ new = NoRow
           \/ new = [row EXCEPT !.revoked = TRUE]
           \/ new = [row EXCEPT !.redeemed = TRUE]
           \/ new = [row EXCEPT !.rotated = at]
           \/ set \in Name /\ new = [row EXCEPT !.name = set]
           \/ set \in Email /\ new = [row EXCEPT !.email = set]
    PROVE  new \in SessionRow \cup {NoRow}
<1>1. CASE new = NoRow
  BY <1>1
<1>2. CASE new = [row EXCEPT !.revoked = TRUE]
  BY <1>2 DEF SessionRow
<1>3. CASE new = [row EXCEPT !.redeemed = TRUE]
  BY <1>3 DEF SessionRow
<1>4. CASE new = [row EXCEPT !.rotated = at]
  BY <1>4 DEF SessionRow
<1>5. CASE set \in Name /\ new = [row EXCEPT !.name = set]
  BY <1>5 DEF SessionRow
<1>6. CASE set \in Email /\ new = [row EXCEPT !.email = set]
  BY <1>6 DEF SessionRow
<1>. QED  BY <1>1, <1>2, <1>3, <1>4, <1>5, <1>6

LEMMA WrittenCode ==
    ASSUME NEW row \in CodeRow, NEW at \in Nat, NEW set, NEW new,
           \/ new = NoRow
           \/ new = [row EXCEPT !.revoked = TRUE]
           \/ new = [row EXCEPT !.redeemed = TRUE]
           \/ new = [row EXCEPT !.rotated = at]
           \/ set \in Name /\ new = [row EXCEPT !.name = set]
           \/ set \in Email /\ new = [row EXCEPT !.email = set]
    PROVE  new \in CodeRow \cup {NoRow}
<1>1. CASE new = NoRow
  BY <1>1
<1>2. CASE new = [row EXCEPT !.revoked = TRUE]
  BY <1>2 DEF CodeRow
<1>3. CASE new = [row EXCEPT !.redeemed = TRUE]
  BY <1>3 DEF CodeRow
<1>4. CASE new = [row EXCEPT !.rotated = at]
  BY <1>4 DEF CodeRow
<1>5. CASE set \in Name /\ new = [row EXCEPT !.name = set]
  BY <1>5 DEF CodeRow
<1>6. CASE set \in Email /\ new = [row EXCEPT !.email = set]
  BY <1>6 DEF CodeRow
<1>. QED  BY <1>1, <1>2, <1>3, <1>4, <1>5, <1>6

LEMMA ResultIs ==
    ASSUME NEW call \in CallRecord, NEW row, NEW new, new = Result(call, row), call.does # "hold",
           call.does \in {"nameSession", "nameCode"} =>
              call.set \in (IF call.op = "rename" THEN Name ELSE Email)
    PROVE  /\ row \in SessionRow => new \in SessionRow \cup {NoRow}
           /\ row \in CodeRow => new \in CodeRow \cup {NoRow}
<1>1. PICK set, at : set = call.set /\ at = call.at /\ at \in Nat
  BY ClockAssumption DEF CallRecord
<1>2. \/ new = NoRow
      \/ new = [row EXCEPT !.revoked = TRUE]
      \/ new = [row EXCEPT !.redeemed = TRUE]
      \/ new = [row EXCEPT !.rotated = at]
      \/ set \in Name /\ new = [row EXCEPT !.name = set]
      \/ set \in Email /\ new = [row EXCEPT !.email = set]
  BY <1>1 DEF Result, CallRecord, Does
<1>3. row \in SessionRow => new \in SessionRow \cup {NoRow}
  BY <1>1, <1>2, WrittenSession
<1>4. row \in CodeRow => new \in CodeRow \cup {NoRow}
  BY <1>1, <1>2, WrittenCode
<1>. QED  BY <1>3, <1>4

-----------------------------------------------------------------------------
(* The step of one caller, for the others.                                  *)

LEMMA CommitLeaves ==
    ASSUME RowsOK, NEW d \in Caller, Commits(d)
    PROVE  /\ clock' = clock
           /\ \A k \in Digest : table'[k] = IF Wrote(d, k) THEN draft[d][k] ELSE table[k]
           /\ table' = [k \in Digest |-> table'[k]]
           /\ issued' = issued \cup {k \in Digest : table'[k] # NoRow}
           /\ \A k \in Digest : draft'[d][k] = Untouched
           /\ \A k \in Digest : holder'[k] = IF holder[k] = d THEN Nobody ELSE holder[k]
           /\ \A c \in Caller \ {d} : draft'[c] = draft[c] /\ calls'[c] = calls[c]
<1>1. PICK call : CommitThen(d, call)
  BY DEF Commits, PurgedCodes, PurgedSessions, Commit
<1>2. \A k \in Digest : table'[k] = IF Wrote(d, k) THEN draft[d][k] ELSE table[k]
  BY <1>1, CommitIs, ViewIs DEF RowsOK, Wrote
<1>3. table' = View(d) /\ issued' = issued \cup Present(d)
  BY <1>1, CommitIs DEF RowsOK
<1>4. table' = [k \in Digest |-> table'[k]]
  BY <1>3 DEF View
<1>5. issued' = issued \cup {k \in Digest : table'[k] # NoRow}
  BY <1>3 DEF Present
<1>. QED  BY <1>1, <1>2, <1>4, <1>5, CommitIs DEF RowsOK

\* Nobody else writes what another transaction holds or drew.
LEMMA WritesApart ==
    ASSUME RowsOK, NEW c \in Caller, NEW d \in Caller, c # d, NEW k \in Digest, Wrote(d, k)
    PROVE  ~Wrote(c, k) /\ holder[k] # c /\ (k \in issued => holder[k] = d /\ table[k] # NoRow)
<1>. USE DEF RowsOK
<1>1. ~Wrote(c, k) /\ (holder[k] = d \/ k \notin issued)
  BY DEF WritesAreHeld, Wrote
<1>2. \A e \in Caller : holder[k] = e => table[k] # NoRow /\ k \in issued
  BY NullAssumption DEF HeldAreThere, RowsAreIssued
<1>. QED  BY <1>1, <1>2

LEMMA SameTokenIs ==
    ASSUME TypeOK, NEW t \in Token, table[t] # NoRow
    PROVE  SameToken(table[t], table[t])
BY DEF TypeOK, SameToken

LEMMA SameCodeIs ==
    ASSUME TypeOK, NEW k \in Code, table[k] # NoRow
    PROVE  SameCode(table[k], table[k])
BY DEF TypeOK, SameCode

LEMMA StaysEnv ==
    ASSUME RowsOK, NEW c \in Caller, calls'[c] = calls[c], draft'[c] = draft[c],
           table' = table, issued' = issued, clock' \in Nat, clock <= clock',
           \A k \in Digest : holder[k] = c => holder'[k] = c
    PROVE  Env(c)
<1>. USE DEF RowsOK
<1>1. \A t \in Token \cap issued : table'[t] # NoRow => SameToken(table[t], table'[t])
  BY SameTokenIs
<1>2. \A k \in Code \cap issued : table'[k] # NoRow => SameCode(table[k], table'[k])
  BY SameCodeIs
<1>3. \A t \in Token \ issued : table'[t] = NoRow
  BY DEF RowsAreIssued, Digest
<1>4. RootStays(c)
  BY DEF RootStays
<1>. QED  BY <1>1, <1>2, <1>3, <1>4 DEF Env

LEMMA CreateEnv ==
    ASSUME RowsOK, NEW c \in Caller, CallOK(c), NEW k \in Code, NEW p \in Person, NEW n \in Name,
           NEW e \in Email, CreatePairing(k, p, n, e)
    PROVE  Env(c)
<1>. USE DEF RowsOK
<1>1. k \in Digest /\ k \notin issued /\ k \notin Token /\ table[k] = NoRow /\ ~Wrote(c, k)
  BY DigestAssumption DEF CreatePairing, Fresh, RowsAreIssued, Digest, Wrote
<1>2. /\ \A j \in Digest : j # k => table'[j] = table[j]
      /\ issued' = issued \cup {k} /\ UNCHANGED <<draft, holder, calls, clock>>
  BY <1>1 DEF CreatePairing, TypeOK
<1>3. holder[k] # c
  BY <1>1, NullAssumption DEF HeldAreThere
<1>4. \A t \in Token \cap issued : table'[t] # NoRow => SameToken(table[t], table'[t])
  BY <1>1, <1>2, SameTokenIs DEF Digest
<1>5. \A j \in Code \cap issued : table'[j] # NoRow => SameCode(table[j], table'[j])
  BY <1>1, <1>2, SameCodeIs DEF Digest
<1>6. \A t \in Token \ issued : table'[t] = NoRow
  BY <1>1, <1>2 DEF RowsAreIssued, Digest
<1>7. RootStays(c)
  <2>1. calls[c] # Nothing /\ calls[c].op = "refresh" => calls[c].root \in Token
    BY DEF CallOK, ChainOK
  <2>. QED  BY <1>1, <1>2, <2>1 DEF RootStays, Digest
<1>8. clock' \in Nat /\ clock <= clock'
  BY <1>2, ClockAssumption DEF TypeOK
<1>9. \A j \in Digest : holder[j] = c => holder'[j] = c /\ table'[j] = table[j]
  BY <1>2, <1>3
<1>10. \A j \in issued : table[j] = NoRow => table'[j] = NoRow
  BY <1>1, <1>2 DEF TypeOK
<1>11. \A j \in Digest \ issued : Wrote(c, j) => j \notin issued'
  BY <1>1, <1>2
<1>. QED  BY <1>2, <1>4, <1>5, <1>6, <1>7, <1>8, <1>9, <1>10, <1>11 DEF Env

LEMMA CommitEnv ==
    ASSUME RowsOK, PurgesAreWhole, NEW c \in Caller, NEW d \in Caller, c # d,
           CallOK(c), CallOK(d), Commits(d)
    PROVE  Env(c)
<1>. USE DEF RowsOK
<1>1. calls[d] # Nothing /\ Todo(d) = {} /\ (PurgeForm(d) \/ ChangeForm(d))
  BY CommitForms
<1>2. /\ \A k \in Digest : table'[k] = IF Wrote(d, k) THEN draft[d][k] ELSE table[k]
      /\ issued' = issued \cup {k \in Digest : table'[k] # NoRow}
      /\ \A k \in Digest : holder'[k] = IF holder[k] = d THEN Nobody ELSE holder[k]
      /\ draft'[c] = draft[c] /\ calls'[c] = calls[c] /\ clock' = clock
  BY CommitLeaves
<1>3. \A k \in Digest : Wrote(d, k) =>
          ~Wrote(c, k) /\ holder[k] # c /\ (k \in issued => holder[k] = d /\ table[k] # NoRow)
  BY WritesApart
<1>4. \A k \in Digest \ issued : Wrote(c, k) => k \notin issued'
  BY <1>2, <1>3 DEF RowsAreIssued
<1>5. \A k \in Digest : holder[k] = c => holder'[k] = c /\ table'[k] = table[k]
  BY <1>2, <1>3
<1>6. \A k \in issued : table[k] = NoRow => table'[k] = NoRow
  BY <1>2, <1>3 DEF TypeOK
<1>7. \A k \in Digest : PurgeForm(d) /\ Wrote(d, k) => table'[k] = NoRow
  BY <1>2 DEF PurgeForm, Deleted, Over
<1>8. \A t \in Token \cap issued : table'[t] # NoRow => SameToken(table[t], table'[t])
  <2>. SUFFICES ASSUME NEW t \in Token \cap issued, table'[t] # NoRow
                PROVE  SameToken(table[t], table'[t])
    OBVIOUS
  <2>1. CASE ~Wrote(d, t)
    BY <1>2, <2>1, SameTokenIs DEF Digest
  <2>2. CASE Wrote(d, t)
    BY <1>1, <1>2, <1>7, <2>2 DEF Digest, ChangeForm
  <2>. QED  BY <2>1, <2>2
<1>9. \A k \in Code \cap issued : table'[k] # NoRow => SameCode(table[k], table'[k])
  <2>. SUFFICES ASSUME NEW k \in Code \cap issued, table'[k] # NoRow
                PROVE  SameCode(table[k], table'[k])
    OBVIOUS
  <2>1. CASE ~Wrote(d, k)
    BY <1>2, <2>1, SameCodeIs DEF Digest
  <2>2. CASE Wrote(d, k)
    BY <1>1, <1>2, <1>7, <2>2 DEF Digest, ChangeForm
  <2>. QED  BY <2>1, <2>2
<1>10. \A t \in Token \ issued : table'[t] # NoRow =>
          \E e \in Caller \ {c} : NewHead(e, t, table'[t]) \/ NewLink(e, t, table'[t])
  <2>. SUFFICES ASSUME NEW t \in Token \ issued, table'[t] # NoRow
                PROVE  NewHead(d, t, table'[t]) \/ NewLink(d, t, table'[t])
    OBVIOUS
  <2>1. Wrote(d, t) /\ table'[t] = draft[d][t] /\ t \in Digest
    BY <1>2 DEF RowsAreIssued, Digest
  <2>2. ~PurgeForm(d)
    BY <1>7, <2>1
  <2>. QED  BY <1>1, <2>1, <2>2 DEF ChangeForm
<1>11. RootStays(c)
  <2>. SUFFICES ASSUME calls[c] # Nothing, calls[c].op = "refresh", NEW t, t = calls[c].key,
                       table'[t] # NoRow, calls[c].at < table'[t].expires,
                       NEW r, r = calls[c].root, table[r] # NoRow, table'[r] = NoRow
                PROVE  FALSE
    BY DEF RootStays
  <2>1. t \in Token \cap issued /\ r \in Token \cap issued /\ t \in Digest /\ r \in Digest
    BY DEF CallOK, ChainOK, Digest
  <2>2. Wrote(d, r) /\ draft[d][r] = NoRow
    BY <1>2, <2>1
  <2>3. PurgeForm(d)
    <3>1. ~SameToken(table[r], NoRow)
      BY NullAssumption DEF SameToken
    <3>. QED  BY <1>1, <2>1, <2>2, <3>1 DEF ChangeForm
  <2>4. calls[d].pc = "sessionsPurged"
    BY <2>1, <2>2, <2>3 DEF PurgeForm
  <2>5. table[t] = table'[t] /\ ~Wrote(d, t)
    BY <1>2, <1>7, <2>1, <2>3
  <2>6. Reached(d, r) /\ ~Reached(d, t)
    BY <1>1, <2>2, <2>5 DEF Reached
  <2>. QED  BY <1>1, <2>4, <2>5, <2>6 DEF PurgesAreWhole
<1>12. clock' \in Nat /\ clock <= clock'
  BY <1>2, ClockAssumption DEF TypeOK
<1>13. issued \subseteq issued'
  BY <1>2
<1>14. /\ calls'[c] = calls[c] /\ draft'[c] = draft[c]
  BY <1>2
<1>. QED  BY <1>4, <1>5, <1>6, <1>8, <1>9, <1>10, <1>11, <1>12, <1>13, <1>14 DEF Env

\* The steps that commit nothing.
Quiet(d) == Plans(d) \/ Visit(d) \/ Inserts(d) \/ Rollback(d)

LEMMA QuietLeaves ==
    ASSUME RowsOK, NEW d \in Caller, CallOK(d), Quiet(d)
    PROVE  /\ UNCHANGED <<table, issued, clock>>
           /\ \A c \in Caller \ {d} :
                 /\ draft'[c] = draft[c] /\ calls'[c] = calls[c]
                 /\ \A k \in Digest : holder[k] = c => holder'[k] = c
<1>. USE DEF RowsOK
<1>1. CASE Plans(d)
  BY <1>1, PlansMove DEF Moves, TypeOK
<1>2. CASE Visit(d)
  <2>1. UNCHANGED <<table, issued, clock>>
    BY <1>2 DEF Visit, rows
  <2>2. PICK k \in NextRows(calls[d]) :
          /\ holder[k] \in {Nobody, d}
          /\ calls' = [calls EXCEPT ![d].todo = @ \ {k}]
          /\ IF View(d)[k] = NoRow
             THEN UNCHANGED rows
             ELSE /\ holder' = [holder EXCEPT ![k] = d]
                  /\ draft' = IF calls[d].does # "hold" /\ Applies(calls[d], View(d)[k])
                              THEN [draft EXCEPT ![d][k] = Result(calls[d], View(d)[k])]
                              ELSE draft
                  /\ UNCHANGED table
    BY <1>2 DEF Visit
  <2>3. ASSUME NEW c \in Caller \ {d}
        PROVE  /\ draft'[c] = draft[c] /\ calls'[c] = calls[c]
               /\ \A j \in Digest : holder[j] = c => holder'[j] = c
    <3>1. calls'[c] = calls[c]
      BY <2>2, <2>3 DEF TypeOK
    <3>2. draft'[c] = draft[c]
      <4>1. PICK row : row = Result(calls[d], View(d)[k])
        OBVIOUS
      <4>2. draft' = draft \/ draft' = [draft EXCEPT ![d][k] = row]
        BY <2>2, <4>1 DEF rows
      <4>. QED  BY <2>3, <4>2 DEF TypeOK
    <3>3. holder' = holder \/ holder' = [holder EXCEPT ![k] = d]
      BY <2>2 DEF rows
    <3>. QED  BY <2>2, <2>3, <3>1, <3>2, <3>3, NullAssumption DEF TypeOK
  <2>. QED  BY <2>1, <2>3
<1>3. CASE Inserts(d)
  <2>1. \A row : \A s : Draws(d, s, row) =>
          /\ UNCHANGED <<table, issued, clock>>
          /\ \A c \in Caller \ {d} :
                /\ draft'[c] = draft[c] /\ calls'[c] = calls[c]
                /\ \A k \in Digest : holder[k] = c => holder'[k] = c
    BY DEF Draws
  <2>2. \E s : \E row : Draws(d, s, row)
    BY <1>3, OpenSessionIs, InsertSuccessorIs DEF Inserts
  <2>. QED  BY <2>1, <2>2
<1>4. CASE Rollback(d)
  BY <1>4 DEF Rollback, Clean, Released, TypeOK
<1>. QED  BY <1>1, <1>2, <1>3, <1>4 DEF Quiet

LEMMA OthersEnv ==
    ASSUME RowsOK, PurgesAreWhole, NEW c \in Caller, NEW d \in Caller, c # d, CallOK(c), CallOK(d),
           Quiet(d) \/ Commits(d)
    PROVE  Env(c)
<1>1. CASE Quiet(d)
  <2>1. clock \in Nat /\ clock <= clock
    BY ClockAssumption DEF RowsOK, TypeOK
  <2>. QED  BY <1>1, <2>1, QuietLeaves, StaysEnv
<1>2. CASE Commits(d)
  BY <1>2, CommitEnv
<1>. QED  BY <1>1, <1>2

LEMMA TickEnv ==
    ASSUME RowsOK, NEW c \in Caller, Tick
    PROVE  Env(c)
<1>1. clock' \in Nat /\ clock <= clock' /\ UNCHANGED <<table, draft, holder, calls, issued>>
  BY ClockAssumption DEF RowsOK, TypeOK, Tick, rows
<1>. QED  BY <1>1, StaysEnv

-----------------------------------------------------------------------------
(* Every step keeps the rows.                                               *)

\* A row that a step takes it took for itself, and one that it gives back it did not write.
LEMMA RowsStay ==
    ASSUME RowsOK, NEW d \in Caller, UNCHANGED <<table, issued, clock>>,
           draft' \in [Caller -> [Digest -> SessionRow \cup CodeRow \cup {NoRow, Untouched}]],
           holder' \in [Digest -> Caller \cup {Nobody}],
           calls' \in [Caller -> CallRecord \cup {Nothing}],
           \A c \in Caller \ {d} : draft'[c] = draft[c] /\ calls'[c] = calls[c],
           \A t \in Token : draft'[d][t] \in SessionRow \cup {NoRow, Untouched},
           \A k \in Code : draft'[d][k] \in CodeRow \cup {NoRow, Untouched},
           \A k \in Digest :
              \/ holder'[k] = holder[k]
              \/ holder[k] \in {Nobody, d} /\ holder'[k] = d /\ table[k] # NoRow
              \/ holder[k] = d /\ holder'[k] = Nobody /\ draft'[d][k] = Untouched,
           \A k \in Digest : draft'[d][k] # Untouched =>
              draft'[d][k] = draft[d][k] \/ (holder'[k] = d /\ k \in issued) \/ Fresh(k),
           calls'[d] = Nothing => Clear(d)' /\ \A k \in Digest : holder'[k] # d
    PROVE  RowsOK'
<1>. USE DEF RowsOK
<1>1. TypeOK'
  <2>1. \A c \in Caller, t \in Token : draft'[c][t] \in SessionRow \cup {NoRow, Untouched}
    BY DEF TypeOK
  <2>2. \A c \in Caller, k \in Code : draft'[c][k] \in CodeRow \cup {NoRow, Untouched}
    BY DEF TypeOK
  <2>. QED  BY <2>1, <2>2 DEF TypeOK
<1>2. RowsAreIssued' /\ ChainsHold'
  BY DEF RowsAreIssued, ChainsHold
<1>3. HeldAreThere'
  BY DEF HeldAreThere
<1>4. WritesAreHeld'
  <2>1. ASSUME NEW c \in Caller, NEW k \in Digest, draft'[c][k] # Untouched
        PROVE  holder'[k] = c \/ k \notin issued
    <3>1. CASE c # d
      <4>1. holder[k] = c \/ k \notin issued
        BY <2>1, <3>1 DEF WritesAreHeld
      <4>. QED  BY <3>1, <4>1, NullAssumption
    <3>2. CASE c = d /\ draft[d][k] # Untouched
      <4>1. holder[k] = d \/ k \notin issued
        BY <3>2 DEF WritesAreHeld
      <4>. QED  BY <2>1, <3>2, <4>1
    <3>3. CASE c = d /\ draft[d][k] = Untouched
      BY <2>1, <3>3 DEF Fresh
    <3>. QED  BY <3>1, <3>2, <3>3
  <2>2. ASSUME NEW c \in Caller \ {d}, NEW k \in Digest, draft'[c][k] # Untouched, draft'[d][k] # Untouched
        PROVE  FALSE
    <3>1. draft[c][k] # Untouched
      BY <2>2
    <3>2. draft[d][k] = Untouched /\ (holder[k] = c \/ k \notin issued)
      BY <2>2, <3>1 DEF WritesAreHeld
    <3>3. holder'[k] = d /\ k \in issued
      BY <2>2, <3>1, <3>2 DEF Fresh
    <3>. QED  BY <2>2, <3>2, <3>3, NullAssumption
  <2>3. ASSUME NEW c \in Caller, NEW e \in Caller, NEW k \in Digest, draft'[c][k] # Untouched,
               draft'[e][k] # Untouched
        PROVE  e = c
    <3>1. CASE c = d \/ e = d
      BY <2>2, <2>3, <3>1
    <3>2. CASE c # d /\ e # d
      BY <2>3, <3>2 DEF WritesAreHeld
    <3>. QED  BY <3>1, <3>2
  <2>. QED  BY <2>1, <2>3 DEF WritesAreHeld
<1>5. IdleHoldNothing'
  <2>. SUFFICES ASSUME NEW c \in Caller, calls'[c] = Nothing
                PROVE  Clear(c)' /\ \A k \in Digest : holder'[k] # c
    BY DEF IdleHoldNothing
  <2>1. CASE c = d
    BY <2>1
  <2>2. CASE c # d
    <3>1. Clear(c) /\ \A k \in Digest : holder[k] # c
      BY <2>2 DEF IdleHoldNothing
    <3>. QED  BY <2>2, <3>1, NullAssumption DEF Clear
  <2>. QED  BY <2>1, <2>2
<1>. QED  BY <1>1, <1>2, <1>3, <1>4, <1>5

LEMMA PlansRows ==
    ASSUME RowsOK, NEW d \in Caller, CallOK(d), Plans(d)
    PROVE  RowsOK'
<1>. USE DEF RowsOK
<1>1. calls'[d] \in CallRecord /\ Moves(d)
  BY PlansKeep, PlansMove
<1>2. /\ UNCHANGED <<table, draft, holder, issued, clock>>
      /\ \A c \in Caller \ {d} : calls'[c] = calls[c]
      /\ calls' \in [Caller -> CallRecord \cup {Nothing}]
  BY <1>1 DEF Moves, TypeOK
<1>3. calls'[d] # Nothing
  BY <1>1, NullAssumption
<1>. QED  BY <1>2, <1>3, RowsStay DEF TypeOK

LEMMA RollbackRows ==
    ASSUME RowsOK, NEW d \in Caller, Rollback(d)
    PROVE  RowsOK'
<1>. USE DEF RowsOK
<1>1. /\ UNCHANGED <<table, issued, clock>>
      /\ draft' \in [Caller -> [Digest -> SessionRow \cup CodeRow \cup {NoRow, Untouched}]]
      /\ holder' \in [Digest -> Caller \cup {Nobody}]
      /\ calls' \in [Caller -> CallRecord \cup {Nothing}]
  BY DEF Rollback, Clean, Released, TypeOK
<1>2. \A c \in Caller \ {d} : draft'[c] = draft[c] /\ calls'[c] = calls[c]
  BY DEF Rollback, Clean, TypeOK
<1>3. \A k \in Digest : draft'[d][k] = Untouched
  BY DEF Rollback, Clean, TypeOK
<1>4. \A k \in Digest : holder'[k] = IF holder[k] = d THEN Nobody ELSE holder[k]
  BY DEF Rollback, Released
<1>5. Clear(d)' /\ \A k \in Digest : holder'[k] # d
  BY <1>3, <1>4, NullAssumption DEF Clear
<1>6. /\ \A t \in Token : draft'[d][t] = Untouched
      /\ \A k \in Code : draft'[d][k] = Untouched
  BY <1>3 DEF Digest
<1>. QED  BY <1>1, <1>2, <1>3, <1>4, <1>5, <1>6, RowsStay

\* A statement names a row only in a call that renames.
LEMMA NamesIn ==
    ASSUME RowsOK, NEW d \in Caller, CallOK(d), calls[d] # Nothing, Todo(d) # {},
           calls[d].does \in {"nameSession", "nameCode"}
    PROVE  calls[d].set \in (IF calls[d].op = "rename" THEN Name ELSE Email)
<1>1. calls[d].op \in Op
  BY DEF RowsOK, TypeOK, CallRecord
<1>2. CASE calls[d].op = "pair"
  BY <1>2 DEF CallOK, PairOK, PurgeOK, Doing
<1>3. CASE calls[d].op = "refresh"
  BY <1>3 DEF CallOK, ChainOK, RefreshOK, EndsOnly, Doing
<1>4. CASE calls[d].op = "logout"
  BY <1>4 DEF CallOK, ChainOK, LogoutOK, EndsOnly, Doing
<1>5. CASE calls[d].op = "end"
  BY <1>5 DEF CallOK, EndOK, Doing
<1>6. CASE calls[d].op \in {"rename", "readdress"}
  BY <1>6 DEF CallOK, RewriteOK
<1>. QED  BY <1>1, <1>2, <1>3, <1>4, <1>5, <1>6 DEF Op

LEMMA VisitRows ==
    ASSUME RowsOK, NEW d \in Caller, CallOK(d), Visit(d)
    PROVE  RowsOK'
<1>. USE DEF RowsOK
<1>1. PICK k \in Digest : Visits(d, k)
  BY VisitIs
<1>2. /\ UNCHANGED <<table, issued, clock>> /\ calls'[d] \in CallRecord /\ k \in issued
      /\ k \in Todo(d) /\ calls[d] # Nothing /\ calls[d] \in CallRecord
  BY <1>1 DEF Visits, Continues
<1>3. PICK j \in NextRows(calls[d]) :
          /\ holder[j] \in {Nobody, d}
          /\ calls' = [calls EXCEPT ![d].todo = @ \ {j}]
          /\ IF View(d)[j] = NoRow
             THEN UNCHANGED rows
             ELSE /\ holder' = [holder EXCEPT ![j] = d]
                  /\ draft' = IF calls[d].does # "hold" /\ Applies(calls[d], View(d)[j])
                              THEN [draft EXCEPT ![d][j] = Result(calls[d], View(d)[j])]
                              ELSE draft
                  /\ UNCHANGED table
  BY DEF Visit
<1>4. AnyOK(d) /\ j \in Todo(d)
  BY <1>2, <1>3 DEF CallOK, NextRows, Todo
<1>5. j \in Digest /\ j \in issued /\ ~Wrote(d, j) /\ View(d)[j] = table[j]
  BY <1>4, ViewIs DEF AnyOK, TypeOK, Wrote
<1>6. calls' \in [Caller -> CallRecord \cup {Nothing}] /\ \A c \in Caller \ {d} : calls'[c] = calls[c]
  <2>1. \A c \in Caller \ {d} : calls'[c] = calls[c]
    BY <1>3 DEF TypeOK
  <2>2. calls' = [c \in Caller |-> calls'[c]]
    BY <1>3 DEF TypeOK
  <2>. QED  BY <1>2, <2>1, <2>2 DEF TypeOK
<1>7. calls'[d] # Nothing
  BY <1>2, NullAssumption
<1>8. CASE table[j] = NoRow
  <2>1. UNCHANGED <<draft, holder>>
    BY <1>3, <1>5, <1>8 DEF rows
  <2>. QED  BY <1>2, <1>6, <1>7, <2>1, RowsStay DEF TypeOK
<1>9. CASE table[j] # NoRow
  <2>1. PICK row : row = Result(calls[d], table[j])
    OBVIOUS
  <2>2. holder' = [holder EXCEPT ![j] = d]
    BY <1>3, <1>5, <1>9
  <2>3. draft' = draft \/ (calls[d].does # "hold" /\ draft' = [draft EXCEPT ![d][j] = row])
    BY <1>3, <1>5, <1>9, <2>1
  <2>4. holder' \in [Digest -> Caller \cup {Nobody}] /\ holder'[j] = d
        /\ \A i \in Digest : i # j => holder'[i] = holder[i]
    BY <1>5, <2>2 DEF TypeOK
  <2>5. calls[d].does \in {"nameSession", "nameCode"} =>
            calls[d].set \in (IF calls[d].op = "rename" THEN Name ELSE Email)
    BY <1>2, NamesIn
  <2>6. calls[d].does # "hold" =>
            (table[j] \in SessionRow => row \in SessionRow \cup {NoRow})
            /\ (table[j] \in CodeRow => row \in CodeRow \cup {NoRow})
    BY <1>2, <2>1, <2>5, ResultIs
  <2>7. (j \in Token => table[j] \in SessionRow) /\ (j \in Code => table[j] \in CodeRow)
    BY <1>9 DEF TypeOK
  <2>8. CASE draft' = draft
    <3>1. \A i \in Digest :
              \/ holder'[i] = holder[i]
              \/ holder[i] \in {Nobody, d} /\ holder'[i] = d /\ table[i] # NoRow
              \/ holder[i] = d /\ holder'[i] = Nobody /\ draft'[d][i] = Untouched
      BY <1>3, <1>9, <2>4
    <3>2. /\ draft' \in [Caller -> [Digest -> SessionRow \cup CodeRow \cup {NoRow, Untouched}]]
          /\ \A c \in Caller \ {d} : draft'[c] = draft[c]
          /\ \A t \in Token : draft'[d][t] \in SessionRow \cup {NoRow, Untouched}
          /\ \A t \in Code : draft'[d][t] \in CodeRow \cup {NoRow, Untouched}
          /\ \A i \in Digest : draft'[d][i] = draft[d][i]
      BY <2>8 DEF TypeOK
    <3>. QED  BY <1>2, <1>6, <1>7, <2>4, <3>1, <3>2, RowsStay
  <2>9. CASE calls[d].does # "hold" /\ draft' = [draft EXCEPT ![d][j] = row]
    <3>1. row \in SessionRow \cup CodeRow \cup {NoRow, Untouched}
      BY <1>5, <2>6, <2>7, <2>9 DEF Digest
    <3>2. draft' \in [Caller -> [Digest -> SessionRow \cup CodeRow \cup {NoRow, Untouched}]]
      BY <2>9, <3>1 DEF TypeOK
    <3>3. /\ \A c \in Caller \ {d} : draft'[c] = draft[c]
          /\ \A i \in Digest : i # j => draft'[d][i] = draft[d][i]
          /\ draft'[d][j] = row
      BY <1>5, <2>9 DEF TypeOK
    <3>4. \A t \in Token : draft'[d][t] \in SessionRow \cup {NoRow, Untouched}
      <4>. SUFFICES ASSUME NEW t \in Token  PROVE draft'[d][t] \in SessionRow \cup {NoRow, Untouched}
        OBVIOUS
      <4>1. CASE t = j
        BY <2>6, <2>7, <2>9, <3>3, <4>1
      <4>2. CASE t # j
        BY <3>3, <4>2 DEF TypeOK, Digest
      <4>. QED  BY <4>1, <4>2
    <3>5. \A t \in Code : draft'[d][t] \in CodeRow \cup {NoRow, Untouched}
      <4>. SUFFICES ASSUME NEW t \in Code  PROVE draft'[d][t] \in CodeRow \cup {NoRow, Untouched}
        OBVIOUS
      <4>1. CASE t = j
        BY <2>6, <2>7, <2>9, <3>3, <4>1
      <4>2. CASE t # j
        BY <3>3, <4>2 DEF TypeOK, Digest
      <4>. QED  BY <4>1, <4>2
    <3>6. \A i \in Digest :
              \/ holder'[i] = holder[i]
              \/ holder[i] \in {Nobody, d} /\ holder'[i] = d /\ table[i] # NoRow
              \/ holder[i] = d /\ holder'[i] = Nobody /\ draft'[d][i] = Untouched
      BY <1>3, <1>9, <2>4
    <3>7. \A i \in Digest : draft'[d][i] # Untouched =>
              draft'[d][i] = draft[d][i] \/ (holder'[i] = d /\ i \in issued) \/ Fresh(i)
      BY <1>5, <2>4, <3>3
    <3>. QED  BY <1>2, <1>6, <1>7, <2>4, <3>2, <3>3, <3>4, <3>5, <3>6, <3>7, RowsStay
  <2>. QED  BY <2>3, <2>8, <2>9
<1>. QED  BY <1>8, <1>9

LEMMA DrawsRows ==
    ASSUME RowsOK, NEW d \in Caller, NEW s, NEW row \in SessionRow, Draws(d, s, row),
           calls'[d] \in CallRecord, calls' = [c \in Caller |-> calls'[c]],
           draft' = [c \in Caller |-> [k \in Digest |-> draft'[c][k]]]
    PROVE  RowsOK'
<1>. USE DEF RowsOK
<1>1. /\ s \in Token /\ s \in Digest /\ Fresh(s) /\ UNCHANGED <<table, holder, issued, clock>>
      /\ draft'[d][s] = row
      /\ \A j \in Digest : j # s => draft'[d][j] = draft[d][j]
      /\ \A c \in Caller \ {d} : draft'[c] = draft[c] /\ calls'[c] = calls[c]
  BY DEF Draws, Digest
<1>2. calls' \in [Caller -> CallRecord \cup {Nothing}]
  <2>. QED  BY <1>1 DEF TypeOK
<1>3. draft' \in [Caller -> [Digest -> SessionRow \cup CodeRow \cup {NoRow, Untouched}]]
  <2>. SUFFICES ASSUME NEW c \in Caller, NEW k \in Digest
                PROVE  draft'[c][k] \in SessionRow \cup CodeRow \cup {NoRow, Untouched}
    OBVIOUS
  <2>. QED  BY <1>1, SMTT(20) DEF TypeOK
<1>4. \A t \in Token : draft'[d][t] \in SessionRow \cup {NoRow, Untouched}
  BY <1>1 DEF TypeOK, Digest
<1>5. \A k \in Code : draft'[d][k] \in CodeRow \cup {NoRow, Untouched}
  BY <1>1, DigestAssumption DEF TypeOK, Digest
<1>6. calls'[d] # Nothing
  BY NullAssumption
<1>7. holder' \in [Digest -> Caller \cup {Nobody}] /\ \A k \in Digest : holder'[k] = holder[k]
  BY <1>1 DEF TypeOK
<1>8. \A k \in Digest : draft'[d][k] = draft[d][k] \/ Fresh(k)
  BY <1>1
<1>. QED  BY <1>1, <1>2, <1>3, <1>4, <1>5, <1>6, <1>7, <1>8, RowsStay

LEMMA InsertsShape ==
    ASSUME TypeOK, NEW d \in Caller, Inserts(d)
    PROVE  /\ calls' = [c \in Caller |-> calls'[c]]
           /\ draft' = [c \in Caller |-> [k \in Digest |-> draft'[c][k]]]
<1>1. PICK s, row, next : s \in Token /\ Insert(d, s, row, next)
  <2>1. \E s, row, next : s \in Token /\ Insert(d, s, row, next)
    BY DEF Inserts, OpenSession, InsertSuccessor
  <2>. QED  BY <2>1
<1>2. s \in Digest
  BY <1>1 DEF Digest
<1>3. draft' = [draft EXCEPT ![d][s] = row]
  BY <1>1 DEF Insert
<1>4. calls' = [calls EXCEPT ![d].pc = next]
  BY <1>1 DEF Insert
<1>. QED  BY <1>2, <1>3, <1>4 DEF TypeOK

LEMMA InsertsKeep ==
    ASSUME RowsOK, NEW d \in Caller, CallOK(d), Inserts(d)
    PROVE  calls'[d] \in CallRecord /\ CallOK(d)' /\ RowsOK'
<1>. USE DEF RowsOK
<1>1. calls'[d] \in CallRecord /\ CallOK(d)'
  BY OpenSessionKeeps, InsertSuccessorKeeps DEF Inserts
<1>2. calls' = [c \in Caller |-> calls'[c]] /\ draft' = [c \in Caller |-> [k \in Digest |-> draft'[c][k]]]
  BY InsertsShape
<1>3. CASE OpenSession(d)
  <2>1. PICK k, call : k = calls[d].key /\ call = calls[d]
    OBVIOUS
  <2>2. call \in CallRecord /\ call.op = "pair" /\ k \in Code /\ CodeSpent(d) /\ call.email \in Email
    BY <1>3, <2>1, OpenSessionIs DEF CallOK, PairOK, TypeOK
  <2>3. PICK s \in Token : Draws(d, s,
          [subject |-> table[k].subject, name |-> table[k].name,
           email |-> call.email, expires |-> call.at + SessionTtl, revoked |-> FALSE,
           rotated |-> NotRotated, pred |-> NoToken, root |-> s, code |-> k])
    BY <1>3, <2>1, OpenSessionIs
  <2>4. PICK row : row = [subject |-> table[k].subject, name |-> table[k].name,
           email |-> call.email, expires |-> call.at + SessionTtl, revoked |-> FALSE,
           rotated |-> NotRotated, pred |-> NoToken, root |-> s, code |-> k]
    OBVIOUS
  <2>5. table[k] \in CodeRow
    BY <2>1, <2>2, SpentRow
  <2>6. call.at + SessionTtl \in Nat
    BY <2>2, ClockAssumption, TtlAssumption DEF CallRecord
  <2>7. row \in SessionRow
    BY <2>2, <2>4, <2>5, <2>6 DEF SessionRow, CodeRow
  <2>8. Draws(d, s, row)
    BY <2>3, <2>4
  <2>. QED  BY <1>1, <1>2, <2>7, <2>8, DrawsRows
<1>4. CASE InsertSuccessor(d)
  <2>1. PICK t, root, old : t = calls[d].key /\ root = calls[d].root /\ old = table[t]
    OBVIOUS
  <2>2. ChainOK(d) /\ Going(d)
    BY <1>4, InsertSuccessorIs DEF First, Again
  <2>3. t \in Token /\ root \in Token /\ old \in SessionRow
    BY <2>1, <2>2, HeldRow DEF ChainOK, Going, Digest
  <2>4. PICK s \in Token : Draws(d, s,
          [old EXCEPT !.pred = t, !.root = root, !.rotated = NotRotated, !.revoked = FALSE])
    BY <1>4, <2>1, InsertSuccessorIs
  <2>5. PICK row : row = [old EXCEPT !.pred = t, !.root = root, !.rotated = NotRotated, !.revoked = FALSE]
    OBVIOUS
  <2>6. PICK half : half = [old EXCEPT !.pred = t, !.root = root]
    OBVIOUS
  <2>7. half \in SessionRow /\ row = [half EXCEPT !.rotated = NotRotated, !.revoked = FALSE]
    BY <2>3, <2>5, <2>6 DEF SessionRow
  <2>8. row \in SessionRow
    BY <2>7 DEF SessionRow
  <2>9. Draws(d, s, row)
    BY <2>4, <2>5
  <2>. QED  BY <1>1, <1>2, <2>8, <2>9, DrawsRows
<1>. QED  BY <1>3, <1>4 DEF Inserts

\* The tokens that a commit which is no purge finds, it leaves: nothing but names, marks and
\* ends is written.
LEMMA ChangeStays ==
    ASSUME RowsOK, NEW d \in Caller, ChangeForm(d), Commits(d), NEW t \in Token \cap issued
    PROVE  IF table[t] = NoRow THEN table'[t] = NoRow
           ELSE table'[t] # NoRow /\ SameToken(table[t], table'[t])
<1>. USE DEF RowsOK
<1>1. t \in Digest /\ table'[t] = IF Wrote(d, t) THEN draft[d][t] ELSE table[t]
  BY CommitLeaves DEF Digest
<1>2. CASE Wrote(d, t)
  <2>1. holder[t] = d /\ SameToken(table[t], draft[d][t])
    BY <1>2 DEF ChangeForm
  <2>2. table[t] # NoRow
    BY <1>1, <2>1, HeldRow
  <2>. QED  BY <1>1, <1>2, <2>1, <2>2, NullAssumption DEF SameToken
<1>3. CASE ~Wrote(d, t)
  BY <1>1, <1>3, SameTokenIs
<1>. QED  BY <1>2, <1>3

LEMMA CommitChains ==
    ASSUME RowsOK, NEW d \in Caller, CallOK(d), Commits(d)
    PROVE  ChainsHold'
<1>. USE DEF RowsOK
<1>1. PurgeForm(d) \/ ChangeForm(d)
  BY CommitForms
<1>2. /\ \A k \in Digest : table'[k] = IF Wrote(d, k) THEN draft[d][k] ELSE table[k]
      /\ issued' = issued \cup {k \in Digest : table'[k] # NoRow}
      /\ clock' = clock
  BY CommitLeaves
<1>. SUFFICES ASSUME NEW t \in Token, table'[t] # NoRow,
                     NEW r, r = table'[t].root, NEW p, p = table'[t].pred
              PROVE  /\ r \in issued'
                     /\ table'[r] # NoRow =>
                           /\ table'[r].root = r
                           /\ table'[r].subject = table'[t].subject
                           /\ table'[r].expires = table'[t].expires
                           /\ table'[r].code = table'[t].code
                     /\ clock < table'[t].expires => table'[r] # NoRow
                     /\ p # t
                     /\ p # NoToken => p \in issued' /\ (table'[p] # NoRow => table'[p].root = r)
  BY <1>2 DEF ChainsHold
<1>3. t \in Digest
  BY DEF Digest
<1>4. CASE PurgeForm(d)
  <2>1. \A k \in Digest : Wrote(d, k) => table'[k] = NoRow /\ table[k].expires <= calls[d].at
    BY <1>2, <1>4 DEF PurgeForm, Deleted, Over
  <2>2. table'[t] = table[t] /\ table[t] # NoRow /\ table[t] \in SessionRow
    BY <1>2, <1>3, <2>1 DEF TypeOK
  <2>3. /\ r \in issued /\ r \in Digest
        /\ table[r] # NoRow =>
              /\ table[r].root = r
              /\ table[r].subject = table[t].subject
              /\ table[r].expires = table[t].expires
              /\ table[r].code = table[t].code
        /\ clock < table[t].expires => table[r] # NoRow
        /\ p # t
        /\ p # NoToken => p \in issued /\ p \in Digest /\ (table[p] # NoRow => table[p].root = r)
    <3>1. r \in Digest /\ issued \subseteq Digest
      BY <2>2 DEF SessionRow, Digest, TypeOK
    <3>. QED  BY <2>2, <3>1 DEF ChainsHold
  <2>4. \A k \in Digest : table'[k] # NoRow => table'[k] = table[k]
    BY <1>2, <2>1
  <2>5. clock < table[t].expires => table'[r] # NoRow
    <3>. SUFFICES ASSUME clock < table[t].expires, table'[r] = NoRow  PROVE FALSE
      OBVIOUS
    <3>1. table[r] # NoRow /\ table[r].expires = table[t].expires
      BY <2>3
    <3>2. table[t].expires <= calls[d].at
      BY <1>2, <2>1, <2>3, <3>1
    <3>3. calls[d].at <= clock /\ calls[d].at \in Int /\ clock \in Int /\ table[t].expires \in Int
      <4>1. calls[d] \in CallRecord
        BY CommitForms DEF TypeOK
      <4>. QED  BY <1>4, <2>2, <4>1, ClockAssumption DEF PurgeForm, CallRecord, SessionRow, TypeOK
    <3>. QED  BY <3>2, <3>3
  <2>. QED  BY <1>2, <2>2, <2>3, <2>4, <2>5
<1>5. CASE ChangeForm(d) /\ t \in issued
  <2>1. \A u \in Token \cap issued : IF table[u] = NoRow THEN table'[u] = NoRow
           ELSE table'[u] # NoRow /\ SameToken(table[u], table'[u])
    BY <1>5, ChangeStays
  <2>2. /\ table[t] # NoRow /\ table[t].root = r /\ table[t].pred = p
        /\ table'[t].subject = table[t].subject /\ table'[t].expires = table[t].expires
        /\ table'[t].code = table[t].code /\ table[t] \in SessionRow
    BY <1>5, <2>1 DEF SameToken, TypeOK
  <2>3. /\ r \in Token \cap issued
        /\ table[r] # NoRow =>
              /\ table[r].root = r
              /\ table[r].subject = table[t].subject
              /\ table[r].expires = table[t].expires
              /\ table[r].code = table[t].code
        /\ clock < table[t].expires => table[r] # NoRow
        /\ p # t
        /\ p # NoToken => p \in Token \cap issued /\ (table[p] # NoRow => table[p].root = r)
    BY <2>2 DEF ChainsHold, SessionRow
  <2>4. /\ table'[r] # NoRow => table[r] # NoRow /\ SameToken(table[r], table'[r])
        /\ table[r] # NoRow => table'[r] # NoRow
    BY <2>1, <2>3
  <2>5. p # NoToken /\ table'[p] # NoRow => table[p] # NoRow /\ SameToken(table[p], table'[p])
    BY <2>1, <2>3
  <2>. QED  BY <1>2, <2>2, <2>3, <2>4, <2>5 DEF SameToken
<1>6. CASE ChangeForm(d) /\ t \notin issued
  <2>1. Wrote(d, t) /\ table'[t] = draft[d][t] /\ t \in issued'
    BY <1>2, <1>3, <1>6 DEF RowsAreIssued
  <2>2. NewHead(d, t, table'[t]) \/ NewLink(d, t, table'[t])
    BY <1>6, <2>1 DEF ChangeForm
  <2>3. CASE NewHead(d, t, table'[t])
    BY <1>3, <2>1, <2>3, NullAssumption DEF NewHead
  <2>4. CASE NewLink(d, t, table'[t])
    <3>1. /\ r \in Token /\ r \in Digest /\ holder[r] = d /\ table[r].root = r
          /\ p \in Token /\ p \in Digest /\ holder[p] = d /\ table[p].root = r
          /\ table'[t].subject = table[r].subject /\ table'[t].expires = table[r].expires
          /\ table'[t].code = table[r].code
      BY <2>4 DEF NewLink, SessionRow, Digest
    <3>2. r \in issued /\ p \in issued /\ table[r] # NoRow /\ table[p] # NoRow
      BY <3>1, HeldRow DEF RowsAreIssued
    <3>3. table'[r] # NoRow /\ SameToken(table[r], table'[r])
          /\ table'[p] # NoRow /\ SameToken(table[p], table'[p])
      BY <1>6, <3>1, <3>2, ChangeStays
    <3>. QED  BY <1>2, <1>6, <3>1, <3>2, <3>3 DEF SameToken
  <2>. QED  BY <2>2, <2>3, <2>4
<1>. QED  BY <1>1, <1>4, <1>5, <1>6

LEMMA CommitRows ==
    ASSUME RowsOK, NEW d \in Caller, CallOK(d), Commits(d)
    PROVE  RowsOK'
<1>. USE DEF RowsOK
<1>1. PICK call : CommitThen(d, call)
  BY DEF Commits, PurgedCodes, PurgedSessions, Commit
<1>2. /\ \A k \in Digest : table'[k] = IF Wrote(d, k) THEN draft[d][k] ELSE table[k]
      /\ table' = [k \in Digest |-> table'[k]]
      /\ issued' = issued \cup {k \in Digest : table'[k] # NoRow}
      /\ clock' = clock
      /\ \A k \in Digest : draft'[d][k] = Untouched
      /\ \A k \in Digest : holder'[k] = IF holder[k] = d THEN Nobody ELSE holder[k]
      /\ \A c \in Caller \ {d} : draft'[c] = draft[c] /\ calls'[c] = calls[c]
  BY CommitLeaves
<1>3. calls'[d] \in CallRecord \cup {Nothing}
  BY CommitsKeep
<1>4. TypeOK'
  <2>1. calls' \in [Caller -> CallRecord \cup {Nothing}]
    <3>1. calls' = [c \in Caller |-> calls'[c]]
      BY <1>1 DEF CommitThen, TypeOK
    <3>. QED  BY <1>2, <1>3, <3>1 DEF TypeOK
  <2>2. \A t \in Token : table'[t] \in SessionRow \cup {NoRow}
    BY <1>2 DEF TypeOK, Digest, Wrote
  <2>3. \A k \in Code : table'[k] \in CodeRow \cup {NoRow}
    BY <1>2 DEF TypeOK, Digest, Wrote
  <2>4. draft' \in [Caller -> [Digest -> SessionRow \cup CodeRow \cup {NoRow, Untouched}]]
    BY <1>1 DEF CommitThen, Clean, TypeOK
  <2>5. holder' \in [Digest -> Caller \cup {Nobody}]
    BY <1>1 DEF CommitThen, Released, TypeOK
  <2>6. \A c \in Caller, t \in Token : draft'[c][t] \in SessionRow \cup {NoRow, Untouched}
    BY <1>2 DEF TypeOK, Digest
  <2>7. \A c \in Caller, k \in Code : draft'[c][k] \in CodeRow \cup {NoRow, Untouched}
    BY <1>2 DEF TypeOK, Digest
  <2>. QED  BY <1>2, <2>1, <2>2, <2>3, <2>4, <2>5, <2>6, <2>7 DEF TypeOK
<1>5. RowsAreIssued'
  BY <1>2 DEF RowsAreIssued
<1>6. \A k \in Digest : Wrote(d, k) => \A c \in Caller \ {d} : ~Wrote(c, k) /\ holder[k] # c
  BY WritesApart
<1>7. HeldAreThere'
  BY <1>2, <1>6 DEF HeldAreThere, TypeOK
<1>8. ChainsHold'
  BY CommitChains
<1>9. WritesAreHeld'
  <2>. SUFFICES ASSUME NEW c \in Caller, NEW k \in Digest, draft'[c][k] # Untouched
                PROVE  /\ holder'[k] = c \/ k \notin issued'
                       /\ \A e \in Caller : draft'[e][k] # Untouched => e = c
    BY DEF WritesAreHeld
  <2>1. c # d /\ draft[c][k] # Untouched
    BY <1>2
  <2>2. /\ holder[k] = c \/ k \notin issued
        /\ \A e \in Caller : draft[e][k] # Untouched => e = c
    BY <2>1 DEF WritesAreHeld
  <2>3. k \notin issued => k \notin issued'
    BY <1>2, <2>1, <2>2 DEF RowsAreIssued, Wrote
  <2>4. \A e \in Caller : draft'[e][k] # Untouched => draft[e][k] # Untouched
    BY <1>2
  <2>. QED  BY <1>2, <2>1, <2>2, <2>3, <2>4
<1>10. IdleHoldNothing'
  <2>. SUFFICES ASSUME NEW c \in Caller, calls'[c] = Nothing
                PROVE  Clear(c)' /\ \A k \in Digest : holder'[k] # c
    BY DEF IdleHoldNothing
  <2>1. CASE c = d
    BY <1>2, <2>1, NullAssumption DEF Clear
  <2>2. CASE c # d
    BY <1>2, <2>2, NullAssumption DEF Clear, IdleHoldNothing
  <2>. QED  BY <2>1, <2>2
<1>. QED  BY <1>4, <1>5, <1>7, <1>8, <1>9, <1>10

LEMMA CreateRows ==
    ASSUME RowsOK, NEW k \in Code, NEW p \in Person, NEW n \in Name, NEW e \in Email,
           CreatePairing(k, p, n, e)
    PROVE  RowsOK'
<1>. USE DEF RowsOK
<1>1. k \in Digest /\ k \notin issued /\ k \notin Token /\ table[k] = NoRow
      /\ \A d \in Caller : draft[d][k] = Untouched
  BY DigestAssumption DEF CreatePairing, Fresh, RowsAreIssued, Digest
<1>2. PICK row : row = [subject |-> p, name |-> n, email |-> e, expires |-> clock + PairingTtl,
                        redeemed |-> FALSE]
  OBVIOUS
<1>3. clock + PairingTtl \in Nat
  BY ClockAssumption, TtlAssumption DEF TypeOK
<1>4. row \in CodeRow
  BY <1>2, <1>3 DEF CodeRow
<1>5. /\ table' = [table EXCEPT ![k] = row]
      /\ issued' = issued \cup {k} /\ UNCHANGED <<draft, holder, calls, clock>>
  BY <1>2 DEF CreatePairing
<1>6. /\ \A j \in Digest : j # k => table'[j] = table[j]
      /\ table'[k] = row /\ table' = [j \in Digest |-> table'[j]]
  BY <1>1, <1>5 DEF TypeOK
<1>7. TypeOK'
  <2>1. \A t \in Token : table'[t] \in SessionRow \cup {NoRow}
    BY <1>1, <1>6 DEF TypeOK, Digest
  <2>2. \A j \in Code : table'[j] \in CodeRow \cup {NoRow}
    BY <1>1, <1>4, <1>6 DEF TypeOK, Digest
  <2>. QED  BY <1>1, <1>5, <1>6, <2>1, <2>2 DEF TypeOK
<1>8. RowsAreIssued' /\ HeldAreThere'
  BY <1>1, <1>4, <1>5, <1>6, NullAssumption DEF RowsAreIssued, HeldAreThere
<1>9. ChainsHold'
  <2>1. \A t \in Token : table'[t] = table[t]
    BY <1>1, <1>6 DEF Digest
  <2>2. \A t \in Token : table[t] # NoRow =>
            table[t].root \in Token /\ table[t].pred \in Token \cup {NoToken}
    BY DEF TypeOK, SessionRow
  <2>. QED  BY <1>5, <2>1, <2>2 DEF ChainsHold
<1>10. WritesAreHeld'
  BY <1>1, <1>5 DEF WritesAreHeld
<1>11. IdleHoldNothing'
  BY <1>5 DEF IdleHoldNothing, Clear
<1>. QED  BY <1>7, <1>8, <1>9, <1>10, <1>11

LEMMA TickRows ==
    ASSUME RowsOK, Tick
    PROVE  RowsOK'
<1>. USE DEF RowsOK
<1>1. UNCHANGED <<table, draft, holder, calls, issued>> /\ clock' = clock + 1 /\ clock' \in 0..MaxClock
      /\ clock \in Int
  BY ClockAssumption DEF Tick, rows, TypeOK
<1>2. TypeOK'
  BY <1>1 DEF TypeOK
<1>3. ChainsHold'
  <2>1. \A t \in Token : table[t] # NoRow => table[t].expires \in Int
    BY DEF TypeOK, SessionRow
  <2>. QED  BY <1>1, <2>1 DEF ChainsHold
<1>. QED  BY <1>1, <1>2, <1>3 DEF RowsAreIssued, HeldAreThere, WritesAreHeld, IdleHoldNothing, Clear

-----------------------------------------------------------------------------
(* A call starts, or goes on.                                               *)

\* What a call is about when it starts.
Starts(c) ==
    /\ calls[c] = Nothing
    /\ \/ calls'[c].op = "pair" /\ calls'[c].pc # "sessionsPurged"
       \/ \E t \in Token :
             /\ calls'[c].op \in {"refresh", "logout"} /\ calls'[c].pc # "sessionsPurged"
             /\ table[t] # NoRow /\ calls'[c].key = t /\ calls'[c].root = table[t].root
             /\ calls'[c].at = clock
       \/ \E who \in Scope :
             /\ calls'[c].op = "end" /\ calls'[c].pc # "sessionsPurged" /\ calls'[c].who = who
             /\ calls'[c].chains = ChainsOf(who) /\ calls'[c].codes = CodesOf(who)
       \/ \E who \in Scope :
             /\ calls'[c].pc # "sessionsPurged" /\ calls'[c].who = who /\ calls'[c].at = clock
             /\ calls'[c].chains = ChainsOf(who) /\ calls'[c].codes = CodesOf(who)
             /\ \/ calls'[c].op = "rename" /\ calls'[c].set \in Name
                \/ calls'[c].op = "readdress" /\ calls'[c].set \in Email

SameCall(r, call) ==
    /\ r.op = call.op /\ r.at = call.at /\ r.key = call.key /\ r.root = call.root
    /\ r.who = call.who /\ r.chains = call.chains /\ r.codes = call.codes /\ r.set = call.set

GoesOn(c) ==
    /\ calls[c] # Nothing /\ SameCall(calls'[c], calls[c])
    /\ calls'[c].pc = "sessionsPurged" => PurgeSessions(c)

LEMMA PairPlansAre ==
    ASSUME RowsOK, NEW c \in Caller, CallOK(c), PairPlans(c)
    PROVE  Starts(c) \/ GoesOn(c)
<1>. USE DEF RowsOK
<1>1. CASE \E k \in Code \cap issued : PairCalled(c, k)
  <2>1. PICK k \in Code \cap issued : PairCalled(c, k)
    BY <1>1
  <2>2. PICK first, call, r : first = Call("pair") /\ call = [first EXCEPT !.key = k] /\ r = calls'[c]
    OBVIOUS
  <2>3. first \in CallRecord /\ first.op = "pair"
    BY <2>2, CallIs DEF Op
  <2>4. call \in CallRecord /\ call.op = "pair"
    BY <2>2, <2>3 DEF CallRecord, Digest
  <2>5. r = Running(c, call, "delete", Code, "codesPurged") /\ calls[c] = Nothing
    BY <2>1, <2>2 DEF PairCalled, Free, TypeOK
  <2>6. r.pc = "codesPurged" /\ Continues(r, call)
    BY <2>4, <2>5, RunningIs DEF Does, Place
  <2>. QED  BY <2>2, <2>4, <2>5, <2>6 DEF Starts, Continues
<1>2. ASSUME calls[c] # Nothing, NEW next \in Place \ {"sessionsPurged"}, calls'[c] = [calls[c] EXCEPT !.pc = next]
      PROVE  GoesOn(c)
  BY <1>2, GoesTo DEF GoesOn, SameCall, Continues, TypeOK
<1>3. CASE PurgeSessions(c)
  <2>1. Continues(calls'[c], calls[c])
    BY <1>3, RunIs DEF PurgeSessions, At, Does, Place
  <2>. QED  BY <1>3, <2>1 DEF GoesOn, SameCall, Continues, PurgeSessions, At
<1>4. CASE ReadCode(c)
  <2>1. PICK call, row, e : call = calls[c] /\ row = table[call.key] /\ e = row.email
    OBVIOUS
  <2>2. call # Nothing /\ call \in CallRecord
        /\ calls'[c] = IF row = NoRow THEN [call EXCEPT !.pc = "commit"]
                       ELSE [call EXCEPT !.pc = "spendCode", !.email = e]
    BY <1>4, <2>1 DEF ReadCode, At, TypeOK
  <2>3. CASE row = NoRow
    BY <1>2, <2>1, <2>2, <2>3 DEF Place
  <2>4. CASE row # NoRow
    <3>1. calls'[c] = [call EXCEPT !.pc = "spendCode", !.email = e]
      BY <2>2, <2>4
    <3>2. SameCall(calls'[c], call) /\ calls'[c].pc = "spendCode"
      BY <2>2, <3>1 DEF SameCall, CallRecord
    <3>. QED  BY <2>1, <2>2, <3>2 DEF GoesOn
  <2>. QED  BY <2>3, <2>4
<1>5. CASE SpendCode(c)
  <2>1. Continues(calls'[c], calls[c]) /\ calls'[c].pc = "openSession"
    BY <1>5, RunIs DEF SpendCode, At, Does, Place
  <2>. QED  BY <1>5, <2>1 DEF GoesOn, SameCall, Continues, SpendCode, At
<1>6. CASE NotSpent(c)
  BY <1>2, <1>6 DEF NotSpent, At, Place, TypeOK
<1>. QED  BY <1>1, <1>3, <1>4, <1>5, <1>6 DEF PairPlans

LEMMA ChainPlansAre ==
    ASSUME RowsOK, NEW c \in Caller, CallOK(c), ChainPlans(c)
    PROVE  Starts(c) \/ GoesOn(c)
<1>. USE DEF RowsOK
<1>1. CASE \E t \in Token, op \in {"refresh", "logout"} : ChainCalled(c, op, t)
  <2>1. PICK t \in Token, op \in {"refresh", "logout"} : ChainCalled(c, op, t)
    BY <1>1
  <2>2. PICK first, root : first = Call(op) /\ root = table[t].root
    OBVIOUS
  <2>3. first \in CallRecord /\ first.op = op /\ first.at = clock
    BY <2>2, CallIs DEF Op
  <2>4. calls'[c] = [first EXCEPT !.key = t, !.root = root, !.pc = "holdChain"]
        /\ calls[c] = Nothing /\ table[t] # NoRow
    BY <2>1, <2>2 DEF ChainCalled, Free, TypeOK
  <2>5. calls'[c].op = op /\ calls'[c].at = clock /\ calls'[c].key = t /\ calls'[c].root = root
        /\ calls'[c].pc = "holdChain"
    BY <2>3, <2>4 DEF CallRecord
  <2>. QED  BY <2>2, <2>4, <2>5 DEF Starts
<1>2. ASSUME calls[c] # Nothing, NEW next \in Place \ {"sessionsPurged"}, calls'[c] = [calls[c] EXCEPT !.pc = next]
      PROVE  GoesOn(c)
  BY <1>2, GoesTo DEF GoesOn, SameCall, Continues, TypeOK
<1>3. ASSUME calls[c] # Nothing, NEW next \in Place \ {"sessionsPurged"}, NEW does \in Does, NEW found,
             Run(c, does, found, next)
      PROVE  GoesOn(c)
  BY <1>3, RunIs DEF GoesOn, SameCall, Continues
<1>4. ASSUME calls[c] # Nothing, NEW next \in Place \ {"sessionsPurged"}, NEW keep \in Token \cup {NoToken},
             Sweep(c, keep, next)
      PROVE  GoesOn(c)
  BY <1>4, SweepIs DEF GoesOn, SameCall, Continues
<1>5. CASE DecideGone(c) \/ DecideFirst(c)
  BY <1>2, <1>5 DEF DecideGone, DecideFirst, At, Place, TypeOK
<1>6. CASE DecideEnd(c) \/ RevokeChain(c)
  BY <1>4, <1>6 DEF DecideEnd, RevokeChain, At, Place
<1>7. CASE DecideAgain(c)
  <2>1. calls[c] # Nothing /\ calls[c].key \in Token
    BY <1>7, PlaceOf DEF DecideAgain, At, CallOK, ChainOK
  <2>. QED  BY <1>4, <1>7, <2>1 DEF DecideAgain, Place
<1>8. CASE HoldChain(c)
  BY <1>3, <1>8 DEF HoldChain, At, Place, Does
<1>9. CASE SweepHead(c)
  BY <1>3, <1>9 DEF SweepHead, At, Place, Does
<1>10. CASE MarkRotated(c) \/ Retire(c) \/ RevokeToken(c)
  BY <1>3, <1>10 DEF MarkRotated, Retire, RevokeToken, At, Place, Does
<1>. QED  BY <1>1, <1>5, <1>6, <1>7, <1>8, <1>9, <1>10 DEF ChainPlans

LEMMA ScopePlansAre ==
    ASSUME RowsOK, NEW c \in Caller, CallOK(c), ScopePlans(c)
    PROVE  Starts(c) \/ GoesOn(c)
<1>. USE DEF RowsOK
<1>1. CASE \E who \in Scope : EndCalled(c, who)
  <2>1. PICK who \in Scope : EndCalled(c, who)
    BY <1>1
  <2>2. PICK call, r : call = Scoped("end", who) /\ r = calls'[c]
    OBVIOUS
  <2>3. call \in CallRecord /\ call.op = "end" /\ call.who = who
        /\ call.chains = ChainsOf(who) /\ call.codes = CodesOf(who)
    BY <2>2, ScopedCall DEF Op
  <2>4. r = Running(c, call, "hold", SessionsOf(who), "endSessions") /\ calls[c] = Nothing
    BY <2>1, <2>2 DEF EndCalled, Free, TypeOK, Scoped, ChainsOf
  <2>5. r.pc = "endSessions" /\ Continues(r, call)
    BY <2>3, <2>4, RunningIs DEF Does, Place
  <2>. QED  BY <2>2, <2>3, <2>4, <2>5 DEF Starts, Continues
<1>2. ASSUME NEW op \in {"rename", "readdress"}, NEW who \in Scope, NEW set \in Name \cup Email,
             op = "rename" => set \in Name, op = "readdress" => set \in Email,
             RewriteCalled(c, op, who, set)
      PROVE  Starts(c)
  <2>1. PICK call, r : call = Writing(op, who, set) /\ r = calls'[c]
    OBVIOUS
  <2>2. op \in Op
    BY DEF Op
  <2>3. call \in CallRecord /\ call.op = op /\ call.who = who /\ call.at = clock /\ call.set = set
        /\ call.chains = ChainsOf(who) /\ call.codes = CodesOf(who)
    BY <2>1, <2>2, WritingCall
  <2>4. r = Running(c, call, "hold", CodesOf(who), "holdSessions") /\ calls[c] = Nothing
    BY <1>2, <2>1 DEF RewriteCalled, Free, TypeOK, Writing, ChainsOf
  <2>5. r.pc = "holdSessions" /\ Continues(r, call)
    BY <2>3, <2>4, RunningIs DEF Does, Place
  <2>. QED  BY <1>2, <2>1, <2>3, <2>4, <2>5 DEF Starts, Continues
<1>3. ASSUME calls[c] # Nothing, NEW next \in Place \ {"sessionsPurged"}, NEW does \in Does, NEW found,
             Run(c, does, found, next)
      PROVE  GoesOn(c)
  BY <1>3, RunIs DEF GoesOn, SameCall, Continues
<1>4. CASE EndSessions(c) \/ EndCodes(c)
  BY <1>3, <1>4 DEF EndSessions, EndCodes, At, Place, Does
<1>5. CASE HoldSessions(c) \/ RewriteSessions(c) \/ RewriteCodes(c)
  BY <1>3, <1>5 DEF HoldSessions, RewriteSessions, RewriteCodes, At, Place, Does
<1>. QED  BY <1>1, <1>2, <1>4, <1>5 DEF ScopePlans

LEMMA PlansAre ==
    ASSUME RowsOK, NEW c \in Caller, CallOK(c), Plans(c)
    PROVE  Starts(c) \/ GoesOn(c)
BY PairPlansAre, ChainPlansAre, ScopePlansAre DEF Plans

\* What the other steps of a caller leave of its call.
LEMMA QuietAre ==
    ASSUME RowsOK, NEW c \in Caller, CallOK(c), Visit(c) \/ Inserts(c)
    PROVE  calls[c] # Nothing /\ SameCall(calls'[c], calls[c]) /\ (Inserts(c) => calls'[c].pc # "sessionsPurged")
<1>1. CASE Visit(c)
  <2>1. PICK k \in Digest : Visits(c, k)
    BY <1>1, VisitIs
  <2>2. ~Inserts(c) \/ calls'[c].pc # "sessionsPurged"
    BY OpenSessionIs, InsertSuccessorIs DEF Inserts
  <2>. QED  BY <2>1, <2>2 DEF Visits, Continues, SameCall
<1>2. CASE Inserts(c)
  BY <1>2, OpenSessionIs, InsertSuccessorIs DEF Inserts, Draws, Continues, SameCall
<1>. QED  BY <1>1, <1>2

-----------------------------------------------------------------------------
(* A purge that takes the head of a refresh takes its token.                *)

LEMMA PurgeTakesBoth ==
    ASSUME RowsOK, NEW p \in Caller, CallOK(p), PurgeSessions(p), NEW t \in Token, NEW r \in Token,
           table[t] # NoRow, table[t].root = r, Reached(p, r)'
    PROVE  Reached(p, t)'
<1>. USE DEF RowsOK
<1>1. calls[p] # Nothing /\ calls[p].op = "pair" /\ Clear(p) /\ calls[p].at <= clock
  BY PlaceOf DEF PurgeSessions, At, CallOK, PairOK, AnyOK
<1>2. Finds(calls'[p], p, "delete", Token) /\ calls'[p].at = calls[p].at
  BY <1>1, RunIs DEF PurgeSessions, Does, Place, Continues
<1>3. \A k \in Digest : draft'[p][k] = Untouched /\ draft[p][k] = Untouched
  BY <1>1, PlansMove DEF Plans, PairPlans, Moves, Clear
<1>4. r \in calls'[p].todo /\ r \in Digest /\ t \in Digest
  BY <1>3 DEF Reached, Wrote, Todo, Digest
<1>5. View(p)[r] = table[r] /\ View(p)[t] = table[t]
  BY <1>3, <1>4, ViewIs
<1>6. table[r] # NoRow /\ table[r].expires <= calls[p].at /\ table[t].expires = table[r].expires
  BY <1>2, <1>4, <1>5 DEF Finds, Present, ChainsHold
<1>7. t \in calls'[p].todo
  BY <1>2, <1>4, <1>5, <1>6 DEF Finds, Present
<1>. QED  BY <1>7 DEF Reached, Todo

LEMMA VisitTakesBoth ==
    ASSUME RowsOK, NEW p \in Caller, CallOK(p), Visit(p), calls'[p].pc = "sessionsPurged",
           NEW t \in Token, NEW r \in Token, table[t] # NoRow, Reached(p, r)',
           Reached(p, r) => Reached(p, t)
    PROVE  Reached(p, t)'
<1>. USE DEF RowsOK
<1>1. PICK k \in Digest : Visits(p, k)
  BY VisitIs
<1>2. calls[p] # Nothing /\ calls[p].pc = "sessionsPurged" /\ k \in Todo(p) /\ t \in Digest /\ r \in Digest
  BY <1>1 DEF Visits, Digest
<1>3. PurgeOK(p, Token)
  BY <1>2, PlaceOf DEF CallOK, PairOK
<1>4. Reached(p, t)
  BY <1>1, <1>2, VisitStays
<1>5. CASE t # k
  BY <1>1, <1>2, <1>4, <1>5, VisitStays
<1>6. CASE t = k
  <2>1. Doing(p, "delete") /\ table[k].expires <= calls[p].at
    BY <1>2, <1>3, <1>6 DEF PurgeOK
  <2>. QED  BY <1>1, <1>6, <2>1, VisitedRow DEF Reached
<1>. QED  BY <1>5, <1>6

\* A refresh that starts finds its token alive, so no purge is about to take its head.
LEMMA StartsApart ==
    ASSUME RowsOK, NEW p \in Caller, CallOK(p), calls[p] # Nothing, calls[p].pc = "sessionsPurged",
           NEW t \in Token, NEW r, table[t] # NoRow, table[t].root = r, clock < table[t].expires,
           Reached(p, r)
    PROVE  FALSE
<1>. USE DEF RowsOK
<1>1. PurgeOK(p, Token) /\ calls[p].at <= clock /\ calls[p] \in CallRecord
  BY PlaceOf DEF CallOK, PairOK, AnyOK
<1>2. table[t] \in SessionRow /\ r \in Token /\ r \in Digest
  BY DEF TypeOK, SessionRow, Digest
<1>3. table[r] # NoRow /\ table[r].expires = table[t].expires
  BY DEF ChainsHold
<1>4. table[r].expires <= calls[p].at
  BY <1>1, <1>2, <1>3 DEF PurgeOK, Reached, Deleted
<1>5. calls[p].at \in Int /\ clock \in Int /\ table[t].expires \in Int
  BY <1>1, <1>2, ClockAssumption DEF CallRecord, SessionRow, TypeOK
<1>. QED  BY <1>1, <1>3, <1>4, <1>5

LEMMA PurgesStayWhole ==
    ASSUME RowsOK, CallsOK, PurgesAreWhole, NEW d \in Caller, CallOK(d)', Quiet(d) \/ Commits(d)
    PROVE  PurgesAreWhole'
<1>. USE DEF RowsOK
<1>1. \A c \in Caller : CallOK(c)
  BY DEF CallsOK
<1>2. ASSUME NEW c \in Caller, c # d
      PROVE  Env(c)
  BY <1>1, <1>2, OthersEnv
<1>. SUFFICES ASSUME NEW p \in Caller, NEW c \in Caller,
                     calls'[p] # Nothing, calls'[p].pc = "sessionsPurged",
                     calls'[c] # Nothing, calls'[c].op = "refresh",
                     NEW t, t = calls'[c].key, NEW r, r = calls'[c].root,
                     table'[t] # NoRow, calls'[c].at < table'[t].expires,
                     Reached(p, r)'
              PROVE  Reached(p, t)'
  BY DEF PurgesAreWhole
<1>3. CASE p # d /\ c # d
  <2>1. Env(p) /\ Env(c) /\ calls[c] = calls'[c] /\ calls[p] = calls'[p]
    BY <1>2, <1>3 DEF Env
  <2>2. t \in Token \cap issued /\ r \in Token
    BY <1>1, <2>1 DEF CallOK, ChainOK
  <2>3. table[t] # NoRow /\ table[t].expires = table'[t].expires
    BY <2>1, <2>2 DEF Env, SameToken
  <2>4. Reached(p, r) <=> Reached(p, r)'
    BY <2>1, <2>2, EnvStays DEF Digest
  <2>5. Reached(p, t) <=> Reached(p, t)'
    BY <2>1, <2>2, EnvStays DEF Digest
  <2>. QED  BY <2>1, <2>3, <2>4, <2>5 DEF PurgesAreWhole
<1>4. CASE p = d
  <2>1. calls'[d].op = "pair"
    <3>1. calls'[d].op = "refresh" => calls'[d].pc # "sessionsPurged"
      BY <1>4 DEF CallOK, ChainOK, RefreshOK
    <3>2. calls'[d].op = "logout" => calls'[d].pc # "sessionsPurged"
      BY <1>4 DEF CallOK, ChainOK, LogoutOK
    <3>3. calls'[d].op = "end" => calls'[d].pc # "sessionsPurged"
      BY <1>4 DEF CallOK, EndOK
    <3>4. calls'[d].op \in {"rename", "readdress"} => calls'[d].pc # "sessionsPurged"
      BY <1>4 DEF CallOK, RewriteOK
    <3>5. calls'[d].op \in Op
      <4>1. calls'[d] \in CallRecord \cup {Nothing}
        <5>1. CASE Plans(d) \/ Visit(d) \/ Inserts(d)
          BY <1>1, <5>1, PlansKeep, VisitKeeps, InsertsKeep
        <5>2. CASE Rollback(d)
          BY <5>2 DEF Rollback, TypeOK
        <5>3. CASE Commits(d)
          BY <1>1, <5>3, CommitsKeep
        <5>. QED  BY <5>1, <5>2, <5>3 DEF Quiet
      <4>. QED  BY <1>4, <4>1 DEF CallRecord
    <3>. QED  BY <1>4, <3>1, <3>2, <3>3, <3>4, <3>5 DEF Op
  <2>2. c # d
    BY <2>1
  <2>3. Env(c) /\ calls[c] = calls'[c]
    BY <1>2, <2>2 DEF Env
  <2>4. t \in Token \cap issued /\ r \in Token /\ (table[t] # NoRow => table[t].root = r)
    BY <1>1, <2>3 DEF CallOK, ChainOK
  <2>5. table[t] # NoRow /\ table[t].expires = table'[t].expires
    BY <2>3, <2>4 DEF Env, SameToken
  <2>6. CASE Plans(d)
    <3>1. Starts(d) \/ GoesOn(d)
      BY <1>1, <2>6, PlansAre
    <3>2. ~Starts(d)
      BY <1>4 DEF Starts
    <3>3. PurgeSessions(d)
      BY <1>4, <3>1, <3>2 DEF GoesOn
    <3>. QED  BY <1>1, <1>4, <2>4, <2>5, <3>3, PurgeTakesBoth
  <2>7. CASE Visit(d)
    <3>1. PICK k \in Digest : Visits(d, k)
      BY <1>1, <2>7, VisitIs
    <3>2. calls[d] # Nothing /\ calls[d].pc = "sessionsPurged"
      BY <1>4, <3>1 DEF Visits
    <3>3. Reached(d, r) => Reached(d, t)
      BY <2>3, <2>5, <3>2 DEF PurgesAreWhole
    <3>. QED  BY <1>1, <1>4, <2>4, <2>5, <2>7, <3>3, VisitTakesBoth
  <2>8. CASE Inserts(d)
    BY <1>1, <1>4, <2>8, QuietAre
  <2>9. CASE Rollback(d)
    BY <1>4, <2>9 DEF Rollback, TypeOK
  <2>10. CASE Commits(d)
    <3>1. \E next \in {"purgeSessions", "readCode"} :
            calls'[d] = [calls[d] EXCEPT !.pc = next] /\ calls[d] # Nothing
      BY <1>4, <2>10 DEF Commits, PurgedCodes, PurgedSessions, Commit, CommitThen, At, TypeOK
    <3>2. calls[d] # Nothing => calls[d] \in CallRecord
      BY DEF TypeOK
    <3>. QED  BY <1>4, <3>1, <3>2 DEF CallRecord
  <2>. QED  BY <2>6, <2>7, <2>8, <2>9, <2>10 DEF Quiet
<1>5. CASE c = d /\ p # d
  <2>1. Env(p) /\ calls[p] = calls'[p]
    BY <1>2, <1>5 DEF Env
  <2>2. t \in Token \cap issued' /\ r \in Token \cap issued'
    BY <1>5 DEF CallOK, ChainOK
  <2>3. (Reached(p, r) <=> Reached(p, r)') /\ (Reached(p, t) <=> Reached(p, t)')
    BY <2>1, <2>2, EnvStays DEF Digest
  <2>4. ASSUME calls[d] # Nothing, SameCall(calls'[d], calls[d]), table' = table
        PROVE  Reached(p, t)
    BY <1>5, <2>1, <2>3, <2>4 DEF PurgesAreWhole, SameCall
  <2>5. CASE Plans(d)
    <3>1. table' = table
      BY <2>5, PlansMove DEF Moves
    <3>2. Starts(d) \/ GoesOn(d)
      BY <1>1, <2>5, PlansAre
    <3>3. CASE GoesOn(d)
      BY <2>3, <2>4, <3>1, <3>3 DEF GoesOn
    <3>4. CASE Starts(d)
      <4>1. table[t] # NoRow /\ r = table[t].root /\ calls'[d].at = clock
        BY <1>5, <3>4 DEF Starts
      <4>. QED  BY <1>1, <1>5, <2>1, <2>2, <2>3, <3>1, <4>1, StartsApart
    <3>. QED  BY <3>2, <3>3, <3>4
  <2>6. CASE Visit(d) \/ Inserts(d)
    BY <1>1, <2>3, <2>4, <2>6, QuietAre, QuietLeaves DEF Quiet
  <2>7. CASE Rollback(d)
    BY <1>5, <2>7 DEF Rollback, TypeOK
  <2>8. CASE Commits(d)
    <3>1. CASE Commit(d)
      BY <1>5, <3>1 DEF Commit, CommitThen, TypeOK
    <3>2. CASE PurgedCodes(d) \/ PurgedSessions(d)
      <4>1. PICK next : CommitThen(d, [calls[d] EXCEPT !.pc = next]) /\ calls[d] # Nothing
              /\ calls[d].pc \in {"codesPurged", "sessionsPurged"}
        <5>1. CASE PurgedCodes(d)
          BY <5>1 DEF PurgedCodes, At
        <5>2. CASE PurgedSessions(d)
          BY <5>2 DEF PurgedSessions, At
        <5>. QED  BY <3>2, <5>1, <5>2
      <4>2. calls[d].op = "pair" /\ calls[d] \in CallRecord
        BY <1>1, <4>1, PlaceOf
      <4>3. calls'[d] = [calls[d] EXCEPT !.pc = next]
        BY <4>1, CommitIs
      <4>. QED  BY <1>5, <4>2, <4>3 DEF CallRecord
    <3>. QED  BY <2>8, <3>1, <3>2 DEF Commits
  <2>. QED  BY <2>5, <2>6, <2>7, <2>8 DEF Quiet
<1>. QED  BY <1>3, <1>4, <1>5

-----------------------------------------------------------------------------
(* A head is never the only live token of a chain where a token was revoked. *)

\* What a commit writes in a chain that it is not about.
LEMMA HeadLeftAlone ==
    ASSUME RowsOK, HeadIsNeverAlone, NEW d \in Caller, Commits(d), ChangeForm(d), NEW r \in Token,
           table'[r] # NoRow, table'[r].root = r, ~table'[r].revoked, \E t \in Joined(r)' : table'[t].revoked,
           \A t \in Token \cap issued : Wrote(d, t) => table[t].root # r \/ draft[d][t].revoked = table[t].revoked
    PROVE  \E t \in Joined(r)' : ~table'[t].revoked
<1>. USE DEF RowsOK
<1>1. /\ \A k \in Digest : table'[k] = IF Wrote(d, k) THEN draft[d][k] ELSE table[k]
  BY CommitLeaves
<1>2. \A u \in Token \cap issued : IF table[u] = NoRow THEN table'[u] = NoRow
           ELSE table'[u] # NoRow /\ SameToken(table[u], table'[u])
  BY ChangeStays
<1>3. PICK t \in Token : table'[t] # NoRow /\ table'[t].root = r /\ t # r /\ table'[t].revoked
  BY DEF Joined
<1>4. \A u \in Token \ issued : table'[u] # NoRow =>
          Wrote(d, u) /\ (NewHead(d, u, table'[u]) \/ NewLink(d, u, table'[u]))
  BY <1>1 DEF RowsAreIssued, Digest, ChangeForm
<1>5. t \in issued /\ table[t] # NoRow /\ table[t].root = r
  BY <1>2, <1>3, <1>4 DEF NewHead, NewLink, SameToken
<1>6. r \in issued
  BY <1>5 DEF ChainsHold
<1>7. table[r] # NoRow /\ table[r].root = r /\ ~table[r].revoked
  BY <1>2, <1>6 DEF SameToken
<1>8. \A u \in Token \cap issued : table[u] # NoRow /\ table[u].root = r => table'[u].revoked = table[u].revoked
  BY <1>1 DEF Digest
<1>9. t \in Joined(r) /\ table[t].revoked
  BY <1>3, <1>5, <1>8 DEF Joined
<1>10. PICK u \in Joined(r) : ~table[u].revoked
  BY <1>7, <1>9 DEF HeadIsNeverAlone
<1>11. u \in Token /\ table[u] # NoRow /\ table[u].root = r /\ u # r /\ u \in issued
  BY <1>10 DEF Joined, RowsAreIssued, Digest
<1>12. table'[u] # NoRow /\ table'[u].root = r /\ ~table'[u].revoked
  BY <1>2, <1>8, <1>10, <1>11 DEF SameToken
<1>. QED  BY <1>11, <1>12 DEF Joined

LEMMA HeadWithPurge ==
    ASSUME RowsOK, HeadIsNeverAlone, NEW d \in Caller, Commits(d), PurgeForm(d), NEW r \in Token,
           table'[r] # NoRow, table'[r].root = r, ~table'[r].revoked, \E t \in Joined(r)' : table'[t].revoked
    PROVE  \E t \in Joined(r)' : ~table'[t].revoked
<1>. USE DEF RowsOK
<1>1. \A k \in Digest : table'[k] = IF Wrote(d, k) THEN NoRow ELSE table[k]
  BY CommitLeaves DEF PurgeForm, Deleted, Over
<1>2. ~Wrote(d, r) /\ table[r] = table'[r]
  BY <1>1 DEF Digest
<1>3. \A t \in Token : table[t] # NoRow /\ table[t].root = r => table'[t] = table[t]
  BY <1>1, <1>2 DEF PurgeForm, Digest
<1>4. Joined(r)' = Joined(r)
  BY <1>1, <1>3 DEF Joined, Digest
<1>. QED  BY <1>2, <1>3, <1>4 DEF HeadIsNeverAlone, Joined

LEMMA HeadWithChain ==
    ASSUME RowsOK, HeadIsNeverAlone, NEW d \in Caller, Commits(d), ChangeForm(d), ChainOK(d),
           calls[d] # Nothing, calls[d].pc = "commit", Todo(d) = {}, NEW r \in Token,
           table'[r] # NoRow, table'[r].root = r, ~table'[r].revoked, \E t \in Joined(r)' : table'[t].revoked
    PROVE  \E t \in Joined(r)' : ~table'[t].revoked
<1>. USE DEF RowsOK
<1>1. /\ \A k \in Digest : table'[k] = IF Wrote(d, k) THEN draft[d][k] ELSE table[k]
  BY CommitLeaves
<1>2. r \in Digest /\ calls[d].key \in Token /\ calls[d].key \in Digest
  BY DEF Digest, ChainOK
<1>3. ASSUME \A k \in Digest : Ended(d, k), ChainGoes(d), calls[d].keep = NoToken, r = calls[d].root
      PROVE  FALSE
  <2>1. table[r] # NoRow /\ table[r].root = r
    <3>1. Wrote(d, r) => InChain(d, r)
      BY <1>2, <1>3 DEF Ended
    <3>2. ~Wrote(d, r) => table[r] = table'[r]
      BY <1>1, <1>2
    <3>. QED  BY <1>3, <3>1, <3>2 DEF InChain
  <2>2. Wrote(d, r) \/ table[r].revoked
    BY <1>3, <2>1, NullAssumption DEF ChainGoes, InChain, Gone_, Reached, Digest
  <2>3. Wrote(d, r) => Over(d, r, [table[r] EXCEPT !.revoked = TRUE])
    BY <1>2, <1>3 DEF Ended
  <2>4. PICK row : row = [table[r] EXCEPT !.revoked = TRUE]
    OBVIOUS
  <2>5. row.revoked
    BY <2>1, <2>4, EndedRow
  <2>. QED  BY <1>1, <1>2, <2>2, <2>3, <2>4, <2>5 DEF Over
<1>4. ASSUME NEW s, Succeeds(d, s), Going(d), r = calls[d].root
      PROVE  \E t \in Joined(r)' : ~table'[t].revoked
  <2>1. /\ Wrote(d, s) /\ s \in Token /\ s \notin issued /\ NewLink(d, s, draft[d][s]) /\ draft[d][s].root = r
    BY <1>4, SucceedsNew
  <2>2. r \in issued
    BY <1>4 DEF ChainOK
  <2>3. table'[s] = draft[d][s] /\ table'[s] # NoRow /\ s # r /\ ~table'[s].revoked
    BY <1>1, <2>1, <2>2, NullAssumption DEF NewLink, Digest
  <2>. QED  BY <2>1, <2>3 DEF Joined
<1>5. ASSUME r # calls[d].root, NEW S \in SUBSET Digest,
             \A k \in S : k \in issued => k = calls[d].key /\ holder[k] = d,
             \A k \in Digest \ S : Ended(d, k)
      PROVE  \E t \in Joined(r)' : ~table'[t].revoked
  <2>1. \A t \in Token \cap issued : Wrote(d, t) => table[t].root # r
    <3>. SUFFICES ASSUME NEW t \in Token \cap issued, Wrote(d, t)  PROVE table[t].root # r
      OBVIOUS
    <3>1. CASE t \in S
      <4>1. table[t] # NoRow /\ t = calls[d].key
        BY <1>5, <3>1, HeldRow
      <4>. QED  BY <1>5, <4>1 DEF ChainOK
    <3>2. CASE t \notin S
      <4>1. InChain(d, t)
        BY <1>5, <3>2 DEF Ended, Digest
      <4>. QED  BY <1>5, <4>1 DEF InChain
    <3>. QED  BY <3>1, <3>2
  <2>. QED  BY <2>1, HeadLeftAlone
<1>6. CASE calls[d].op # "refresh"
  <2>1. EndsOnly(d) /\ ChainGoes(d) /\ calls[d].keep = NoToken
    BY <1>6 DEF ChainOK, LogoutOK
  <2>2. CASE r = calls[d].root
    BY <1>3, <2>1, <2>2 DEF EndsOnly
  <2>3. CASE r # calls[d].root
    BY <1>5, <2>1, <2>3 DEF EndsOnly
  <2>. QED  BY <2>2, <2>3
<1>7. CASE calls[d].op = "refresh"
  <2>1. \/ Again(d) /\ \E s \in Token : Succeeds(d, s) /\ EndsBut(d, s)
        \/ First(d) /\ Marked(d) /\ \E s \in Token :
              Succeeds(d, s) /\ \A k \in Digest \ {s, calls[d].key} : Ended(d, k)
        \/ Clear(d)
        \/ Ending(d) /\ EndsOnly(d) /\ ChainGoes(d)
    BY <1>7 DEF ChainOK, RefreshOK
  <2>2. ASSUME NEW s \in Token, Succeeds(d, s), Going(d), \A k \in Digest \ {s, calls[d].key} : Ended(d, k)
        PROVE  \E t \in Joined(r)' : ~table'[t].revoked
    <3>1. CASE r = calls[d].root
      BY <1>4, <2>2, <3>1
    <3>2. CASE r # calls[d].root
      <4>1. PICK S : S = {s, calls[d].key}
        OBVIOUS
      <4>2. S \in SUBSET Digest /\ \A k \in S : k \in issued => k = calls[d].key /\ holder[k] = d
        BY <1>2, <2>2, <4>1 DEF Succeeds, Going, Digest
      <4>. QED  BY <1>5, <2>2, <3>2, <4>1, <4>2
    <3>. QED  BY <3>1, <3>2
  <2>3. CASE Again(d) /\ \E s \in Token : Succeeds(d, s) /\ EndsBut(d, s)
    BY <2>2, <2>3 DEF Again, EndsBut
  <2>4. CASE First(d) /\ Marked(d) /\ \E s \in Token :
              Succeeds(d, s) /\ \A k \in Digest \ {s, calls[d].key} : Ended(d, k)
    BY <2>2, <2>4 DEF First
  <2>5. CASE Clear(d)
    <3>1. \A t \in Token \cap issued : ~Wrote(d, t)
      BY <2>5 DEF Clear, Wrote, Digest
    <3>. QED  BY <3>1, HeadLeftAlone
  <2>6. CASE Ending(d) /\ EndsOnly(d) /\ ChainGoes(d)
    <3>1. CASE r = calls[d].root
      BY <1>3, <2>6, <3>1 DEF EndsOnly, Ending
    <3>2. CASE r # calls[d].root
      BY <1>5, <2>6, <3>2 DEF EndsOnly
    <3>. QED  BY <3>1, <3>2
  <2>. QED  BY <2>1, <2>3, <2>4, <2>5, <2>6
<1>. QED  BY <1>6, <1>7

LEMMA HeadWithEnd ==
    ASSUME RowsOK, HeadIsNeverAlone, NEW d \in Caller, Commits(d), ChangeForm(d),
           EndOK(d), calls[d].pc = "commit", Todo(d) = {}, NEW r \in Token,
           table'[r] # NoRow, table'[r].root = r, ~table'[r].revoked, \E t \in Joined(r)' : table'[t].revoked
    PROVE  \E t \in Joined(r)' : ~table'[t].revoked
<1>. USE DEF RowsOK
<1>1. /\ \A k \in Digest : table'[k] = IF Wrote(d, k) THEN draft[d][k] ELSE table[k]
  BY CommitLeaves
<1>2. HeadsEndToo(d) /\ \A t \in Token : Wrote(d, t) => EndsToken(d, t)
  BY DEF EndOK
<1>3. CASE \A t \in Token \cap issued : Wrote(d, t) => table[t].root # r
  BY <1>3, HeadLeftAlone
<1>4. ASSUME NEW t \in Token \cap issued, Wrote(d, t), table[t].root = r
      PROVE  FALSE
  <2>1. \A u \in Token : Wrote(d, u) => table[u] # NoRow /\ table'[u] # NoRow /\ table'[u].revoked
    <3>. SUFFICES ASSUME NEW u \in Token, Wrote(d, u)
                  PROVE  table[u] # NoRow /\ table'[u] # NoRow /\ table'[u].revoked
      OBVIOUS
    <3>1. PICK row : row = [table[u] EXCEPT !.revoked = TRUE]
      OBVIOUS
    <3>2. holder[u] = d /\ draft[d][u] = row
      BY <1>2, <3>1 DEF EndsToken, Over
    <3>3. table[u] # NoRow
      BY <3>2, HeldRow DEF Digest
    <3>4. row.revoked /\ row # NoRow
      BY <3>1, <3>3, EndedRow
    <3>. QED  BY <1>1, <3>2, <3>3, <3>4 DEF Digest
  <2>2. ~Wrote(d, r)
    BY <2>1
  <2>3. table[r] = table'[r]
    BY <1>1, <2>2 DEF Digest
  <2>4. Reached(d, t) /\ table[t] # NoRow
    BY <1>4, <2>1 DEF Reached
  <2>5. Reached(d, r) \/ table[r].revoked
    BY <1>2, <1>4, <2>3, <2>4 DEF HeadsEndToo
  <2>. QED  BY <2>2, <2>3, <2>5 DEF Reached
<1>. QED  BY <1>3, <1>4

LEMMA HeadWithNames ==
    ASSUME RowsOK, HeadIsNeverAlone, NEW d \in Caller, Commits(d), ChangeForm(d),
           RewriteOK(d), calls[d].pc = "commit", NEW r \in Token,
           table'[r] # NoRow, table'[r].root = r, ~table'[r].revoked, \E t \in Joined(r)' : table'[t].revoked
    PROVE  \E t \in Joined(r)' : ~table'[t].revoked
<1>. USE DEF RowsOK
<1>1. \A t \in Token : Wrote(d, t) => draft[d][t].revoked = table[t].revoked
  <2>. SUFFICES ASSUME NEW t \in Token, Wrote(d, t)  PROVE draft[d][t].revoked = table[t].revoked
    OBVIOUS
  <2>1. PICK row, set : row = Named(d, table[t]) /\ set = calls[d].set
    OBVIOUS
  <2>2. holder[t] = d /\ draft[d][t] = row
    BY <2>1 DEF RewriteOK, Over
  <2>3. table[t] \in SessionRow
    BY <2>2, HeldRow DEF Digest
  <2>4. row = [table[t] EXCEPT !.name = set] \/ row = [table[t] EXCEPT !.email = set]
    BY <2>1 DEF Named
  <2>. QED  BY <2>2, <2>3, <2>4 DEF SessionRow
<1>. QED  BY <1>1, HeadLeftAlone

LEMMA HeadWithPair ==
    ASSUME RowsOK, HeadIsNeverAlone, NEW d \in Caller, Commits(d), ChangeForm(d), Todo(d) = {},
           PairOK(d), NEW r \in Token,
           table'[r] # NoRow, table'[r].root = r, ~table'[r].revoked, \E t \in Joined(r)' : table'[t].revoked
    PROVE  \E t \in Joined(r)' : ~table'[t].revoked
<1>. USE DEF RowsOK
<1>1. \A t \in Token \cap issued : ~Wrote(d, t)
  <2>. SUFFICES ASSUME NEW t \in Token \cap issued, Wrote(d, t)  PROVE FALSE
    OBVIOUS
  <2>1. t \in Digest /\ t \notin Code /\ calls[d].key \in Code
    BY DigestAssumption DEF Digest, PairOK
  <2>2. ~SameToken(table[t], NoRow)
    BY NullAssumption DEF SameToken
  <2>3. draft[d][t] # NoRow
    BY <2>2 DEF ChangeForm
  <2>. QED  BY <2>1, <2>3 DEF PairOK, PurgeOK, Deleted, Over, Clear, Wrote, Opens
<1>. QED  BY <1>1, HeadLeftAlone

LEMMA HeadStays ==
    ASSUME RowsOK, HeadIsNeverAlone, NEW d \in Caller, CallOK(d), Commits(d)
    PROVE  HeadIsNeverAlone'
<1>. USE DEF RowsOK
<1>. SUFFICES ASSUME NEW r \in Token, table'[r] # NoRow, table'[r].root = r, ~table'[r].revoked,
                     \E t \in Joined(r)' : table'[t].revoked
              PROVE  \E t \in Joined(r)' : ~table'[t].revoked
  BY DEF HeadIsNeverAlone
<1>1. calls[d] # Nothing /\ Todo(d) = {} /\ (PurgeForm(d) \/ ChangeForm(d)) /\ calls[d].op \in Op
  BY CommitForms DEF TypeOK, CallRecord
<1>2. calls[d].op # "pair" => calls[d].pc = "commit"
  BY <1>1, PlaceOf DEF Commits, PurgedCodes, PurgedSessions, Commit, At
<1>3. CASE PurgeForm(d)
  BY <1>3, HeadWithPurge
<1>4. CASE ChangeForm(d) /\ calls[d].op = "pair"
  BY <1>1, <1>4, HeadWithPair DEF CallOK
<1>5. CASE ChangeForm(d) /\ calls[d].op \in {"refresh", "logout"}
  BY <1>1, <1>2, <1>5, HeadWithChain DEF CallOK
<1>6. CASE ChangeForm(d) /\ calls[d].op = "end"
  BY <1>1, <1>2, <1>6, HeadWithEnd DEF CallOK
<1>7. CASE ChangeForm(d) /\ calls[d].op \in {"rename", "readdress"}
  BY <1>1, <1>2, <1>7, HeadWithNames DEF CallOK
<1>. QED  BY <1>1, <1>3, <1>4, <1>5, <1>6, <1>7 DEF Op

-----------------------------------------------------------------------------
(* The invariant.                                                           *)

LEMMA InitHolds ==
    ASSUME Init
    PROVE  IInv
<1>1. /\ \A k \in Digest : table[k] = NoRow /\ holder[k] = Nobody
      /\ \A c \in Caller : calls[c] = Nothing /\ \A k \in Digest : draft[c][k] = Untouched
      /\ issued = {} /\ clock = 0
      /\ table = [k \in Digest |-> table[k]]
      /\ draft \in [Caller -> [Digest -> SessionRow \cup CodeRow \cup {NoRow, Untouched}]]
      /\ holder \in [Digest -> Caller \cup {Nobody}]
      /\ calls \in [Caller -> CallRecord \cup {Nothing}]
  BY DEF Init
<1>2. TypeOK
  <2>1. clock \in 0..MaxClock
    BY <1>1, ClockAssumption
  <2>2. \A t \in Token : table[t] \in SessionRow \cup {NoRow}
    BY <1>1 DEF Digest
  <2>3. \A k \in Code : table[k] \in CodeRow \cup {NoRow}
    BY <1>1 DEF Digest
  <2>4. \A c \in Caller, t \in Token : draft[c][t] \in SessionRow \cup {NoRow, Untouched}
    BY <1>1 DEF Digest
  <2>5. \A c \in Caller, k \in Code : draft[c][k] \in CodeRow \cup {NoRow, Untouched}
    BY <1>1 DEF Digest
  <2>. QED  BY <1>1, <2>1, <2>2, <2>3, <2>4, <2>5 DEF TypeOK
<1>3. RowsOK
  <2>1. RowsAreIssued /\ HeldAreThere
    BY <1>1, NullAssumption DEF RowsAreIssued, HeldAreThere
  <2>2. ChainsHold
    BY <1>1 DEF ChainsHold, Digest
  <2>3. WritesAreHeld /\ IdleHoldNothing
    BY <1>1, NullAssumption DEF WritesAreHeld, IdleHoldNothing, Clear
  <2>. QED  BY <1>2, <2>1, <2>2, <2>3 DEF RowsOK
<1>4. CallsOK /\ PurgesAreWhole
  BY <1>1 DEF CallsOK, CallOK, PurgesAreWhole
<1>5. HeadIsNeverAlone
  BY <1>1 DEF HeadIsNeverAlone, Digest
<1>. QED  BY <1>3, <1>4, <1>5 DEF IInv

\* The step of one caller.
LEMMA CallerKeeps ==
    ASSUME IInv, NEW d \in Caller, Quiet(d) \/ Commits(d)
    PROVE  IInv'
<1>. USE DEF IInv
<1>1. \A c \in Caller : CallOK(c)
  BY DEF CallsOK
<1>2. RowsOK' /\ CallOK(d)'
  <2>1. CASE Plans(d)
    BY <1>1, <2>1, PlansRows, PlansKeep
  <2>2. CASE Visit(d)
    BY <1>1, <2>2, VisitRows, VisitKeeps
  <2>3. CASE Inserts(d)
    BY <1>1, <2>3, InsertsKeep
  <2>4. CASE Rollback(d)
    <3>1. calls'[d] = Nothing
      BY <2>4 DEF Rollback, RowsOK, TypeOK
    <3>. QED  BY <2>4, <3>1, RollbackRows DEF CallOK
  <2>5. CASE Commits(d)
    BY <1>1, <2>5, CommitRows, CommitsKeep
  <2>. QED  BY <2>1, <2>2, <2>3, <2>4, <2>5 DEF Quiet
<1>3. CallsOK'
  <2>1. ASSUME NEW c \in Caller, c # d  PROVE CallOK(c)'
    BY <1>1, <2>1, OthersEnv, EnvKeeps
  <2>. QED  BY <1>2, <2>1 DEF CallsOK
<1>4. PurgesAreWhole'
  BY <1>2, PurgesStayWhole
<1>5. HeadIsNeverAlone'
  <2>1. CASE Quiet(d)
    <3>1. table' = table
      BY <1>1, <2>1, QuietLeaves
    <3>. QED  BY <3>1 DEF HeadIsNeverAlone, Joined
  <2>2. CASE Commits(d)
    BY <1>1, <2>2, HeadStays
  <2>. QED  BY <2>1, <2>2
<1>. QED  BY <1>2, <1>3, <1>4, <1>5

\* A step of no caller.
LEMMA OtherKeeps ==
    ASSUME IInv,
           \/ \E k \in Code, p \in Person, n \in Name, e \in Email : CreatePairing(k, p, n, e)
           \/ Tick
           \/ UNCHANGED vars
    PROVE  IInv'
<1>. USE DEF IInv
<1>1. \A c \in Caller : CallOK(c)
  BY DEF CallsOK
<1>2. CASE UNCHANGED vars
  <2>1. UNCHANGED <<table, draft, holder, calls, issued, clock>> /\ clock \in Nat /\ clock <= clock
    BY <1>2, ClockAssumption DEF vars, rows, RowsOK, TypeOK
  <2>2. RowsOK'
    <3>1. TypeOK'
      BY <2>1 DEF RowsOK, TypeOK
    <3>2. RowsAreIssued' /\ HeldAreThere' /\ ChainsHold' /\ WritesAreHeld'
      BY <2>1 DEF RowsOK, RowsAreIssued, HeldAreThere, ChainsHold, WritesAreHeld
    <3>3. IdleHoldNothing'
      BY <2>1 DEF RowsOK, IdleHoldNothing, Clear
    <3>. QED  BY <3>1, <3>2, <3>3 DEF RowsOK
  <2>3. CallsOK'
    <3>1. ASSUME NEW c \in Caller  PROVE CallOK(c)'
      BY <1>1, <2>1, <3>1, StaysEnv, EnvKeeps
    <3>. QED  BY <3>1 DEF CallsOK
  <2>. QED  BY <2>1, <2>2, <2>3 DEF PurgesAreWhole, Reached, Wrote, Todo, HeadIsNeverAlone, Joined
<1>3. CASE \E k \in Code, p \in Person, n \in Name, e \in Email : CreatePairing(k, p, n, e)
  <2>1. PICK k \in Code, p \in Person, n \in Name, e \in Email : CreatePairing(k, p, n, e)
    BY <1>3
  <2>2. RowsOK'
    BY <2>1, CreateRows
  <2>3. CallsOK'
    <3>1. ASSUME NEW c \in Caller  PROVE CallOK(c)'
      BY <1>1, <2>1, <3>1, CreateEnv, EnvKeeps
    <3>. QED  BY <3>1 DEF CallsOK
  <2>4. \A t \in Token : table'[t] = table[t]
    BY <2>1, DigestAssumption DEF CreatePairing, RowsOK, TypeOK, Digest
  <2>5. PurgesAreWhole'
    <3>1. UNCHANGED <<calls, draft>>
      BY <2>1 DEF CreatePairing
    <3>2. \A c \in Caller : calls[c] # Nothing /\ calls[c].op = "refresh" => calls[c].key \in Token
      BY <1>1 DEF CallOK, ChainOK
    <3>. QED  BY <2>4, <3>1, <3>2 DEF PurgesAreWhole, Reached, Wrote, Todo
  <2>6. HeadIsNeverAlone'
    BY <2>4 DEF HeadIsNeverAlone, Joined
  <2>. QED  BY <2>2, <2>3, <2>5, <2>6
<1>4. CASE Tick
  <2>1. RowsOK'
    BY <1>4, TickRows
  <2>2. CallsOK'
    <3>1. ASSUME NEW c \in Caller  PROVE CallOK(c)'
      BY <1>1, <1>4, <3>1, TickEnv, EnvKeeps
    <3>. QED  BY <3>1 DEF CallsOK
  <2>3. UNCHANGED <<table, calls, draft>>
    BY <1>4 DEF Tick, rows
  <2>. QED  BY <2>1, <2>2, <2>3 DEF PurgesAreWhole, Reached, Wrote, Todo, HeadIsNeverAlone, Joined
<1>. QED  BY <1>2, <1>3, <1>4

LEMMA NextKeeps == IInv /\ [Next]_vars => IInv'
<1>. SUFFICES ASSUME IInv, [Next]_vars  PROVE IInv'
  OBVIOUS
<1>1. CASE Next
  <2>1. \/ \E k \in Code, p \in Person, n \in Name, e \in Email : CreatePairing(k, p, n, e)
        \/ \E c \in Caller : Quiet(c) \/ Commits(c)
        \/ Tick
    BY <1>1, NextKinds DEF Quiet
  <2>. QED  BY <2>1, CallerKeeps, OtherKeeps
<1>2. CASE UNCHANGED vars
  BY <1>2, OtherKeeps
<1>. QED  BY <1>1, <1>2

\* What every call has done when it comes to a statement, the rows it holds and the rows it
\* wrote: the invariant that the two theorems below rest on.
THEOREM InvariantHolds == Spec => []IInv
<1>1. Init => IInv
  BY InitHolds
<1>2. IInv /\ [Next]_vars => IInv'
  BY NextKeeps
<1>. QED  BY <1>1, <1>2, PTL DEF Spec

\* chainHasLive finds a live token by root_hash wherever a replay has one to find: a head
\* carries no root_hash, and is never the only live token of a chain where one was revoked.
THEOREM HeadIsNeverAloneAlways == Spec => []HeadIsNeverAlone
<1>1. IInv => HeadIsNeverAlone
  BY DEF IInv
<1>. QED  BY <1>1, InvariantHolds, PTL

-----------------------------------------------------------------------------
(* The rows as a caller knows them.                                         *)

SeenToken(row) ==
    [subject |-> row.subject, name |-> row.name, expires |-> row.expires, revoked |-> row.revoked,
     rotated |-> row.rotated, pred |-> row.pred, root |-> row.root, code |-> row.code]

SeenCode(row) ==
    [subject |-> row.subject, name |-> row.name, expires |-> row.expires, redeemed |-> row.redeemed]

LEMMA SessionOfIs ==
    ASSUME NEW t \in Token
    PROVE  /\ SessionOf(t, "name") = IF table[t] = NoRow THEN NoRow ELSE SeenToken(table[t])
           /\ SessionOf(t, "name")' = IF table'[t] = NoRow THEN NoRow ELSE SeenToken(table'[t])
BY DEF SessionOf, SeenToken

LEMMA CodeOfIs ==
    ASSUME NEW k \in Code
    PROVE  /\ CodeOf(k, "name") = IF table[k] = NoRow THEN NoRow ELSE SeenCode(table[k])
           /\ CodeOf(k, "name")' = IF table'[k] = NoRow THEN NoRow ELSE SeenCode(table'[k])
BY DEF CodeOf, SeenCode

LEMMA SeenTokenIs ==
    ASSUME NEW row \in SessionRow
    PROVE  /\ SeenToken(row) \in KnownSession /\ SeenToken(row) # NoRow
           /\ SeenToken(row).subject = row.subject /\ SeenToken(row).name = row.name
           /\ SeenToken(row).expires = row.expires /\ SeenToken(row).revoked = row.revoked
           /\ SeenToken(row).rotated = row.rotated /\ SeenToken(row).pred = row.pred
           /\ SeenToken(row).root = row.root /\ SeenToken(row).code = row.code
<1>1. SeenToken(row) \in KnownSession
  BY DEF SeenToken, KnownSession, SessionRow
<1>2. SeenToken(row) # NoRow
  BY <1>1, NullAssumption
<1>. QED  BY <1>1, <1>2 DEF SeenToken

LEMMA SeenCodeIs ==
    ASSUME NEW row \in CodeRow
    PROVE  /\ SeenCode(row) \in KnownCode /\ SeenCode(row) # NoRow
           /\ SeenCode(row).subject = row.subject /\ SeenCode(row).name = row.name
           /\ SeenCode(row).expires = row.expires /\ SeenCode(row).redeemed = row.redeemed
<1>1. SeenCode(row) \in KnownCode
  BY DEF SeenCode, KnownCode, CodeRow
<1>2. SeenCode(row) # NoRow
  BY <1>1, NullAssumption
<1>. QED  BY <1>1, <1>2 DEF SeenCode

\* Nothing that a caller knows changes.
SameTables ==
    /\ \A t \in Token : SessionOf(t, "name")' = SessionOf(t, "name")
    /\ \A k \in Code : CodeOf(k, "name")' = CodeOf(k, "name")

SameAsked(c) == EndingOf(c)' = EndingOf(c) /\ RewritingOf(c, "rename")' = RewritingOf(c, "rename")

LEMMA Stutters ==
    ASSUME SameTables, \A c \in Caller : SameAsked(c), issued' = issued
    PROVE  UNCHANGED Promise!vars
BY DEF SameTables, SameAsked, Promise!vars

LEMMA TablesStay ==
    ASSUME \A k \in Digest : table'[k] = table[k]
    PROVE  SameTables
BY DEF SameTables, SessionOf, CodeOf, Digest

LEMMA AskedStays ==
    ASSUME TypeOK, NEW c \in Caller, calls'[c] = calls[c] \/ (calls[c] # Nothing /\ calls'[c] # Nothing /\ SameCall(calls'[c], calls[c]))
    PROVE  SameAsked(c)
BY DEF SameAsked, EndingOf, RewritingOf, Asked, SameCall

LEMMA CreateKept ==
    ASSUME RowsOK, NEW k \in Code, NEW p \in Person, NEW n \in Name, NEW e \in Email,
           CreatePairing(k, p, n, e)
    PROVE  Promise!CreatePairing(k, p, n, clock)
<1>. USE DEF RowsOK
<1>1. k \in Digest /\ k \notin issued /\ k \notin Token
  BY DigestAssumption DEF CreatePairing, Fresh, Digest
<1>2. PICK row : row = [subject |-> p, name |-> n, email |-> e, expires |-> clock + PairingTtl,
                        redeemed |-> FALSE]
  OBVIOUS
<1>3. clock + PairingTtl \in Nat
  BY ClockAssumption, TtlAssumption DEF TypeOK
<1>4. row \in CodeRow
  BY <1>2, <1>3 DEF CodeRow
<1>5. /\ table' = [table EXCEPT ![k] = row]
      /\ issued' = issued \cup {k} /\ UNCHANGED <<draft, holder, calls, clock>>
  BY <1>2 DEF CreatePairing
<1>6. (\A j \in Digest : j # k => table'[j] = table[j]) /\ table'[k] = row /\ row # NoRow
  BY <1>1, <1>4, <1>5, NullAssumption DEF TypeOK
<1>7. \A t \in Token : SessionOf(t, "name")' = SessionOf(t, "name")
  BY <1>1, <1>6 DEF SessionOf, Digest
<1>8. \A j \in Code : j # k => CodeOf(j, "name")' = CodeOf(j, "name")
  BY <1>6 DEF CodeOf, Digest
<1>9. CodeOf(k, "name")' = [subject |-> p, name |-> n, expires |-> clock + PairingTtl, redeemed |-> FALSE]
  BY <1>2, <1>6, CodeOfIs DEF SeenCode
<1>10. \A c \in Caller : SameAsked(c)
  BY <1>5, AskedStays
<1>. QED  BY <1>1, <1>5, <1>7, <1>8, <1>9, <1>10 DEF Promise!CreatePairing, Promise!asked, SameAsked

-----------------------------------------------------------------------------
(* What the promise finds in its tables.                                    *)

LEMMA PromiseFinds ==
    ASSUME TypeOK, NEW who
    PROVE  /\ Promise!SessionsOf(who) = SessionsOf(who)
           /\ Promise!CodesOf(who) = CodesOf(who)
           /\ Promise!ChainsOf(who) = ChainsOf(who)
<1>1. \A t \in Token : /\ table[t] = NoRow <=> SessionOf(t, "name") = NoRow
                       /\ table[t] # NoRow => SessionOf(t, "name").subject = table[t].subject
                                              /\ SessionOf(t, "name").root = table[t].root
  <2>1. TAKE t \in Token
  <2>2. CASE table[t] = NoRow
    BY <2>2, SessionOfIs
  <2>3. CASE table[t] # NoRow
    <3>1. table[t] \in SessionRow
      BY <2>3 DEF TypeOK
    <3>2. SessionOf(t, "name") = SeenToken(table[t])
      BY <2>3, SessionOfIs
    <3>. QED  BY <2>3, <3>1, <3>2, SeenTokenIs
  <2>. QED  BY <2>2, <2>3
<1>2. \A k \in Code : /\ table[k] = NoRow <=> CodeOf(k, "name") = NoRow
                      /\ table[k] # NoRow => CodeOf(k, "name").subject = table[k].subject
  <2>1. TAKE k \in Code
  <2>2. CASE table[k] = NoRow
    BY <2>2, CodeOfIs
  <2>3. CASE table[k] # NoRow
    <3>1. table[k] \in CodeRow
      BY <2>3 DEF TypeOK
    <3>2. CodeOf(k, "name") = SeenCode(table[k])
      BY <2>3, CodeOfIs
    <3>. QED  BY <2>3, <3>1, <3>2, SeenCodeIs
  <2>. QED  BY <2>2, <2>3
<1>3. Promise!SessionsOf(who) = SessionsOf(who)
  BY <1>1 DEF Promise!SessionsOf, SessionsOf
<1>4. Promise!CodesOf(who) = CodesOf(who)
  BY <1>2 DEF Promise!CodesOf, CodesOf
<1>5. Promise!ChainsOf(who) = ChainsOf(who)
  <2>1. \A t \in SessionsOf(who) : t \in Token /\ [u \in Token |-> SessionOf(u, "name")][t].root = table[t].root
    BY <1>1 DEF SessionsOf
  <2>. QED  BY <1>3, <2>1 DEF Promise!ChainsOf, ChainsOf
<1>. QED  BY <1>3, <1>4, <1>5

\* A call of nobody, and a call that ends or renames nothing.
LEMMA AskedNothing ==
    ASSUME TypeOK, NEW c \in Caller,
           calls[c] = Nothing \/ calls[c].op \notin {"end", "rename"},
           calls'[c] = Nothing \/ calls'[c].op \notin {"end", "rename"}
    PROVE  SameAsked(c)
BY DEF SameAsked, EndingOf, RewritingOf, Asked

LEMMA StartsKept ==
    ASSUME RowsOK, NEW d \in Caller, Starts(d), UNCHANGED <<table, issued>>,
           calls'[d] # Nothing, \A c \in Caller \ {d} : calls'[c] = calls[c]
    PROVE  UNCHANGED Promise!vars \/ Promise!Next
<1>. USE DEF RowsOK
<1>1. SameTables /\ \A c \in Caller \ {d} : SameAsked(c)
  BY TablesStay, AskedStays
<1>2. CASE calls'[d].op \notin {"end", "rename"}
  <2>1. SameAsked(d)
    BY <1>2, AskedNothing DEF Starts
  <2>. QED  BY <1>1, <2>1, Stutters
<1>3. CASE calls'[d].op = "end"
  <2>1. PICK who \in Scope : calls'[d].who = who /\ calls'[d].chains = ChainsOf(who) /\ calls'[d].codes = CodesOf(who)
    BY <1>3 DEF Starts
  <2>2. /\ EndingOf(d) = Nothing
        /\ EndingOf(d)' = [who |-> who, chains |-> ChainsOf(who), codes |-> CodesOf(who)]
        /\ RewritingOf(d, "rename")' = RewritingOf(d, "rename")
    BY <1>3, <2>1 DEF EndingOf, RewritingOf, Asked, Starts
  <2>3. Promise!EndSessionsCalled(d, who)
    BY <1>1, <2>2, PromiseFinds
       DEF Promise!EndSessionsCalled, Promise!tables, SameTables, SameAsked
  <2>. QED  BY <2>3 DEF Promise!Next
<1>4. CASE calls'[d].op = "rename"
  <2>1. PICK who \in Scope : /\ calls'[d].who = who /\ calls'[d].chains = ChainsOf(who)
                             /\ calls'[d].codes = CodesOf(who) /\ calls'[d].at = clock
                             /\ calls'[d].set \in Name
    BY <1>4 DEF Starts
  <2>2. PICK n \in Name : n = calls'[d].set
    BY <2>1
  <2>3. /\ RewritingOf(d, "rename") = Nothing
        /\ RewritingOf(d, "rename")' = [who |-> who, chains |-> ChainsOf(who), codes |-> CodesOf(who),
                                        name |-> n, at |-> clock]
        /\ EndingOf(d)' = EndingOf(d)
    BY <1>4, <2>1, <2>2 DEF EndingOf, RewritingOf, Asked, Starts
  <2>4. clock \in 0..MaxClock
    BY DEF TypeOK
  <2>5. Promise!RenameSessionsCalled(d, who, n, clock)
    BY <1>1, <2>3, PromiseFinds
       DEF Promise!RenameSessionsCalled, Promise!tables, SameTables, SameAsked
  <2>. QED  BY <2>4, <2>5 DEF Promise!Next
<1>. QED  BY <1>2, <1>3, <1>4

LEMMA EndingIs ==
    ASSUME RowsOK, NEW c \in Caller, CallOK(c), calls[c] # Nothing, calls[c].op = "end"
    PROVE  /\ EndingOf(c) = [who |-> calls[c].who, chains |-> calls[c].chains, codes |-> calls[c].codes]
           /\ EndingOf(c) # Nothing
           /\ EndingOf(c).who = calls[c].who /\ EndingOf(c).chains = calls[c].chains
           /\ EndingOf(c).codes = calls[c].codes
           /\ RewritingOf(c, "rename") = Nothing
<1>1. EndingOf(c) = [who |-> calls[c].who, chains |-> calls[c].chains, codes |-> calls[c].codes]
      /\ RewritingOf(c, "rename") = Nothing
  BY DEF EndingOf, RewritingOf, Asked
<1>2. calls[c].who \in Scope /\ calls[c].chains \in SUBSET Token /\ calls[c].codes \in SUBSET Code
  BY DEF CallOK, EndOK, ScopeOK
<1>. QED  BY <1>1, <1>2, NullAssumption

LEMMA RenamingIs ==
    ASSUME RowsOK, NEW c \in Caller, CallOK(c), calls[c] # Nothing, calls[c].op = "rename"
    PROVE  /\ RewritingOf(c, "rename") # Nothing
           /\ RewritingOf(c, "rename").who = calls[c].who
           /\ RewritingOf(c, "rename").chains = calls[c].chains
           /\ RewritingOf(c, "rename").codes = calls[c].codes
           /\ RewritingOf(c, "rename").name = calls[c].set
           /\ RewritingOf(c, "rename").at = calls[c].at
           /\ EndingOf(c) = Nothing
<1>1. RewritingOf(c, "rename") = [who |-> calls[c].who, chains |-> calls[c].chains, codes |-> calls[c].codes,
                                  name |-> calls[c].set, at |-> calls[c].at]
      /\ EndingOf(c) = Nothing
  BY DEF EndingOf, RewritingOf, Asked
<1>2. calls[c].who \in Scope /\ calls[c].chains \in SUBSET Token /\ calls[c].codes \in SUBSET Code
      /\ calls[c].set \in Name /\ calls[c].at \in 0..MaxClock
  BY DEF CallOK, RewriteOK, ScopeOK, RowsOK, TypeOK, CallRecord
<1>. QED  BY <1>1, <1>2, NullAssumption

LEMMA RollbackKept ==
    ASSUME RowsOK, NEW d \in Caller, CallOK(d), Rollback(d)
    PROVE  UNCHANGED Promise!vars \/ Promise!Next
<1>. USE DEF RowsOK
<1>1. UNCHANGED <<table, issued>> /\ calls'[d] = Nothing /\ \A c \in Caller \ {d} : calls'[c] = calls[c]
  BY DEF Rollback, TypeOK
<1>2. SameTables /\ \A c \in Caller \ {d} : SameAsked(c)
  BY <1>1, TablesStay, AskedStays
<1>3. EndingOf(d)' = Nothing /\ RewritingOf(d, "rename")' = Nothing
  BY <1>1 DEF EndingOf, RewritingOf, Asked
<1>4. CASE calls[d] = Nothing \/ calls[d].op \notin {"end", "rename"}
  <2>1. SameAsked(d)
    BY <1>1, <1>4, AskedNothing
  <2>. QED  BY <1>1, <1>2, <2>1, Stutters
<1>5. CASE calls[d] # Nothing /\ calls[d].op = "end"
  <2>1. EndingOf(d) # Nothing /\ RewritingOf(d, "rename") = Nothing
    BY <1>5, EndingIs
  <2>2. Promise!EndSessionsFailed(d)
    BY <1>1, <1>2, <1>3, <2>1 DEF Promise!EndSessionsFailed, Promise!tables, SameTables, SameAsked
  <2>. QED  BY <2>2 DEF Promise!Next
<1>6. CASE calls[d] # Nothing /\ calls[d].op = "rename"
  <2>1. EndingOf(d) = Nothing /\ RewritingOf(d, "rename") # Nothing
    BY <1>6, RenamingIs
  <2>2. Promise!RenameSessionsFailed(d)
    BY <1>1, <1>2, <1>3, <2>1 DEF Promise!RenameSessionsFailed, Promise!tables, SameTables, SameAsked
  <2>. QED  BY <2>2 DEF Promise!Next
<1>. QED  BY <1>4, <1>5, <1>6

LEMMA QuietKept ==
    ASSUME RowsOK, NEW d \in Caller, CallOK(d), Quiet(d)
    PROVE  UNCHANGED Promise!vars \/ Promise!Next
<1>. USE DEF RowsOK
<1>1. UNCHANGED <<table, issued>> /\ \A c \in Caller \ {d} : calls'[c] = calls[c]
  BY QuietLeaves
<1>2. CASE Rollback(d)
  BY <1>2, RollbackKept
<1>3. CASE ~Rollback(d)
  <2>1. calls'[d] \in CallRecord /\ calls'[d] # Nothing
    BY <1>3, PlansKeep, VisitKeeps, InsertsKeep, NullAssumption DEF Quiet
  <2>2. Starts(d) \/ (calls[d] # Nothing /\ SameCall(calls'[d], calls[d]))
    BY <1>3, PlansAre, QuietAre DEF Quiet, GoesOn
  <2>3. CASE Starts(d)
    BY <1>1, <2>1, <2>3, StartsKept
  <2>4. CASE calls[d] # Nothing /\ SameCall(calls'[d], calls[d])
    <3>1. \A c \in Caller : SameAsked(c)
      BY <1>1, <2>1, <2>4, AskedStays
    <3>. QED  BY <1>1, <3>1, TablesStay, Stutters
  <2>. QED  BY <2>2, <2>3, <2>4
<1>. QED  BY <1>2, <1>3

-----------------------------------------------------------------------------
(* What a caller knows of a row that a transaction wrote.                   *)

SeenRevoked(row, ended) ==
    [subject |-> row.subject, name |-> row.name, expires |-> row.expires, revoked |-> ended,
     rotated |-> row.rotated, pred |-> row.pred, root |-> row.root, code |-> row.code]

LEMMA SeenEnded ==
    ASSUME NEW row \in SessionRow, NEW new, new = [row EXCEPT !.revoked = TRUE]
    PROVE  /\ new \in SessionRow
           /\ SeenToken(new) = [SeenToken(row) EXCEPT !.revoked = TRUE]
           /\ row.revoked => SeenToken(row) = [SeenToken(row) EXCEPT !.revoked = TRUE]
<1>1. new \in SessionRow /\ new.revoked = TRUE
  BY DEF SessionRow
<1>2. new.subject = row.subject /\ new.name = row.name /\ new.expires = row.expires
      /\ new.rotated = row.rotated /\ new.pred = row.pred /\ new.root = row.root /\ new.code = row.code
  BY DEF SessionRow
<1>3. row.revoked => row.revoked = TRUE
  BY DEF SessionRow
<1>4. SeenToken(row) = SeenRevoked(row, row.revoked) /\ SeenToken(new) = SeenRevoked(new, new.revoked)
  BY DEF SeenToken, SeenRevoked
<1>5. \A b : SeenRevoked(new, b) = SeenRevoked(row, b)
  BY <1>2 DEF SeenRevoked
<1>6. \A b : [SeenToken(row) EXCEPT !.revoked = b] = SeenRevoked(row, b)
  BY DEF SeenToken, SeenRevoked
<1>7. [SeenToken(row) EXCEPT !.revoked = TRUE] = SeenRevoked(row, TRUE)
  BY <1>6
<1>8. SeenToken(new) = SeenRevoked(row, TRUE)
  BY <1>1, <1>4, <1>5
<1>. QED  BY <1>1, <1>3, <1>4, <1>7, <1>8

LEMMA SeenMarked ==
    ASSUME NEW row \in SessionRow, NEW at \in Nat, NEW new, new = [row EXCEPT !.rotated = at]
    PROVE  new \in SessionRow /\ SeenToken(new) = [SeenToken(row) EXCEPT !.rotated = at]
BY DEF SeenToken, SessionRow

SeenRedeemed(row, spent) ==
    [subject |-> row.subject, name |-> row.name, expires |-> row.expires, redeemed |-> spent]

LEMMA SeenSpent ==
    ASSUME NEW row \in CodeRow, NEW new, new = [row EXCEPT !.redeemed = TRUE]
    PROVE  /\ new \in CodeRow
           /\ SeenCode(new) = [SeenCode(row) EXCEPT !.redeemed = TRUE]
           /\ row.redeemed => SeenCode(row) = [SeenCode(row) EXCEPT !.redeemed = TRUE]
<1>1. new \in CodeRow /\ new.redeemed = TRUE
  BY DEF CodeRow
<1>2. new.subject = row.subject /\ new.name = row.name /\ new.expires = row.expires
  BY DEF CodeRow
<1>3. row.redeemed => row.redeemed = TRUE
  BY DEF CodeRow
<1>4. SeenCode(row) = SeenRedeemed(row, row.redeemed) /\ SeenCode(new) = SeenRedeemed(new, new.redeemed)
  BY DEF SeenCode, SeenRedeemed
<1>5. \A b : SeenRedeemed(new, b) = SeenRedeemed(row, b)
  BY <1>2 DEF SeenRedeemed
<1>6. \A b : [SeenCode(row) EXCEPT !.redeemed = b] = SeenRedeemed(row, b)
  BY DEF SeenCode, SeenRedeemed
<1>7. [SeenCode(row) EXCEPT !.redeemed = TRUE] = SeenRedeemed(row, TRUE)
  BY <1>6
<1>8. SeenCode(new) = SeenRedeemed(row, TRUE)
  BY <1>1, <1>4, <1>5
<1>. QED  BY <1>1, <1>3, <1>4, <1>7, <1>8

LEMMA SeenNamed ==
    ASSUME NEW set, NEW row, NEW new
    PROVE  /\ row \in SessionRow /\ set \in Name /\ new = [row EXCEPT !.name = set]
                 => new \in SessionRow /\ SeenToken(new) = [SeenToken(row) EXCEPT !.name = set]
           /\ row \in CodeRow /\ set \in Name /\ new = [row EXCEPT !.name = set]
                 => new \in CodeRow /\ SeenCode(new) = [SeenCode(row) EXCEPT !.name = set]
           /\ row \in SessionRow /\ set \in Email /\ new = [row EXCEPT !.email = set]
                 => new \in SessionRow /\ SeenToken(new) = SeenToken(row)
           /\ row \in CodeRow /\ set \in Email /\ new = [row EXCEPT !.email = set]
                 => new \in CodeRow /\ SeenCode(new) = SeenCode(row)
<1>1. row \in SessionRow /\ set \in Name /\ new = [row EXCEPT !.name = set]
         => new \in SessionRow /\ SeenToken(new) = [SeenToken(row) EXCEPT !.name = set]
  BY DEF SeenToken, SessionRow
<1>2. row \in CodeRow /\ set \in Name /\ new = [row EXCEPT !.name = set]
         => new \in CodeRow /\ SeenCode(new) = [SeenCode(row) EXCEPT !.name = set]
  BY DEF SeenCode, CodeRow
<1>3. row \in SessionRow /\ set \in Email /\ new = [row EXCEPT !.email = set]
         => new \in SessionRow /\ SeenToken(new) = SeenToken(row)
  BY DEF SeenToken, SessionRow
<1>4. row \in CodeRow /\ set \in Email /\ new = [row EXCEPT !.email = set]
         => new \in CodeRow /\ SeenCode(new) = SeenCode(row)
  BY DEF SeenCode, CodeRow
<1>. QED  BY <1>1, <1>2, <1>3, <1>4

-----------------------------------------------------------------------------
(* A commit, as a caller sees it.                                           *)

LEMMA CommitSeen ==
    ASSUME RowsOK, NEW d \in Caller, Commits(d)
    PROVE  /\ \A c \in Caller \ {d} : SameAsked(c)
           /\ \A k \in Digest : table'[k] = IF Wrote(d, k) THEN draft[d][k] ELSE table[k]
           /\ \A t \in Token : ~Wrote(d, t) => SessionOf(t, "name")' = SessionOf(t, "name")
           /\ \A k \in Code : ~Wrote(d, k) => CodeOf(k, "name")' = CodeOf(k, "name")
           /\ issued' = issued \cup {k \in Digest : table'[k] # NoRow}
<1>. USE DEF RowsOK
<1>1. /\ \A k \in Digest : table'[k] = IF Wrote(d, k) THEN draft[d][k] ELSE table[k]
      /\ issued' = issued \cup {k \in Digest : table'[k] # NoRow}
      /\ \A c \in Caller \ {d} : calls'[c] = calls[c]
  BY CommitLeaves
<1>2. \A t \in Token : ~Wrote(d, t) => table'[t] = table[t]
  BY <1>1 DEF Digest
<1>3. \A k \in Code : ~Wrote(d, k) => table'[k] = table[k]
  BY <1>1 DEF Digest
<1>4. \A t \in Token : ~Wrote(d, t) => SessionOf(t, "name")' = SessionOf(t, "name")
  BY <1>2 DEF SessionOf
<1>5. \A k \in Code : ~Wrote(d, k) => CodeOf(k, "name")' = CodeOf(k, "name")
  BY <1>3 DEF CodeOf
<1>6. \A c \in Caller \ {d} : SameAsked(c)
  BY <1>1, AskedStays
<1>. QED  BY <1>1, <1>4, <1>5, <1>6

\* A commit that inserts nothing issues nothing.
LEMMA CommitIssues ==
    ASSUME RowsOK, NEW d \in Caller, Commits(d),
           \A k \in Digest : Wrote(d, k) => table[k] # NoRow
    PROVE  issued' = issued
<1>1. /\ issued' = issued \cup {k \in Digest : table'[k] # NoRow}
      /\ \A k \in Digest : table'[k] # NoRow => table[k] # NoRow
  BY CommitLeaves
<1>. QED  BY <1>1 DEF RowsOK, RowsAreIssued

\* The row of a token that this commit ends, or that had ended.
LEMMA TokenEnds ==
    ASSUME RowsOK, NEW d \in Caller, Commits(d), NEW t \in Token, table[t] # NoRow,
           table[t].revoked \/ Wrote(d, t),
           Wrote(d, t) => Over(d, t, [table[t] EXCEPT !.revoked = TRUE])
    PROVE  SessionOf(t, "name")' = [SessionOf(t, "name") EXCEPT !.revoked = TRUE]
<1>. USE DEF RowsOK
<1>1. PICK row, new : row = table[t] /\ new = [row EXCEPT !.revoked = TRUE]
  OBVIOUS
<1>2. row \in SessionRow /\ SessionOf(t, "name") = SeenToken(row)
  BY <1>1, SessionOfIs DEF TypeOK
<1>3. CASE ~Wrote(d, t)
  <2>1. SessionOf(t, "name")' = SeenToken(row)
    BY <1>2, <1>3, CommitSeen
  <2>. QED  BY <1>1, <1>2, <1>3, <2>1, SeenEnded
<1>4. CASE Wrote(d, t)
  <2>1. new \in SessionRow /\ SeenToken(new) = [SeenToken(row) EXCEPT !.revoked = TRUE]
    BY <1>1, <1>2, SeenEnded
  <2>2. draft[d][t] = new
    BY <1>1, <1>4 DEF Over
  <2>3. table'[t] = new
    BY <1>4, <2>2, CommitSeen DEF Digest
  <2>. QED  BY <1>2, <2>1, <2>3, SessionOfIs, NullAssumption
<1>. QED  BY <1>3, <1>4

LEMMA CodeSpends ==
    ASSUME RowsOK, NEW d \in Caller, Commits(d), NEW k \in Code, table[k] # NoRow,
           table[k].redeemed \/ Wrote(d, k),
           Wrote(d, k) => Over(d, k, [table[k] EXCEPT !.redeemed = TRUE])
    PROVE  CodeOf(k, "name")' = [CodeOf(k, "name") EXCEPT !.redeemed = TRUE]
<1>. USE DEF RowsOK
<1>1. PICK row, new : row = table[k] /\ new = [row EXCEPT !.redeemed = TRUE]
  OBVIOUS
<1>2. row \in CodeRow /\ CodeOf(k, "name") = SeenCode(row)
  BY <1>1, CodeOfIs DEF TypeOK
<1>3. CASE ~Wrote(d, k)
  <2>1. CodeOf(k, "name")' = SeenCode(row)
    BY <1>2, <1>3, CommitSeen
  <2>. QED  BY <1>1, <1>2, <1>3, <2>1, SeenSpent
<1>4. CASE Wrote(d, k)
  <2>1. new \in CodeRow /\ SeenCode(new) = [SeenCode(row) EXCEPT !.redeemed = TRUE]
    BY <1>1, <1>2, SeenSpent
  <2>2. draft[d][k] = new
    BY <1>1, <1>4 DEF Over
  <2>3. table'[k] = new
    BY <1>4, <2>2, CommitSeen DEF Digest
  <2>. QED  BY <1>2, <2>1, <2>3, CodeOfIs, NullAssumption
<1>. QED  BY <1>3, <1>4

\* A commit that ends these tokens, and inserts none.
LEMMA RevokingIs ==
    ASSUME RowsOK, NEW d \in Caller, Commits(d), NEW gone \in SUBSET Token,
           \A t \in gone : table[t] # NoRow /\ (table[t].revoked \/ Wrote(d, t)),
           \A t \in Token : Wrote(d, t) =>
              t \in gone /\ Over(d, t, [table[t] EXCEPT !.revoked = TRUE])
    PROVE  [t \in Token |-> SessionOf(t, "name")]' = Promise!Revoking(gone)
<1>1. \A t \in gone : SessionOf(t, "name")' = [SessionOf(t, "name") EXCEPT !.revoked = TRUE]
  BY TokenEnds
<1>2. \A t \in Token \ gone : SessionOf(t, "name")' = SessionOf(t, "name")
  BY CommitSeen
<1>. QED  BY <1>1, <1>2 DEF Promise!Revoking

LEMMA SpendingIs ==
    ASSUME RowsOK, NEW d \in Caller, Commits(d), NEW gone \in SUBSET Code,
           \A k \in gone : table[k] # NoRow /\ (table[k].redeemed \/ Wrote(d, k)),
           \A k \in Code : Wrote(d, k) =>
              k \in gone /\ Over(d, k, [table[k] EXCEPT !.redeemed = TRUE])
    PROVE  [k \in Code |-> CodeOf(k, "name")]' = Promise!Spending(gone)
<1>1. \A k \in gone : CodeOf(k, "name")' = [CodeOf(k, "name") EXCEPT !.redeemed = TRUE]
  BY CodeSpends
<1>2. \A k \in Code \ gone : CodeOf(k, "name")' = CodeOf(k, "name")
  BY CommitSeen
<1>. QED  BY <1>1, <1>2 DEF Promise!Spending

\* A commit of a transaction that wrote nothing.
LEMMA ClearKept ==
    ASSUME RowsOK, NEW d \in Caller, Commits(d), Clear(d), SameAsked(d)
    PROVE  UNCHANGED Promise!vars
<1>1. \A k \in Digest : ~Wrote(d, k)
  BY DEF Clear, Wrote
<1>2. SameTables /\ issued' = issued
  BY <1>1, CommitSeen, CommitIssues DEF SameTables, Digest
<1>. QED  BY <1>2, CommitSeen, Stutters

\* A purge.
LEMMA PurgeKept ==
    ASSUME RowsOK, NEW d \in Caller, calls[d] # Nothing, Commits(d), PurgeForm(d), SameAsked(d)
    PROVE  Promise!Next
<1>. USE DEF RowsOK
<1>1. calls[d].at \in 0..MaxClock /\ \A c \in Caller : SameAsked(c)
  BY CommitSeen DEF TypeOK, CallRecord
<1>2. \A k \in Digest : Wrote(d, k) =>
          table[k] # NoRow /\ table'[k] = NoRow /\ table[k].expires <= calls[d].at
  <2>1. \A k \in Digest : Wrote(d, k) => holder[k] = d /\ draft[d][k] = NoRow /\ table[k].expires <= calls[d].at
    BY DEF PurgeForm, Deleted, Over
  <2>. QED  BY <2>1, HeldRow, CommitSeen
<1>3. issued' = issued
  BY <1>2, CommitIssues
<1>4. PICK gone : gone = {t \in Token : Wrote(d, t)}
  OBVIOUS
<1>5. \A t \in gone : /\ SessionOf(t, "name")' = NoRow /\ SessionOf(t, "name") # NoRow
                      /\ SessionOf(t, "name").expires <= calls[d].at
  <2>1. TAKE t \in gone
  <2>2. table[t] \in SessionRow /\ table[t] # NoRow /\ table'[t] = NoRow /\ table[t].expires <= calls[d].at
    BY <1>2, <1>4 DEF Digest, TypeOK
  <2>3. SeenToken(table[t]) # NoRow /\ SeenToken(table[t]).expires = table[t].expires
    BY <2>2, SeenTokenIs
  <2>. QED  BY <1>4, <2>2, <2>3, SessionOfIs
<1>6. \A t \in Token \ gone : SessionOf(t, "name")' = SessionOf(t, "name")
  BY <1>4, CommitSeen
<1>7. PICK spent : spent = {k \in Code : Wrote(d, k)}
  OBVIOUS
<1>8. \A k \in spent : /\ CodeOf(k, "name")' = NoRow /\ CodeOf(k, "name") # NoRow
                       /\ CodeOf(k, "name").expires <= calls[d].at
  <2>1. TAKE k \in spent
  <2>2. table[k] \in CodeRow /\ table[k] # NoRow /\ table'[k] = NoRow /\ table[k].expires <= calls[d].at
    BY <1>2, <1>7 DEF Digest, TypeOK
  <2>3. SeenCode(table[k]) # NoRow /\ SeenCode(table[k]).expires = table[k].expires
    BY <2>2, SeenCodeIs
  <2>. QED  BY <1>7, <2>2, <2>3, CodeOfIs
<1>9. \A k \in Code \ spent : CodeOf(k, "name")' = CodeOf(k, "name")
  BY <1>7, CommitSeen
<1>10. PICK at \in 0..MaxClock : at = calls[d].at
  BY <1>1
<1>11. UNCHANGED Promise!asked
  BY <1>1 DEF Promise!asked, SameAsked
<1>12. \E set \in SUBSET {t \in Token : /\ [u \in Token |-> SessionOf(u, "name")][t] # NoRow
                                        /\ [u \in Token |-> SessionOf(u, "name")][t].expires <= at} :
          [u \in Token |-> SessionOf(u, "name")]'
             = [t \in Token |-> IF t \in set THEN NoRow ELSE [u \in Token |-> SessionOf(u, "name")][t]]
  <2>1. gone \in SUBSET {t \in Token : /\ [u \in Token |-> SessionOf(u, "name")][t] # NoRow
                                       /\ [u \in Token |-> SessionOf(u, "name")][t].expires <= at}
    BY <1>4, <1>5, <1>10
  <2>2. [u \in Token |-> SessionOf(u, "name")]'
             = [t \in Token |-> IF t \in gone THEN NoRow ELSE [u \in Token |-> SessionOf(u, "name")][t]]
    BY <1>5, <1>6
  <2>. QED  BY <2>1, <2>2
<1>13. \E set \in SUBSET {k \in Code : /\ [j \in Code |-> CodeOf(j, "name")][k] # NoRow
                                       /\ [j \in Code |-> CodeOf(j, "name")][k].expires <= at} :
          [j \in Code |-> CodeOf(j, "name")]'
             = [k \in Code |-> IF k \in set THEN NoRow ELSE [j \in Code |-> CodeOf(j, "name")][k]]
  <2>1. spent \in SUBSET {k \in Code : /\ [j \in Code |-> CodeOf(j, "name")][k] # NoRow
                                       /\ [j \in Code |-> CodeOf(j, "name")][k].expires <= at}
    BY <1>7, <1>8, <1>10
  <2>2. [j \in Code |-> CodeOf(j, "name")]'
             = [k \in Code |-> IF k \in spent THEN NoRow ELSE [j \in Code |-> CodeOf(j, "name")][k]]
    BY <1>8, <1>9
  <2>. QED  BY <2>1, <2>2
<1>14. Promise!Purge(at)
  BY <1>3, <1>11, <1>12, <1>13 DEF Promise!Purge
<1>. QED  BY <1>14 DEF Promise!Next

-----------------------------------------------------------------------------
(* What each operation commits.                                             *)

\* The call that a commit leaves.
LEMMA CommitAsks ==
    ASSUME RowsOK, NEW d \in Caller, CallOK(d), Commits(d)
    PROVE  /\ calls[d] # Nothing /\ Todo(d) = {}
           /\ calls[d].pc = "commit" => calls'[d] = Nothing /\ EndingOf(d)' = Nothing
                                        /\ RewritingOf(d, "rename")' = Nothing
           /\ calls[d].pc # "commit" => calls[d].op = "pair" /\ calls'[d].op = "pair"
                                        /\ calls[d].pc \in {"codesPurged", "sessionsPurged"}
<1>. USE DEF RowsOK
<1>1. calls[d] # Nothing /\ Todo(d) = {} /\ calls[d].pc \in {"codesPurged", "sessionsPurged", "commit"}
  BY DEF Commits, PurgedCodes, PurgedSessions, Commit, At, Todo
<1>2. CASE Commit(d)
  <2>1. calls[d].pc = "commit" /\ calls'[d] = Nothing
    BY <1>2 DEF Commit, CommitThen, At, TypeOK
  <2>. QED  BY <1>1, <2>1 DEF EndingOf, RewritingOf, Asked
<1>3. CASE PurgedCodes(d) \/ PurgedSessions(d)
  <2>1. calls[d].pc \in {"codesPurged", "sessionsPurged"} /\ calls[d].op = "pair"
    BY <1>1, <1>3, PlaceOf DEF PurgedCodes, PurgedSessions, At
  <2>2. PICK next \in Place : calls'[d] = [calls[d] EXCEPT !.pc = next]
    BY <1>3 DEF PurgedCodes, PurgedSessions, CommitThen, TypeOK, Place
  <2>3. calls'[d].op = calls[d].op
    BY <1>1, <2>2 DEF CallRecord, TypeOK
  <2>. QED  BY <1>1, <2>1, <2>3
<1>. QED  BY <1>2, <1>3 DEF Commits

LEMMA PairKept ==
    ASSUME RowsOK, NEW d \in Caller, CallOK(d), calls[d].op = "pair", Commits(d)
    PROVE  UNCHANGED Promise!vars \/ Promise!Next
<1>. USE DEF RowsOK
<1>1. calls[d] # Nothing /\ Todo(d) = {} /\ PairOK(d)
      /\ (calls[d].pc # "commit" => calls[d].pc \in {"codesPurged", "sessionsPurged"})
  BY CommitAsks DEF CallOK
<1>2. SameAsked(d)
  BY <1>1, CommitAsks, AskedNothing
<1>3. CASE calls[d].pc # "commit"
  BY <1>1, <1>2, <1>3, PurgedForm, PurgeKept
<1>4. CASE Clear(d)
  BY <1>2, <1>4, ClearKept
<1>5. ASSUME NEW t \in Token, CodeSpent(d), Opens(d, t), calls[d].email \in Email,
             \A j \in Digest \ {calls[d].key, t} : ~Wrote(d, j)
      PROVE  Promise!Next
  <2>1. PICK k, at : k = calls[d].key /\ at = calls[d].at
    OBVIOUS
  <2>2. k \in Code /\ k \in Digest /\ t \in Digest /\ k # t /\ at \in 0..MaxClock /\ at + SessionTtl \in Nat
    BY <1>1, <2>1, ClockAssumption, TtlAssumption, DigestAssumption DEF PairOK, TypeOK, CallRecord, Digest
  <2>3. /\ Wrote(d, t) /\ t \notin issued /\ t \in Digest
        /\ draft[d][t] \in SessionRow /\ draft[d][t] # NoRow
        /\ draft[d][t].subject = table[k].subject /\ draft[d][t].name = table[k].name
        /\ draft[d][t].expires = at + SessionTtl /\ ~draft[d][t].revoked
        /\ draft[d][t].rotated = NotRotated /\ draft[d][t].pred = NoToken
        /\ draft[d][t].root = t /\ draft[d][t].code = k
    <3>1. calls[d].key \in Code
      BY <2>1, <2>2
    <3>2. /\ Wrote(d, t) /\ t \notin issued /\ NewHead(d, t, draft[d][t])
          /\ draft[d][t].subject = table[k].subject /\ draft[d][t].name = table[k].name
          /\ draft[d][t].expires = at + SessionTtl
          /\ draft[d][t].rotated = NotRotated /\ draft[d][t].code = k
      BY <1>1, <1>5, <2>1, <3>1, OpensNew
    <3>. QED  BY <2>2, <3>2, NullAssumption DEF NewHead
  <2>4. table[k] \in CodeRow /\ table[k] # NoRow /\ ~table[k].redeemed /\ at < table[k].expires
    BY <1>5, <2>1, <2>2, SpentRow DEF CodeSpent
  <2>5. /\ CodeOf(k, "name") # NoRow /\ ~CodeOf(k, "name").redeemed /\ at < CodeOf(k, "name").expires
        /\ CodeOf(k, "name").subject = table[k].subject /\ CodeOf(k, "name").name = table[k].name
    <3>1. CodeOf(k, "name") = SeenCode(table[k])
      BY <2>2, <2>4, CodeOfIs
    <3>. QED  BY <2>4, <3>1, SeenCodeIs
  <2>6. [j \in Code |-> CodeOf(j, "name")]' = Promise!Spending({k})
    <3>1. Over(d, k, [table[k] EXCEPT !.redeemed = TRUE])
      BY <1>5, <2>1 DEF CodeSpent
    <3>2. Wrote(d, k)
      BY <2>1, <2>2, <3>1, <1>5, SpentRow, SpentSame, NullAssumption DEF Wrote, SameCode
    <3>3. \A j \in Code : Wrote(d, j) => j = k
      BY <1>5, <2>1, DigestAssumption DEF Digest
    <3>4. \A j \in {k} : table[j] # NoRow /\ (table[j].redeemed \/ Wrote(d, j))
      BY <2>4, <3>2
    <3>5. \A j \in Code : Wrote(d, j) => j \in {k} /\ Over(d, j, [table[j] EXCEPT !.redeemed = TRUE])
      BY <3>1, <3>3
    <3>6. {k} \in SUBSET Code
      BY <2>2
    <3>. QED  BY <3>4, <3>5, <3>6, SpendingIs
  <2>7. SessionOf(t, "name")' =
            [subject |-> CodeOf(k, "name").subject, name |-> CodeOf(k, "name").name,
             expires |-> at + SessionTtl, revoked |-> FALSE,
             rotated |-> NotRotated, pred |-> NoToken, root |-> t, code |-> k]
    <3>1. table'[t] = draft[d][t]
      BY <2>3, CommitSeen
    <3>2. SessionOf(t, "name")' = SeenToken(draft[d][t])
      BY <2>3, <3>1, SessionOfIs
    <3>3. draft[d][t].revoked = FALSE
      BY <2>3 DEF SessionRow
    <3>. QED  BY <2>3, <2>5, <3>2, <3>3 DEF SeenToken
  <2>8. \A u \in Token : u # t => SessionOf(u, "name")' = SessionOf(u, "name")
    <3>1. \A u \in Token : u # t => ~Wrote(d, u)
      BY <1>5, <2>1, <2>2, DigestAssumption DEF Digest
    <3>. QED  BY <3>1, CommitSeen
  <2>9. issued' = issued \cup {t}
    <3>1. \A j \in Digest : table'[j] # NoRow => j = t \/ table[j] # NoRow
      BY <1>5, <2>1, <2>2, <2>4, CommitSeen
    <3>2. table'[t] # NoRow
      BY <2>3, CommitSeen
    <3>. QED  BY <2>3, <3>1, <3>2, CommitSeen DEF RowsAreIssued
  <2>10. UNCHANGED Promise!asked
    BY <1>2, CommitSeen DEF Promise!asked, SameAsked
  <2>11. Promise!RedeemPairing(k, t, at)
    <3>1. [j \in Code |-> CodeOf(j, "name")][k] = CodeOf(k, "name")
      BY <2>2
    <3>2. PICK row : row = [subject |-> CodeOf(k, "name").subject, name |-> CodeOf(k, "name").name,
                            expires |-> at + SessionTtl, revoked |-> FALSE,
                            rotated |-> NotRotated, pred |-> NoToken, root |-> t, code |-> k]
      OBVIOUS
    <3>3. [u \in Token |-> SessionOf(u, "name")]'
             = [[u \in Token |-> SessionOf(u, "name")] EXCEPT ![t] = row]
      BY <2>7, <2>8, <3>2
    <3>. QED  BY <2>3, <2>5, <2>6, <2>9, <2>10, <3>1, <3>2, <3>3
              DEF Promise!RedeemPairing, NotRotated, Promise!NotRotated
  <2>. QED  BY <2>2, <2>11 DEF Promise!Next
<1>6. calls[d].pc = "commit" =>
        \/ Clear(d)
        \/ \E t \in Token : /\ CodeSpent(d) /\ Opens(d, t) /\ calls[d].email \in Email
                            /\ \A j \in Digest \ {calls[d].key, t} : ~Wrote(d, j)
  BY <1>1 DEF PairOK
<1>. QED  BY <1>3, <1>4, <1>5, <1>6

LEMMA SessionSeen ==
    ASSUME TypeOK, NEW t \in Token, table[t] # NoRow
    PROVE  /\ table[t] \in SessionRow /\ SessionOf(t, "name") = SeenToken(table[t])
           /\ SessionOf(t, "name") \in KnownSession /\ SessionOf(t, "name") # NoRow
           /\ SessionOf(t, "name").subject = table[t].subject /\ SessionOf(t, "name").name = table[t].name
           /\ SessionOf(t, "name").expires = table[t].expires /\ SessionOf(t, "name").revoked = table[t].revoked
           /\ SessionOf(t, "name").rotated = table[t].rotated /\ SessionOf(t, "name").pred = table[t].pred
           /\ SessionOf(t, "name").root = table[t].root /\ SessionOf(t, "name").code = table[t].code
<1>1. table[t] \in SessionRow /\ SessionOf(t, "name") = SeenToken(table[t])
  BY SessionOfIs DEF TypeOK
<1>. QED  BY <1>1, SeenTokenIs

LEMMA CodeSeen ==
    ASSUME TypeOK, NEW k \in Code, table[k] # NoRow
    PROVE  /\ table[k] \in CodeRow /\ CodeOf(k, "name") = SeenCode(table[k])
           /\ CodeOf(k, "name") \in KnownCode /\ CodeOf(k, "name") # NoRow
           /\ CodeOf(k, "name").subject = table[k].subject /\ CodeOf(k, "name").name = table[k].name
           /\ CodeOf(k, "name").expires = table[k].expires /\ CodeOf(k, "name").redeemed = table[k].redeemed
<1>1. table[k] \in CodeRow /\ CodeOf(k, "name") = SeenCode(table[k])
  BY CodeOfIs DEF TypeOK
<1>. QED  BY <1>1, SeenCodeIs

LEMMA ChainFound ==
    ASSUME TypeOK, NEW d \in Caller
    PROVE  Promise!Chain(calls[d].root) = {u \in Token : InChain(d, u)}
<1>1. \A t \in Token : (SessionOf(t, "name") # NoRow /\ SessionOf(t, "name").root = calls[d].root)
                          <=> InChain(d, t)
  <2>1. TAKE t \in Token
  <2>2. CASE table[t] = NoRow
    BY <2>2, SessionOfIs DEF InChain
  <2>3. CASE table[t] # NoRow
    BY <2>3, SessionSeen DEF InChain
  <2>. QED  BY <2>2, <2>3
<1>. QED  BY <1>1 DEF Promise!Chain

\* A log out, or a refresh that ends its chain.
LEMMA ChainEnds ==
    ASSUME RowsOK, NEW d \in Caller, Commits(d), calls[d] # Nothing, Todo(d) = {}, SameAsked(d),
           calls[d].keep = NoToken, EndsOnly(d), ChainGoes(d)
    PROVE  UNCHANGED Promise!vars \/ Promise!Next
<1>. USE DEF RowsOK
<1>1. PICK gone : gone = {u \in Token : InChain(d, u)}
  OBVIOUS
<1>2. \A u \in gone : u \in Token /\ table[u] # NoRow /\ (table[u].revoked \/ Wrote(d, u))
  BY <1>1, NullAssumption DEF ChainGoes, Gone_, Reached, InChain, Digest
<1>3. \A k \in Digest : Wrote(d, k) => k \in gone /\ Over(d, k, [table[k] EXCEPT !.revoked = TRUE])
  BY <1>1 DEF EndsOnly, Ended, InChain
<1>4. CASE gone = {}
  <2>1. Clear(d)
    BY <1>3, <1>4 DEF Clear, Wrote
  <2>. QED  BY <2>1, ClearKept
<1>5. CASE gone # {}
  <2>1. PICK t \in gone : TRUE
    BY <1>5
  <2>2. t \in Token /\ SessionOf(t, "name") # NoRow /\ SessionOf(t, "name").root = calls[d].root
    BY <1>1, <1>2, <2>1, SessionSeen DEF InChain
  <2>3. gone = Promise!Chain(calls[d].root)
    BY <1>1, ChainFound
  <2>4. [u \in Token |-> SessionOf(u, "name")]' = Promise!Revoking(gone)
    <3>1. gone \in SUBSET Token
      BY <1>1
    <3>2. \A u \in Token : Wrote(d, u) => u \in gone /\ Over(d, u, [table[u] EXCEPT !.revoked = TRUE])
      BY <1>3 DEF Digest
    <3>. QED  BY <1>2, <3>1, <3>2, RevokingIs
  <2>5. \A k \in Code : CodeOf(k, "name")' = CodeOf(k, "name")
    <3>1. \A k \in Code : ~Wrote(d, k)
      BY <1>1, <1>3, DigestAssumption DEF Digest
    <3>. QED  BY <3>1, CommitSeen
  <2>6. issued' = issued
    <3>1. \A k \in Digest : Wrote(d, k) => table[k] # NoRow
      BY <1>2, <1>3
    <3>. QED  BY <3>1, CommitIssues
  <2>7. UNCHANGED Promise!asked
    BY CommitSeen DEF Promise!asked, SameAsked
  <2>8. Promise!RevokeSession(t)
    BY <2>2, <2>3, <2>4, <2>5, <2>6, <2>7 DEF Promise!RevokeSession
  <2>. QED  BY <2>2, <2>8 DEF Promise!Next
<1>. QED  BY <1>4, <1>5

\* The successor that a refresh commits.
LEMMA SuccessorIs ==
    ASSUME RowsOK, NEW d \in Caller, calls[d] # Nothing, ChainOK(d), Going(d), Commits(d),
           NEW s, Succeeds(d, s)
    PROVE  /\ s \in Token /\ s \notin issued /\ table'[s] # NoRow
           /\ SessionOf(s, "name")' = Promise!Successor(calls[d].key)
<1>. USE DEF RowsOK
<1>1. PICK t, row, old : t = calls[d].key /\ row = draft[d][s] /\ old = table[t]
  OBVIOUS
<1>2. t \in Token /\ t \in Digest /\ holder[t] = d
  BY <1>1 DEF ChainOK, Going, Digest
<1>3. old \in SessionRow /\ table[t] # NoRow /\ old.root = calls[d].root
  BY <1>1, <1>2, HeldRow DEF ChainOK
<1>4. /\ Wrote(d, s) /\ s \in Token /\ s \notin issued /\ NewLink(d, s, row)
      /\ row.pred = t /\ row.root = old.root /\ row.rotated = NotRotated /\ row.name = old.name
      /\ row.subject = old.subject /\ row.expires = old.expires /\ row.code = old.code
  BY <1>1, <1>3, SucceedsNew
<1>5. row \in SessionRow /\ row # NoRow /\ row.revoked = FALSE
  <2>1. row \in SessionRow /\ ~row.revoked
    BY <1>4 DEF NewLink
  <2>. QED  BY <2>1, NullAssumption DEF SessionRow
<1>6. table'[s] = row
  BY <1>1, <1>4, CommitSeen DEF Digest
<1>7. SessionOf(s, "name")' = SeenToken(row)
  BY <1>4, <1>5, <1>6, SessionOfIs
<1>8. SeenToken(row) = [SeenToken(old) EXCEPT !.pred = t, !.rotated = NotRotated, !.revoked = FALSE]
  <2>1. PICK no : no = row.revoked
    OBVIOUS
  <2>2. PICK half : half = [SeenToken(old) EXCEPT !.pred = t, !.rotated = NotRotated]
    OBVIOUS
  <2>3. [half EXCEPT !.revoked = FALSE]
           = [SeenToken(old) EXCEPT !.pred = t, !.rotated = NotRotated, !.revoked = FALSE]
    BY <2>2 DEF SeenToken
  <2>4. SeenToken(row) = [half EXCEPT !.revoked = no]
    <3>1. PICK was : was = old.revoked
      OBVIOUS
    <3>2. half = [subject |-> old.subject, name |-> old.name, expires |-> old.expires, revoked |-> was,
                  rotated |-> NotRotated, pred |-> t, root |-> old.root, code |-> old.code]
      BY <2>2, <3>1 DEF SeenToken
    <3>3. [half EXCEPT !.revoked = no]
             = [subject |-> old.subject, name |-> old.name, expires |-> old.expires, revoked |-> no,
                rotated |-> NotRotated, pred |-> t, root |-> old.root, code |-> old.code]
      BY <3>2
    <3>4. SeenToken(row)
             = [subject |-> old.subject, name |-> old.name, expires |-> old.expires, revoked |-> no,
                rotated |-> NotRotated, pred |-> t, root |-> old.root, code |-> old.code]
      BY <1>4, <2>1 DEF SeenToken
    <3>. QED  BY <3>3, <3>4
  <2>5. no = FALSE
    BY <1>5, <2>1
  <2>. QED  BY <2>3, <2>4, <2>5
<1>9. Promise!Successor(t) = [SeenToken(old) EXCEPT !.pred = t, !.rotated = NotRotated, !.revoked = FALSE]
  <2>1. [u \in Token |-> SessionOf(u, "name")][t] = SeenToken(old)
    BY <1>1, <1>2, <1>3, SessionOfIs
  <2>. QED  BY <2>1 DEF Promise!Successor, Promise!NotRotated, NotRotated
<1>. QED  BY <1>1, <1>4, <1>5, <1>6, <1>7, <1>8, <1>9

LEMMA LogoutKept ==
    ASSUME RowsOK, NEW d \in Caller, CallOK(d), calls[d].op = "logout", Commits(d)
    PROVE  UNCHANGED Promise!vars \/ Promise!Next
<1>1. calls[d] # Nothing /\ Todo(d) = {} /\ calls[d].pc = "commit" /\ ChainOK(d) /\ LogoutOK(d)
      /\ calls'[d] = Nothing
  BY CommitAsks DEF CallOK, ChainOK
<1>2. SameAsked(d)
  BY <1>1, AskedNothing DEF RowsOK
<1>3. calls[d].keep = NoToken /\ EndsOnly(d) /\ ChainGoes(d)
  BY <1>1 DEF LogoutOK
<1>. QED  BY <1>1, <1>2, <1>3, ChainEnds

\* What a refresh commits over the token that it spends, and what it leaves.
LEMMA RefreshSeen ==
    ASSUME RowsOK, NEW d \in Caller, calls[d] # Nothing, ChainOK(d), Going(d), Commits(d), NEW s, Succeeds(d, s),
           ~table[calls[d].key].revoked, SameAsked(d),
           \A k \in Digest \ {s, calls[d].key} : Ended(d, k),
           Wrote(d, calls[d].key) => Marked(d)
    PROVE  /\ s \in Token /\ calls[d].key \in Token /\ s # calls[d].key
           /\ SessionOf(calls[d].key, "name") # NoRow
           /\ ~SessionOf(calls[d].key, "name").revoked
           /\ calls[d].at < SessionOf(calls[d].key, "name").expires
           /\ s \notin issued /\ issued' = issued \cup {s}
           /\ [k \in Code |-> CodeOf(k, "name")]' = [k \in Code |-> CodeOf(k, "name")]
           /\ UNCHANGED Promise!asked
<1>. USE DEF RowsOK
<1>1. PICK t : t = calls[d].key
  OBVIOUS
<1>2. t \in Token /\ t \in Digest /\ holder[t] = d /\ t \in issued
  BY <1>1 DEF ChainOK, Going, Digest
<1>3. table[t] # NoRow
  BY <1>2, HeldRow
<1>4. s \in Token /\ s \in Digest /\ s \notin issued /\ table'[s] # NoRow
  BY SuccessorIs DEF Digest
<1>5. ~SessionOf(t, "name").revoked /\ SessionOf(t, "name") # NoRow /\ calls[d].at < SessionOf(t, "name").expires
  BY <1>1, <1>2, <1>3, SessionSeen DEF Going
<1>6. \A k \in Digest \ {s, t} : Wrote(d, k) => k \in Token /\ table[k] # NoRow
  BY <1>1 DEF Ended, InChain
<1>7. \A k \in Digest : table'[k] # NoRow => k = s \/ table[k] # NoRow
  BY <1>3, <1>6, CommitSeen
<1>8. issued' = issued \cup {s}
  BY <1>4, <1>7, CommitSeen DEF RowsAreIssued
<1>9. \A k \in Code : CodeOf(k, "name")' = CodeOf(k, "name")
  <2>1. \A k \in Code : ~Wrote(d, k)
    BY <1>2, <1>4, <1>6, DigestAssumption DEF Digest
  <2>. QED  BY <2>1, CommitSeen
<1>10. UNCHANGED Promise!asked
  BY CommitSeen DEF Promise!asked, SameAsked
<1>. QED  BY <1>1, <1>2, <1>4, <1>5, <1>8, <1>9, <1>10

LEMMA FirstKept ==
    ASSUME RowsOK, NEW d \in Caller, calls[d] # Nothing, ChainOK(d), Commits(d), SameAsked(d), Todo(d) = {},
           First(d), Marked(d), RetiresPred(d), NEW s \in Token, Succeeds(d, s),
           \A k \in Digest \ {s, calls[d].key} :
              Ended(d, k) /\ (Wrote(d, k) => k = table[calls[d].key].pred)
    PROVE  Promise!Next
<1>. USE DEF RowsOK
<1>1. PICK t, at, p : t = calls[d].key /\ at = calls[d].at /\ p = table[t].pred
  OBVIOUS
<1>2. Going(d) /\ ~table[t].revoked /\ table[t].rotated = NotRotated
  BY <1>1 DEF First
<1>3. /\ s # t /\ t \in Token /\ SessionOf(t, "name") # NoRow /\ ~SessionOf(t, "name").revoked
      /\ at < SessionOf(t, "name").expires /\ s \notin issued /\ issued' = issued \cup {s}
      /\ [k \in Code |-> CodeOf(k, "name")]' = [k \in Code |-> CodeOf(k, "name")]
      /\ UNCHANGED Promise!asked
  BY <1>1, <1>2, RefreshSeen
<1>4. t \in Digest /\ s \in Digest /\ at \in 0..MaxClock /\ at \in Nat
  BY <1>1, <1>3, ClockAssumption DEF Digest, TypeOK, CallRecord
<1>5. table[t] # NoRow /\ table[t] \in SessionRow
  BY <1>1, <1>2, <1>4, <1>3, HeldRow DEF Going
<1>6. SessionOf(t, "name").rotated = NotRotated /\ SessionOf(t, "name").pred = p
  BY <1>1, <1>2, <1>3, <1>5, SessionSeen
<1>7. p # t /\ (p \in Token /\ table[p] # NoRow => p # s)
  BY <1>1, <1>3, <1>4, <1>5 DEF ChainsHold, RowsAreIssued, Digest
<1>8. SessionOf(s, "name")' = Promise!Successor(t)
  BY <1>1, <1>2, SuccessorIs
<1>9. SessionOf(t, "name")' = [SessionOf(t, "name") EXCEPT !.rotated = at]
  <2>1. PICK old, row : old = table[t] /\ row = [old EXCEPT !.rotated = at]
    OBVIOUS
  <2>2. row \in SessionRow /\ row # NoRow /\ row # Untouched /\ SeenToken(row) = [SeenToken(old) EXCEPT !.rotated = at]
    BY <1>4, <1>5, <2>1, SeenMarked, NullAssumption
  <2>3. draft[d][t] = row
    BY <1>1, <2>1 DEF Marked, Over
  <2>4. table'[t] = row
    BY <1>4, <2>2, <2>3, CommitSeen DEF Wrote
  <2>5. SessionOf(t, "name")' = SeenToken(row) /\ SessionOf(t, "name") = SeenToken(old)
    BY <1>3, <1>5, <2>1, <2>2, <2>4, SessionOfIs
  <2>. QED  BY <2>2, <2>5
<1>10. \A u \in Token : u = p /\ table[u] # NoRow =>
            SessionOf(u, "name")' = [SessionOf(u, "name") EXCEPT !.revoked = TRUE]
  <2>. SUFFICES ASSUME NEW u \in Token, u = p, table[u] # NoRow
                PROVE  SessionOf(u, "name")' = [SessionOf(u, "name") EXCEPT !.revoked = TRUE]
    OBVIOUS
  <2>1. u \in Digest \ {s, t}
    BY <1>7 DEF Digest
  <2>2. Wrote(d, u) => Over(d, u, [table[u] EXCEPT !.revoked = TRUE])
    BY <1>1, <2>1 DEF Ended
  <2>3. table[u].revoked \/ Wrote(d, u)
    BY <1>1 DEF RetiresPred, Gone_, Reached
  <2>. QED  BY <2>2, <2>3, TokenEnds
<1>11. \A u \in Token : u \notin {s, t} /\ (u # p \/ table[u] = NoRow) =>
            SessionOf(u, "name")' = SessionOf(u, "name")
  <2>. SUFFICES ASSUME NEW u \in Token, u \notin {s, t}, u # p \/ table[u] = NoRow
                PROVE  SessionOf(u, "name")' = SessionOf(u, "name")
    OBVIOUS
  <2>1. ~Wrote(d, u)
    BY <1>1 DEF Ended, InChain, Digest
  <2>. QED  BY <2>1, CommitSeen
<1>12. \A u \in Token : table[u] # NoRow <=> SessionOf(u, "name") # NoRow
  BY SessionSeen, SessionOfIs
<1>13. Promise!RotateFirst(t, s, at)
  <2>1. [u \in Token |-> SessionOf(u, "name")]'
           = [u \in Token |->
                IF u = s THEN Promise!Successor(t)
                ELSE IF u = t THEN [SessionOf(t, "name") EXCEPT !.rotated = at]
                ELSE IF u = p /\ SessionOf(u, "name") # NoRow
                     THEN [SessionOf(u, "name") EXCEPT !.revoked = TRUE]
                ELSE SessionOf(u, "name")]
    BY <1>3, <1>7, <1>8, <1>9, <1>10, <1>11, <1>12
  <2>2. [u \in Token |-> SessionOf(u, "name")]'
           = [u \in Token |->
                IF u = s THEN Promise!Successor(t)
                ELSE IF u = t THEN [[w \in Token |-> SessionOf(w, "name")][t] EXCEPT !.rotated = at]
                ELSE IF u = [w \in Token |-> SessionOf(w, "name")][t].pred
                        /\ [w \in Token |-> SessionOf(w, "name")][u] # NoRow
                     THEN [[w \in Token |-> SessionOf(w, "name")][u] EXCEPT !.revoked = TRUE]
                ELSE [w \in Token |-> SessionOf(w, "name")][u]]
    BY <1>3, <1>6, <2>1
  <2>3. Promise!Live(t)
    BY <1>3 DEF Promise!Live
  <2>. QED  BY <1>3, <1>6, <2>2, <2>3 DEF Promise!RotateFirst, Promise!NotRotated, NotRotated
<1>. QED  BY <1>3, <1>4, <1>13 DEF Promise!Next

LEMMA AgainKept ==
    ASSUME RowsOK, NEW d \in Caller, calls[d] # Nothing, ChainOK(d), Commits(d), SameAsked(d), Todo(d) = {},
           Again(d), ChainGoes(d), NEW s \in Token, Succeeds(d, s), EndsBut(d, s)
    PROVE  Promise!Next
<1>. USE DEF RowsOK
<1>1. PICK t, at : t = calls[d].key /\ at = calls[d].at
  OBVIOUS
<1>2. Going(d) /\ ~table[t].revoked /\ table[t].rotated # NotRotated /\ ~IsLate(d)
      /\ calls[d].keep = t /\ ~Wrote(d, t)
  BY <1>1 DEF Again, Reached
<1>3. /\ s # t /\ t \in Token /\ SessionOf(t, "name") # NoRow /\ ~SessionOf(t, "name").revoked
      /\ at < SessionOf(t, "name").expires /\ s \notin issued /\ issued' = issued \cup {s}
      /\ [k \in Code |-> CodeOf(k, "name")]' = [k \in Code |-> CodeOf(k, "name")]
      /\ UNCHANGED Promise!asked
  <2>1. \A k \in Digest \ {s, calls[d].key} : Ended(d, k)
    BY DEF EndsBut
  <2>. QED  BY <1>1, <1>2, <2>1, RefreshSeen
<1>4. t \in Digest /\ s \in Digest /\ at \in 0..MaxClock /\ at \in Nat
  BY <1>1, <1>3, ClockAssumption DEF Digest, TypeOK, CallRecord
<1>5. table[t] # NoRow /\ table[t] \in SessionRow /\ table[t].root = calls[d].root
  BY <1>1, <1>2, <1>4, <1>3, HeldRow DEF Going, ChainOK
<1>6. /\ SessionOf(t, "name").rotated # NotRotated /\ at <= SessionOf(t, "name").rotated + Grace
      /\ SessionOf(t, "name").root = calls[d].root
  <2>1. SessionOf(t, "name").rotated = table[t].rotated /\ SessionOf(t, "name").root = calls[d].root
    BY <1>3, <1>5, SessionSeen
  <2>2. table[t].rotated \in Nat
    BY <1>2, <1>5 DEF SessionRow
  <2>3. at <= table[t].rotated + Grace
    BY <1>1, <1>2, <1>4, <2>2, TtlAssumption DEF IsLate
  <2>. QED  BY <1>2, <2>1, <2>3
<1>7. SessionOf(s, "name")' = Promise!Successor(t)
  BY <1>1, <1>2, SuccessorIs
<1>8. \A u \in Token : InChain(d, u) /\ u # t => u # s
  BY <1>3, <1>4 DEF InChain, RowsAreIssued, Digest
<1>9. \A u \in Token : InChain(d, u) /\ u # t =>
            SessionOf(u, "name")' = [SessionOf(u, "name") EXCEPT !.revoked = TRUE]
  <2>. SUFFICES ASSUME NEW u \in Token, InChain(d, u), u # t
                PROVE  SessionOf(u, "name")' = [SessionOf(u, "name") EXCEPT !.revoked = TRUE]
    OBVIOUS
  <2>1. u \in Digest \ {s} /\ table[u] # NoRow
    BY <1>8 DEF Digest, InChain
  <2>2. Wrote(d, u) => Over(d, u, [table[u] EXCEPT !.revoked = TRUE])
    BY <2>1 DEF EndsBut, Ended
  <2>3. table[u].revoked \/ Wrote(d, u)
    BY <1>2 DEF ChainGoes, Gone_, Reached
  <2>. QED  BY <2>1, <2>2, <2>3, TokenEnds
<1>10. \A u \in Token : u # s /\ ~(InChain(d, u) /\ u # t) => SessionOf(u, "name")' = SessionOf(u, "name")
  <2>. SUFFICES ASSUME NEW u \in Token, u # s, ~(InChain(d, u) /\ u # t)
                PROVE  SessionOf(u, "name")' = SessionOf(u, "name")
    OBVIOUS
  <2>1. ~Wrote(d, u)
    BY <1>2 DEF EndsBut, Ended, Digest
  <2>. QED  BY <2>1, CommitSeen
<1>11. PICK chain : chain = {u \in Token : InChain(d, u)}
  OBVIOUS
<1>12. Promise!Chain([w \in Token |-> SessionOf(w, "name")][t].root) = chain
  BY <1>3, <1>6, <1>11, ChainFound
<1>13. Promise!RotateAgain(t, s, at)
  <2>1. [u \in Token |-> SessionOf(u, "name")]'
           = [u \in Token |->
                IF u = s THEN Promise!Successor(t)
                ELSE IF u \in chain \ {t} THEN [SessionOf(u, "name") EXCEPT !.revoked = TRUE]
                ELSE SessionOf(u, "name")]
    BY <1>7, <1>8, <1>9, <1>10, <1>11
  <2>2. [u \in Token |-> SessionOf(u, "name")]'
           = [u \in Token |->
                IF u = s THEN Promise!Successor(t)
                ELSE IF u \in chain \ {t}
                     THEN [[w \in Token |-> SessionOf(w, "name")][u] EXCEPT !.revoked = TRUE]
                ELSE [w \in Token |-> SessionOf(w, "name")][u]]
    BY <2>1
  <2>3. Promise!Live(t)
    BY <1>3 DEF Promise!Live
  <2>. QED  BY <1>3, <1>6, <1>12, <2>2, <2>3 DEF Promise!RotateAgain, Promise!NotRotated, NotRotated
<1>. QED  BY <1>3, <1>4, <1>13 DEF Promise!Next

LEMMA RefreshKept ==
    ASSUME RowsOK, NEW d \in Caller, CallOK(d), calls[d].op = "refresh", Commits(d)
    PROVE  UNCHANGED Promise!vars \/ Promise!Next
<1>1. calls[d] # Nothing /\ Todo(d) = {} /\ calls[d].pc = "commit" /\ ChainOK(d) /\ RefreshOK(d)
      /\ calls'[d] = Nothing
  BY CommitAsks DEF CallOK, ChainOK
<1>2. SameAsked(d)
  BY <1>1, AskedNothing DEF RowsOK
<1>3. \/ Again(d) /\ ChainGoes(d) /\ \E s \in Token : Succeeds(d, s) /\ EndsBut(d, s)
      \/ /\ First(d) /\ Marked(d) /\ RetiresPred(d)
         /\ \E s \in Token :
               /\ Succeeds(d, s)
               /\ \A k \in Digest \ {s, calls[d].key} :
                     Ended(d, k) /\ (Wrote(d, k) => k = table[calls[d].key].pred)
      \/ Clear(d)
      \/ Ending(d) /\ EndsOnly(d) /\ ChainGoes(d)
  BY <1>1 DEF RefreshOK
<1>4. CASE Again(d) /\ ChainGoes(d) /\ \E s \in Token : Succeeds(d, s) /\ EndsBut(d, s)
  BY <1>1, <1>2, <1>4, AgainKept
<1>5. CASE /\ First(d) /\ Marked(d) /\ RetiresPred(d)
           /\ \E s \in Token :
                 /\ Succeeds(d, s)
                 /\ \A k \in Digest \ {s, calls[d].key} :
                       Ended(d, k) /\ (Wrote(d, k) => k = table[calls[d].key].pred)
  BY <1>1, <1>2, <1>5, FirstKept
<1>6. CASE Clear(d)
  BY <1>2, <1>6, ClearKept
<1>7. CASE Ending(d) /\ EndsOnly(d) /\ ChainGoes(d)
  <2>1. calls[d].keep = NoToken
    BY <1>7 DEF Ending
  <2>. QED  BY <1>1, <1>2, <1>7, <2>1, ChainEnds
<1>. QED  BY <1>3, <1>4, <1>5, <1>6, <1>7

LEMMA EndKept ==
    ASSUME RowsOK, NEW d \in Caller, CallOK(d), calls[d].op = "end", Commits(d)
    PROVE  Promise!Next
<1>. USE DEF RowsOK
<1>1. calls[d] # Nothing /\ Todo(d) = {} /\ calls[d].pc = "commit" /\ EndOK(d)
      /\ EndingOf(d)' = Nothing /\ RewritingOf(d, "rename")' = Nothing
  BY CommitAsks DEF CallOK
<1>2. PICK who, chains, codes : who = calls[d].who /\ chains = calls[d].chains /\ codes = calls[d].codes
  OBVIOUS
<1>3. /\ EndingOf(d) # Nothing /\ EndingOf(d).who = who /\ EndingOf(d).chains = chains
      /\ EndingOf(d).codes = codes /\ RewritingOf(d, "rename") = Nothing
  BY <1>1, <1>2, EndingIs
<1>4. /\ \A t \in Token : Wrote(d, t) => EndsToken(d, t)
      /\ \A k \in Code : Wrote(d, k) => SpendsCode(d, k)
      /\ \A t \in Token : table[t] # NoRow /\ table[t].subject \in who /\ table[t].root \in chains
            => Wrote(d, t) \/ table[t].revoked
      /\ \A k \in codes : table[k] # NoRow /\ table[k].subject \in who => Wrote(d, k) \/ table[k].redeemed
  BY <1>1, <1>2 DEF EndOK, FoundEnd, Gone_, Reached
<1>5. /\ \A t \in Token : Wrote(d, t) =>
            /\ table[t] # NoRow /\ table[t].subject \in who
            /\ Over(d, t, [table[t] EXCEPT !.revoked = TRUE])
      /\ \A k \in Code : Wrote(d, k) =>
            /\ table[k] # NoRow /\ table[k].subject \in who
            /\ Over(d, k, [table[k] EXCEPT !.redeemed = TRUE])
  <2>1. \A k \in Digest : holder[k] = d => table[k] # NoRow
    BY HeldRow
  <2>2. \A t \in Token : Wrote(d, t) => Ours(d, t) /\ holder[t] = d /\ Over(d, t, [table[t] EXCEPT !.revoked = TRUE])
    BY <1>4 DEF EndsToken, Over
  <2>3. \A k \in Code : Wrote(d, k) => Ours(d, k) /\ holder[k] = d /\ Over(d, k, [table[k] EXCEPT !.redeemed = TRUE])
    BY <1>4 DEF SpendsCode, Over
  <2>. QED  BY <1>2, <2>1, <2>2, <2>3 DEF Ours, Digest
<1>6. PICK gone : gone = {t \in SessionsOf(who) : table[t].revoked \/ Wrote(d, t)}
  OBVIOUS
<1>7. PICK spent : spent = {k \in CodesOf(who) : table[k].redeemed \/ Wrote(d, k)}
  OBVIOUS
<1>8. [t \in Token |-> SessionOf(t, "name")]' = Promise!Revoking(gone)
  <2>1. gone \in SUBSET Token /\ \A t \in gone : table[t] # NoRow /\ (table[t].revoked \/ Wrote(d, t))
    BY <1>6 DEF SessionsOf
  <2>2. \A t \in Token : Wrote(d, t) => t \in gone /\ Over(d, t, [table[t] EXCEPT !.revoked = TRUE])
    BY <1>5, <1>6 DEF SessionsOf
  <2>. QED  BY <2>1, <2>2, RevokingIs
<1>9. [k \in Code |-> CodeOf(k, "name")]' = Promise!Spending(spent)
  <2>1. spent \in SUBSET Code /\ \A k \in spent : table[k] # NoRow /\ (table[k].redeemed \/ Wrote(d, k))
    BY <1>7 DEF CodesOf
  <2>2. \A k \in Code : Wrote(d, k) => k \in spent /\ Over(d, k, [table[k] EXCEPT !.redeemed = TRUE])
    BY <1>5, <1>7 DEF CodesOf
  <2>. QED  BY <2>1, <2>2, SpendingIs
<1>10. gone \in SUBSET Promise!SessionsOf(who) /\ spent \in SUBSET Promise!CodesOf(who)
  BY <1>6, <1>7, PromiseFinds
<1>11. {t \in Promise!SessionsOf(who) : [u \in Token |-> SessionOf(u, "name")][t].root \in chains} \subseteq gone
  <2>. SUFFICES ASSUME NEW t \in SessionsOf(who), [u \in Token |-> SessionOf(u, "name")][t].root \in chains
                PROVE  t \in gone
    BY PromiseFinds
  <2>1. t \in Token /\ table[t] # NoRow /\ table[t].subject \in who
    BY DEF SessionsOf
  <2>2. table[t].root \in chains
    BY <2>1, SessionSeen
  <2>. QED  BY <1>4, <1>6, <2>1, <2>2
<1>12. codes \cap Promise!CodesOf(who) \subseteq spent
  <2>. SUFFICES ASSUME NEW k \in codes, k \in CodesOf(who)  PROVE k \in spent
    BY PromiseFinds
  <2>. QED  BY <1>4, <1>7 DEF CodesOf
<1>13. issued' = issued
  BY <1>5, CommitIssues DEF Digest
<1>14. /\ [c \in Caller |-> EndingOf(c)]' = [[c \in Caller |-> EndingOf(c)] EXCEPT ![d] = Nothing]
       /\ [c \in Caller |-> RewritingOf(c, "rename")]' = [c \in Caller |-> RewritingOf(c, "rename")]
  BY <1>1, <1>3, CommitSeen DEF SameAsked
<1>15. Promise!EndSessionsOf(d)
  <2>1. [c \in Caller |-> EndingOf(c)][d] = EndingOf(d)
    OBVIOUS
  <2>2. \E set \in SUBSET Promise!SessionsOf(who) : \E of \in SUBSET Promise!CodesOf(who) :
            /\ {t \in Promise!SessionsOf(who) : [u \in Token |-> SessionOf(u, "name")][t].root \in chains}
                  \subseteq set
            /\ codes \cap Promise!CodesOf(who) \subseteq of
            /\ [t \in Token |-> SessionOf(t, "name")]' = Promise!Revoking(set)
            /\ [k \in Code |-> CodeOf(k, "name")]' = Promise!Spending(of)
    BY <1>8, <1>9, <1>10, <1>11, <1>12
  <2>. QED  BY <1>3, <1>13, <1>14, <2>1, <2>2 DEF Promise!EndSessionsOf
<1>. QED  BY <1>15 DEF Promise!Next

\* What a rename or a change of address writes.
LEMMA RewriteSeen ==
    ASSUME RowsOK, NEW d \in Caller, CallOK(d), calls[d].op \in {"rename", "readdress"}, Commits(d)
    PROVE  /\ \A k \in Digest : Wrote(d, k) => table[k] # NoRow
           /\ \A t \in Token : Wrote(d, t) => table[t].subject \in calls[d].who /\ NameToken(d, t)
           /\ \A k \in Code : Wrote(d, k) => table[k].subject \in calls[d].who /\ NameCode(d, k)
           /\ calls[d].op = "rename" =>
                 /\ \A t \in Token : Wrote(d, t) =>
                       SessionOf(t, "name")' = [SessionOf(t, "name") EXCEPT !.name = calls[d].set]
                 /\ \A k \in Code : Wrote(d, k) =>
                       CodeOf(k, "name")' = [CodeOf(k, "name") EXCEPT !.name = calls[d].set]
           /\ calls[d].op = "readdress" =>
                 /\ \A t \in Token : SessionOf(t, "name")' = SessionOf(t, "name")
                 /\ \A k \in Code : CodeOf(k, "name")' = CodeOf(k, "name")
<1>. USE DEF RowsOK
<1>1. calls[d] # Nothing /\ Todo(d) = {} /\ calls[d].pc = "commit" /\ RewriteOK(d)
  BY CommitAsks DEF CallOK
<1>2. PICK set : set = calls[d].set
  OBVIOUS
<1>3. /\ \A t \in Token : Wrote(d, t) => Ours(d, t) /\ NameToken(d, t) /\ Over(d, t, Named(d, table[t]))
      /\ \A k \in Code : Wrote(d, k) => Ours(d, k) /\ NameCode(d, k) /\ Over(d, k, Named(d, table[k]))
      /\ set \in (IF calls[d].op = "rename" THEN Name ELSE Email)
  BY <1>1, <1>2 DEF RewriteOK
<1>4. \A k \in Digest : Wrote(d, k) => table[k] # NoRow
  <2>1. \A k \in Digest : Wrote(d, k) => holder[k] = d
    BY <1>3 DEF Over, Digest
  <2>. QED  BY <2>1, HeldRow
<1>5. \A t \in Token : Wrote(d, t) => table[t].subject \in calls[d].who /\ NameToken(d, t)
  BY <1>3, <1>4 DEF Ours, Digest
<1>6. \A k \in Code : Wrote(d, k) => table[k].subject \in calls[d].who /\ NameCode(d, k)
  BY <1>3, <1>4 DEF Ours, Digest
<1>7. ASSUME NEW t \in Token, Wrote(d, t)
      PROVE  /\ calls[d].op = "rename" =>
                   SessionOf(t, "name")' = [SessionOf(t, "name") EXCEPT !.name = set]
             /\ calls[d].op = "readdress" => SessionOf(t, "name")' = SessionOf(t, "name")
  <2>1. PICK old, row : old = table[t] /\ row = draft[d][t]
    OBVIOUS
  <2>2. old \in SessionRow /\ SessionOf(t, "name") = SeenToken(old)
    BY <1>4, <1>7, <2>1, SessionSeen DEF Digest
  <2>3. row = Named(d, old) /\ table'[t] = row
    BY <1>3, <1>7, <2>1, CommitSeen DEF Over, Digest
  <2>4. CASE calls[d].op = "rename"
    <3>1. set \in Name /\ row = [old EXCEPT !.name = set]
      BY <1>2, <1>3, <2>3, <2>4 DEF Named
    <3>2. row \in SessionRow /\ SeenToken(row) = [SeenToken(old) EXCEPT !.name = set]
      BY <2>2, <3>1, SeenNamed
    <3>. QED  BY <2>2, <2>3, <2>4, <3>2, SessionOfIs, NullAssumption
  <2>5. CASE calls[d].op = "readdress"
    <3>1. set \in Email /\ row = [old EXCEPT !.email = set]
      BY <1>2, <1>3, <2>3, <2>5 DEF Named
    <3>2. row \in SessionRow /\ SeenToken(row) = SeenToken(old)
      BY <2>2, <3>1, SeenNamed
    <3>. QED  BY <2>2, <2>3, <2>5, <3>2, SessionOfIs, NullAssumption
  <2>. QED  BY <2>4, <2>5
<1>8. ASSUME NEW k \in Code, Wrote(d, k)
      PROVE  /\ calls[d].op = "rename" =>
                   CodeOf(k, "name")' = [CodeOf(k, "name") EXCEPT !.name = set]
             /\ calls[d].op = "readdress" => CodeOf(k, "name")' = CodeOf(k, "name")
  <2>1. PICK old, row : old = table[k] /\ row = draft[d][k]
    OBVIOUS
  <2>2. old \in CodeRow /\ CodeOf(k, "name") = SeenCode(old)
    BY <1>4, <1>8, <2>1, CodeSeen DEF Digest
  <2>3. row = Named(d, old) /\ table'[k] = row
    BY <1>3, <1>8, <2>1, CommitSeen DEF Over, Digest
  <2>4. CASE calls[d].op = "rename"
    <3>1. set \in Name /\ row = [old EXCEPT !.name = set]
      BY <1>2, <1>3, <2>3, <2>4 DEF Named
    <3>2. row \in CodeRow /\ SeenCode(row) = [SeenCode(old) EXCEPT !.name = set]
      BY <2>2, <3>1, SeenNamed
    <3>. QED  BY <2>2, <2>3, <2>4, <3>2, CodeOfIs, NullAssumption
  <2>5. CASE calls[d].op = "readdress"
    <3>1. set \in Email /\ row = [old EXCEPT !.email = set]
      BY <1>2, <1>3, <2>3, <2>5 DEF Named
    <3>2. row \in CodeRow /\ SeenCode(row) = SeenCode(old)
      BY <2>2, <3>1, SeenNamed
    <3>. QED  BY <2>2, <2>3, <2>5, <3>2, CodeOfIs, NullAssumption
  <2>. QED  BY <2>4, <2>5
<1>9. calls[d].op = "readdress" => \A t \in Token : SessionOf(t, "name")' = SessionOf(t, "name")
  BY <1>7, CommitSeen
<1>10. calls[d].op = "readdress" => \A k \in Code : CodeOf(k, "name")' = CodeOf(k, "name")
  BY <1>8, CommitSeen
<1>. QED  BY <1>2, <1>4, <1>5, <1>6, <1>7, <1>8, <1>9, <1>10

LEMMA ReaddressKept ==
    ASSUME RowsOK, NEW d \in Caller, CallOK(d), calls[d].op = "readdress", Commits(d)
    PROVE  UNCHANGED Promise!vars
<1>1. SameAsked(d)
  BY CommitAsks, AskedNothing DEF RowsOK
<1>2. issued' = issued
  BY RewriteSeen, CommitIssues
<1>3. SameTables
  BY RewriteSeen DEF SameTables
<1>. QED  BY <1>1, <1>2, <1>3, CommitSeen, Stutters

LEMMA RenameKept ==
    ASSUME RowsOK, NEW d \in Caller, CallOK(d), calls[d].op = "rename", Commits(d)
    PROVE  Promise!Next
<1>. USE DEF RowsOK
<1>1. calls[d] # Nothing /\ Todo(d) = {} /\ calls[d].pc = "commit" /\ RewriteOK(d)
      /\ EndingOf(d)' = Nothing /\ RewritingOf(d, "rename")' = Nothing
  BY CommitAsks DEF CallOK
<1>2. PICK who, chains, codes, set, at, call :
          /\ who = calls[d].who /\ chains = calls[d].chains /\ codes = calls[d].codes
          /\ set = calls[d].set /\ at = calls[d].at /\ call = RewritingOf(d, "rename")
  OBVIOUS
<1>3. /\ call # Nothing /\ call.who = who /\ call.chains = chains /\ call.codes = codes
      /\ call.name = set /\ call.at = at /\ EndingOf(d) = Nothing
  BY <1>1, <1>2, RenamingIs
<1>4. PICK these, those : these = {t \in Token : Wrote(d, t)} /\ those = {k \in Code : Wrote(d, k)}
  OBVIOUS
<1>5. /\ \A t \in these : /\ table[t] # NoRow /\ table[t].subject \in who /\ NameToken(d, t)
                          /\ SessionOf(t, "name")' = [SessionOf(t, "name") EXCEPT !.name = set]
      /\ \A k \in those : /\ table[k] # NoRow /\ table[k].subject \in who /\ NameCode(d, k)
                            /\ CodeOf(k, "name")' = [CodeOf(k, "name") EXCEPT !.name = set]
      /\ issued' = issued
  BY <1>2, <1>4, RewriteSeen, CommitIssues DEF Digest
<1>6. /\ \A t \in Token \ these : SessionOf(t, "name")' = SessionOf(t, "name")
      /\ \A k \in Code \ those : CodeOf(k, "name")' = CodeOf(k, "name")
  BY <1>4, CommitSeen
<1>7. /\ \A t \in Token : FoundBy(d, t) /\ NameToken(d, t) => t \in these
      /\ \A k \in codes : k \in Code /\ table[k] # NoRow /\ table[k].subject \in who /\ NameCode(d, k)
            => k \in those
  BY <1>1, <1>2, <1>4 DEF RewriteOK, Reached
<1>8. Promise!Renamable(call) = {t \in SessionsOf(who) : NameToken(d, t)}
  <2>1. \A t \in SessionsOf(who) :
            (~[u \in Token |-> SessionOf(u, "name")][t].revoked
               /\ at < [u \in Token |-> SessionOf(u, "name")][t].expires) <=> NameToken(d, t)
    BY <1>2, SessionSeen DEF SessionsOf, NameToken
  <2>2. Promise!Renamable(call)
           = {t \in SessionsOf(who) : ~[u \in Token |-> SessionOf(u, "name")][t].revoked
                                      /\ at < [u \in Token |-> SessionOf(u, "name")][t].expires}
    <3>1. Promise!SessionsOf(call.who) = SessionsOf(who)
      BY <1>3, PromiseFinds
    <3>. QED  BY <1>3, <3>1 DEF Promise!Renamable
  <2>. QED  BY <2>1, <2>2
<1>9. Promise!Waiting(call) = {k \in CodesOf(who) : NameCode(d, k)}
  <2>1. \A k \in CodesOf(who) :
            (~[j \in Code |-> CodeOf(j, "name")][k].redeemed
               /\ at < [j \in Code |-> CodeOf(j, "name")][k].expires) <=> NameCode(d, k)
    BY <1>2, CodeSeen DEF CodesOf, NameCode
  <2>. QED  BY <1>3, <2>1, PromiseFinds DEF Promise!Waiting
<1>10. these \in SUBSET Promise!Renamable(call) /\ those \in SUBSET Promise!Waiting(call)
  BY <1>4, <1>5, <1>8, <1>9 DEF SessionsOf, CodesOf
<1>11. {t \in Promise!Renamable(call) : Promise!Found(t, call)} \subseteq these
  <2>. SUFFICES ASSUME NEW t \in SessionsOf(who), NameToken(d, t), Promise!Found(t, call)
                PROVE  t \in these
    BY <1>8
  <2>1. t \in Token /\ table[t] # NoRow /\ table[t].subject \in who
    BY DEF SessionsOf
  <2>2. table[t].root \in chains \/ table[t].code \in codes
    BY <1>3, <2>1, SessionSeen DEF Promise!Found
  <2>3. FoundBy(d, t)
    BY <1>2, <2>1, <2>2 DEF FoundBy
  <2>. QED  BY <1>7, <2>1, <2>3
<1>12. codes \cap Promise!Waiting(call) \subseteq those
  BY <1>7, <1>9 DEF CodesOf
<1>13. /\ [t \in Token |-> SessionOf(t, "name")]'
             = [t \in Token |-> IF t \in these THEN [SessionOf(t, "name") EXCEPT !.name = set]
                                               ELSE SessionOf(t, "name")]
       /\ [k \in Code |-> CodeOf(k, "name")]'
             = [k \in Code |-> IF k \in those THEN [CodeOf(k, "name") EXCEPT !.name = set]
                                                ELSE CodeOf(k, "name")]
  BY <1>5, <1>6
<1>14. /\ [c \in Caller |-> RewritingOf(c, "rename")]'
             = [[c \in Caller |-> RewritingOf(c, "rename")] EXCEPT ![d] = Nothing]
       /\ [c \in Caller |-> EndingOf(c)]' = [c \in Caller |-> EndingOf(c)]
  BY <1>1, <1>3, CommitSeen DEF SameAsked
<1>15. Promise!RenameSessionsOf(d)
  <2>. DEFINE now == [c \in Caller |-> RewritingOf(c, "rename")]
  <2>. DEFINE sessions == [u \in Token |-> SessionOf(u, "name")]
  <2>. DEFINE pairings == [j \in Code |-> CodeOf(j, "name")]
  <2>1. now[d] = call
    BY <1>2
  <2>2. now[d] # Nothing
    BY <1>3, <2>1
  <2>3. \E named \in SUBSET Promise!Renamable(now[d]) :
          \E written \in SUBSET Promise!Waiting(now[d]) :
            /\ {t \in Promise!Renamable(now[d]) : Promise!Found(t, now[d])} \subseteq named
            /\ now[d].codes \cap Promise!Waiting(now[d]) \subseteq written
            /\ [t \in Token |-> SessionOf(t, "name")]'
                  = [t \in Token |-> IF t \in named
                                     THEN [sessions[t] EXCEPT !.name = now[d].name]
                                     ELSE sessions[t]]
            /\ [k \in Code |-> CodeOf(k, "name")]'
                  = [k \in Code |-> IF k \in written
                                    THEN [pairings[k] EXCEPT !.name = now[d].name]
                                    ELSE pairings[k]]
    <3>1. [t \in Token |-> SessionOf(t, "name")]'
             = [t \in Token |-> IF t \in these
                                THEN [sessions[t] EXCEPT !.name = set]
                                ELSE sessions[t]]
      BY <1>13
    <3>2. [k \in Code |-> CodeOf(k, "name")]'
             = [k \in Code |-> IF k \in those
                               THEN [pairings[k] EXCEPT !.name = set]
                               ELSE pairings[k]]
      BY <1>13
    <3>. QED  BY <1>3, <1>10, <1>11, <1>12, <2>1, <3>1, <3>2
  <2>4. UNCHANGED <<issued, [c \in Caller |-> EndingOf(c)]>>
    BY <1>5, <1>14
  <2>. QED  BY <1>14, <2>2, <2>3, <2>4 DEF Promise!RenameSessionsOf
<1>. QED  BY <1>15 DEF Promise!Next

-----------------------------------------------------------------------------
(* The promise.                                                             *)

LEMMA CommitKept ==
    ASSUME RowsOK, NEW d \in Caller, CallOK(d), Commits(d)
    PROVE  UNCHANGED Promise!vars \/ Promise!Next
<1>1. calls[d].op \in Op
  BY CommitAsks DEF RowsOK, TypeOK, CallRecord
<1>. QED  BY <1>1, PairKept, RefreshKept, LogoutKept, EndKept, RenameKept, ReaddressKept DEF Op

LEMMA SameKept ==
    ASSUME RowsOK, UNCHANGED <<table, calls, issued>>
    PROVE  UNCHANGED Promise!vars
<1>1. \A c \in Caller : SameAsked(c)
  BY AskedStays DEF RowsOK
<1>. QED  BY <1>1, TablesStay, Stutters

LEMMA StepKept == IInv /\ [Next]_vars => [UNCHANGED Promise!vars \/ Promise!Next]_(Promise!vars)
<1>. SUFFICES ASSUME IInv, [Next]_vars
              PROVE  UNCHANGED Promise!vars \/ Promise!Next
  OBVIOUS
<1>. USE DEF IInv
<1>1. \A c \in Caller : CallOK(c)
  BY DEF CallsOK
<1>2. CASE \E k \in Code, p \in Person, n \in Name, e \in Email : CreatePairing(k, p, n, e)
  <2>1. PICK k \in Code, p \in Person, n \in Name, e \in Email : CreatePairing(k, p, n, e)
    BY <1>2
  <2>2. Promise!CreatePairing(k, p, n, clock) /\ clock \in 0..MaxClock
    BY <2>1, CreateKept DEF RowsOK, TypeOK
  <2>. QED  BY <2>2 DEF Promise!Next
<1>3. CASE \E c \in Caller : Quiet(c) \/ Commits(c)
  BY <1>1, <1>3, QuietKept, CommitKept
<1>4. CASE Tick
  BY <1>4, SameKept DEF Tick, rows
<1>5. CASE UNCHANGED vars
  BY <1>5, SameKept DEF vars
<1>. QED
  <2>1. CASE Next
    <3>1. \/ \E k \in Code, p \in Person, n \in Name, e \in Email : CreatePairing(k, p, n, e)
          \/ \E c \in Caller : Quiet(c) \/ Commits(c)
          \/ Tick
      BY <2>1, NextKinds DEF Quiet
    <3>. QED  BY <1>2, <1>3, <1>4, <3>1
  <2>. QED  BY <1>5, <2>1

LEMMA InitKept == Init => Promise!Init
<1>. SUFFICES ASSUME Init  PROVE Promise!Init
  OBVIOUS
<1>1. /\ \A t \in Token : SessionOf(t, "name") = NoRow
      /\ \A k \in Code : CodeOf(k, "name") = NoRow
  BY DEF Init, SessionOf, CodeOf, Digest
<1>2. \A c \in Caller : EndingOf(c) = Nothing /\ RewritingOf(c, "rename") = Nothing
  BY DEF Init, EndingOf, RewritingOf, Asked
<1>. QED  BY <1>1, <1>2 DEF Promise!Init, Init

\* The statements and the locks of PostgreSQL keep the promise of the store, for any number
\* of callers, tokens and codes: every step is one whole operation of SessionPromise, or changes
\* nothing that a caller can see.
THEOREM PromiseIsKeptAlways == Spec => PromiseIsKept
<1>1. Init => Promise!Init
  BY InitKept
<1>2. IInv /\ [Next]_vars => [UNCHANGED Promise!vars \/ Promise!Next]_(Promise!vars)
  BY StepKept
<1>. QED  BY <1>1, <1>2, InvariantHolds, PTL DEF Spec, PromiseIsKept
==============================================================================
