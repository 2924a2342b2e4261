-------------------------- MODULE WorkspaceMembers --------------------------
(***************************************************************************)
(* The members of a workspace and the administrators of the instance, one    *)
(* step per lock of PostgreSQL: apps/worker/src/instance-admin-postgres.ts,  *)
(* holdMembers and dropWorkspace of accounts-postgres.ts, and the triggers   *)
(* of drizzle/0016_first_admin.sql and 0020_workspace_keeps_owner.sql.       *)
(*                                                                          *)
(* A writer is a transaction of the worker, or one statement of a route of   *)
(* better-auth, which reads the members before, in no transaction.  Its locks *)
(* stay until it ends; a lock of a row is shared by the insertion of a row    *)
(* that names it (FOR KEY SHARE), and that one shares it with a writer that   *)
(* keeps the key (FOR NO KEY UPDATE).  A statement reads what is committed    *)
(* when it starts, and a row again once it holds it (READ COMMITTED).        *)
(*                                                                          *)
(* The ids of the members are in the order of their column, drawn at random. *)
(* Callers are in several processes: oneAtATime of auth-organization.ts puts  *)
(* the routes of one process in a line.  Left out: the suspension of a        *)
(* workspace (it refuses more), invitations, sites and notes, and the         *)
(* actions that the administrators read.                                     *)
(***************************************************************************)
EXTENDS Integers, FiniteSetsExt

CONSTANTS Account, Workspace,
          Membership,  \* the ids of the rows of members
          Caller,
          Ops,         \* the calls that a run lets callers make
          RoleLock,    \* the advisory lock ADMIN_ROLE_LOCK
          NoRow, Nothing, Untouched

ASSUME IdAssumption == Membership \subseteq Nat /\ Workspace \subseteq Nat

VARIABLES table,  \* the committed rows of the members, workspaces and accounts
          draft,  \* what each transaction wrote and did not commit
          locks,
          calls   \* the call that each caller is in

vars == <<table, draft, locks, calls>>

Key == Membership \cup Workspace \cup Account

\* The three roles that are not "owner" differ by what they may do only.
Role == {"owner", "other"}

MemberRow == [of : Workspace, who : Account, role : Role]
AccountRow == [admin : BOOLEAN, banned : BOOLEAN]

\* A call and the fields it has no use for, which are Nothing.
CallRecord ==
    [op : {"signUp", "route", "join", "create", "drop", "dropAsAdmin", "setRole", "add", "setOwner",
           "erase"},
     pc : {"role", "insert", "in", "names", "write", "trigger", "workspace", "delete", "add", "change",
           "others", "give", "user", "workspaces", "sole", "erased", "commit"},
     by : Account \cup {Nothing}, who : Account \cup {Nothing},
     member : Membership \cup {Nothing}, in : Workspace \cup {Nothing},
     role : Role \cup {"gone", Nothing}, does : {"hold", "erase"},
     todo : SUBSET (Membership \cup Workspace), old : SUBSET Membership]

\* One function holds the rows of the three tables: their ids are apart.
ASSUME KeyAssumption ==
    /\ Membership \cap Workspace = {}
    /\ Account \cap (Membership \cup Workspace) = {}
    /\ RoleLock \notin Key

ASSUME NullAssumption ==
    /\ Nothing \notin CallRecord /\ Nothing \notin Account
    /\ NoRow \notin MemberRow \cup AccountRow \cup {"workspace"}
    /\ Untouched \notin MemberRow \cup AccountRow \cup {"workspace", NoRow}

View(c) == [k \in Key |-> IF draft[c][k] = Untouched THEN table[k] ELSE draft[c][k]]

MembersOf(w, rows) == {m \in Membership : rows[m] # NoRow /\ rows[m].of = w}
MembershipsOf(a, rows) == {m \in Membership : rows[m] # NoRow /\ rows[m].who = a}
OwnersOf(w, rows) == {m \in MembersOf(w, rows) : rows[m].role = "owner"}
Accounts(rows) == {a \in Account : rows[a] # NoRow}

\* IS_ADMIN: the role, and not suspended.
Admins(rows) == {a \in Accounts(rows) : rows[a].admin /\ ~rows[a].banned}

-----------------------------------------------------------------------------
(* Locks.                                                                   *)

Compatible(one, other) == "share" \in {one, other} /\ "update" \notin {one, other}

Free(c, on, how) == \A l \in locks : l.on = on /\ l.by # c => Compatible(l.how, how)

Held(c, on, how) == locks \cup {[by |-> c, on |-> on, how |-> how]}

\* The rows that a statement goes on with: SELECT ... ORDER BY id FOR UPDATE takes
\* them in order, a cascade in any order.
NextRows(call) == IF call.does = "hold" /\ call.todo # {} THEN {Min(call.todo)} ELSE call.todo

\* The lock that the next step of this call takes, if it takes one.
Wanted(call) ==
    IF call = Nothing THEN {}
    ELSE IF call.todo # {} THEN {[on |-> k, how |-> "update"] : k \in NextRows(call)}
    ELSE CASE call.pc = "role"      -> {[on |-> RoleLock, how |-> "update"]}
           [] call.pc = "write"     -> {[on |-> call.member, how |-> "update"]}
           [] call.pc = "trigger"   -> {[on |-> call.in, how |-> "write"]}
           [] call.pc = "workspace" -> {[on |-> call.in,
                                         how |-> IF call.op = "drop" THEN "write" ELSE "update"]}
           [] call.pc = "delete"    -> {[on |-> call.in, how |-> "update"]}
           [] call.pc = "in"        -> {[on |-> call.in, how |-> "share"]}
           [] call.pc = "names"     -> {[on |-> call.who, how |-> "share"]}
           [] call.pc = "user"      -> {[on |-> call.who, how |-> "update"]}
           [] OTHER                 -> {}

\* The call is at this step, between two statements, and its lock is free.
At(c, pc) ==
    /\ calls[c] # Nothing
    /\ calls[c].pc = pc
    /\ calls[c].todo = {}
    /\ \A lock \in Wanted(calls[c]) : Free(c, lock.on, lock.how)

\* The row that the step takes, read again now that nobody else holds it.
Taken(c) ==
    LET lock == CHOOSE l \in Wanted(calls[c]) : TRUE
    IN Held(c, lock.on, lock.how)

Goes(c, pc) == calls' = [calls EXCEPT ![c].pc = pc]

Clean(c) == [draft EXCEPT ![c] = [k \in Key |-> Untouched]]

\* Mutant of Unlocked: pg_advisory_lock, which outlives the transaction.
UnlockedRows(c) == {l \in locks : l.by # c \/ l.on = RoleLock}

Unlocked(c) == {l \in locks : l.by # c}

\* The transaction ends with nothing written: the call was refused, or it threw.
Rollback(c) ==
    /\ draft' = Clean(c)
    /\ locks' = Unlocked(c)
    /\ calls' = [calls EXCEPT ![c] = Nothing]
    /\ UNCHANGED table

Commit(c) ==
    /\ At(c, "commit")
    /\ table' = View(c)
    /\ draft' = Clean(c)
    /\ locks' = Unlocked(c)
    /\ calls' = [calls EXCEPT ![c] = Nothing]

\* A call starts a statement over these rows: it holds or deletes each that is
\* still there, and goes on at `next`.
Running(call, does, found, next) ==
    [call EXCEPT !.does = does, !.todo = found, !.pc = next]

Run(c, does, found, next) == calls' = [calls EXCEPT ![c] = Running(@, does, found, next)]

\* Mutant of HoldingMembers: the workspace is held first, and its members by their
\* deletion.
HoldingNoMember(call) == Running(call, "hold", {}, "workspace")

\* holdMembers.
HoldingMembers(call) == Running(call, "hold", MembersOf(call.in, table), "workspace")

Visit(c) ==
    /\ calls[c] # Nothing
    /\ \E k \in NextRows(calls[c]) :
        /\ Free(c, k, "update")
        /\ calls' = [calls EXCEPT ![c].todo = @ \ {k}]
        /\ IF View(c)[k] = NoRow
           THEN UNCHANGED <<draft, locks>>
           ELSE /\ locks' = Held(c, k, "update")
                /\ draft' = IF calls[c].does = "erase" THEN [draft EXCEPT ![c][k] = NoRow]
                                                       ELSE draft
    /\ UNCHANGED table

\* An id that no row has, and that no call knows from before: ids are drawn once,
\* and only the bound on them gives one again.
New(m) ==
    /\ table[m] = NoRow
    /\ \A c \in Caller :
        /\ draft[c][m] = Untouched
        /\ calls[c] # Nothing => m \notin calls[c].old \cup calls[c].todo

Unnamed(k) ==
    /\ table[k] = NoRow
    /\ \A c \in Caller : calls[c] # Nothing => k \notin {calls[c].in, calls[c].who, calls[c].by}

-----------------------------------------------------------------------------
(* The calls.                                                               *)

Init ==
    /\ table = [k \in Key |-> NoRow]
    /\ draft = [c \in Caller |-> [k \in Key |-> Untouched]]
    /\ locks = {}
    /\ calls = [c \in Caller |-> Nothing]

\* The fields that a call has no use for keep these values.  `old` is the members
\* of the instance when the call started.
Call(op, pc) ==
    [op |-> op, pc |-> pc, by |-> Nothing, who |-> Nothing, member |-> Nothing, in |-> Nothing,
     role |-> Nothing, does |-> "hold", todo |-> {},
     old |-> {m \in Membership : table[m] # NoRow}]

Starts(c, op, call) ==
    /\ op \in Ops
    /\ calls[c] = Nothing
    /\ calls' = [calls EXCEPT ![c] = call]

\* The trigger of 0016: the first account is the administrator.  It takes the
\* lock of the role only when it finds no account.
SignUpCalled(c, a) ==
    /\ Unnamed(a)
    /\ Starts(c, "signUp", [Call("signUp", IF Accounts(table) = {} THEN "role" ELSE "insert")
                              EXCEPT !.who = a])
    /\ UNCHANGED <<table, draft, locks>>

\* update-member-role, remove-member and leave: better-auth counts the owners, then
\* writes.  Role keeps an owner apart from the rest, so a change among the rest has the role
\* that is there, and writes it to whoever was made an owner meanwhile.
RouteCalled(c, m, role) ==
    /\ table[m] # NoRow
    /\ role = "owner" => table[m].role # "owner"
    /\ table[m].role = "owner" => OwnersOf(table[m].of, table) # {m}
    /\ Starts(c, "route", [Call("route", "write") EXCEPT !.member = m, !.in = table[m].of,
                                                         !.role = role])
    /\ UNCHANGED <<table, draft, locks>>

\* accept-invitation: better-auth adds a member that it did not find.
JoinCalled(c, w, a, role) ==
    /\ table[w] # NoRow /\ a \in Accounts(table)
    /\ MembersOf(w, table) \cap MembershipsOf(a, table) = {}
    /\ Starts(c, "join", [Call("join", "insert") EXCEPT !.in = w, !.who = a, !.role = role])
    /\ UNCHANGED <<table, draft, locks>>

\* createWorkspace, by a person for themselves or by an administrator.
CreateCalled(c, w, a, by) ==
    /\ Unnamed(w) /\ a \in Accounts(table)
    /\ Starts(c, "create", [Call("create", IF by = Nothing THEN "insert" ELSE "role")
                              EXCEPT !.in = w, !.who = a, !.by = by, !.role = "owner"])
    /\ UNCHANGED <<table, draft, locks>>

\* DELETE /console/workspaces/<id>, which read the role of its caller before.
DropCalled(c, w) ==
    /\ table[w] # NoRow
    /\ Starts(c, "drop", HoldingMembers([Call("drop", "workspace") EXCEPT !.in = w]))
    /\ UNCHANGED <<table, draft, locks>>

\* The writes of an administrator in a workspace: inWorkspace, and deleteWorkspace.
AdminCalled(c, op, by, w, a, role) ==
    /\ table[w] # NoRow
    /\ Starts(c, op, [Call(op, "role") EXCEPT !.by = by, !.in = w, !.who = a, !.role = role])
    /\ UNCHANGED <<table, draft, locks>>

\* deleteAccount.  A check alone ends as a refusal does.
EraseCalled(c, by, a) ==
    /\ a \in Accounts(table)
    /\ Starts(c, "erase", [Call("erase", "role") EXCEPT !.by = by, !.who = a])
    /\ UNCHANGED <<table, draft, locks>>

-----------------------------------------------------------------------------
(* Their steps.                                                             *)

HoldRole(c) ==
    /\ At(c, "role")
    /\ locks' = Taken(c)
    /\ calls' = [calls EXCEPT ![c] =
            CASE @.op = "erase" -> [@ EXCEPT !.pc = "user"]
              [] @.op \in {"signUp", "create"} -> [@ EXCEPT !.pc = "insert"]
              [] OTHER -> HoldingMembers(@)]
    /\ UNCHANGED <<table, draft>>

InsertAccount(c) ==
    /\ At(c, "insert") /\ calls[c].op = "signUp"
    /\ draft' = [draft EXCEPT ![c][calls[c].who] =
                    [admin |-> Accounts(table) = {}, banned |-> FALSE]]
    /\ Goes(c, "commit")
    /\ UNCHANGED <<table, locks>>

Row(call) == [of |-> call.in, who |-> call.who, role |-> call.role]

NoPerson(a) == a \notin Accounts(table) \/ table[a].banned

\* An administrator makes a workspace for an account that is not suspended.
Refused(c) ==
    /\ calls[c].by # Nothing
    /\ calls[c].by \notin Admins(table) \/ NoPerson(calls[c].who)

\* The new member, and the workspace that is made for it.
WithMember(c, m) ==
    [k \in Key |-> IF k = m THEN Row(calls[c])
                   ELSE IF k = calls[c].in /\ calls[c].op = "create" THEN "workspace"
                   ELSE draft[c][k]]

\* The rows of these accounts in the workspace of a call.
RowsOf(call, accounts) == {m \in MembersOf(call.in, table) : table[m].who \in accounts}

\* The key ("organizationId", "userId") is unique: an insertion waits for whoever
\* wrote a row of this account in this workspace, or inserts one, and has not ended.
InTheWay(c) ==
    {d \in Caller \ {c} :
        /\ calls[d] # Nothing
        /\ \/ calls[d].pc = "in" /\ calls[d].in = calls[c].in /\ calls[d].who = calls[c].who
           \/ \E m \in Membership :
                /\ draft[d][m] # Untouched
                /\ \E row \in {table[m], draft[d][m]} \ {NoRow} :
                        row.of = calls[c].in /\ row.who = calls[c].who}

InsertMember(c) ==
    /\ At(c, "insert") /\ calls[c].op \in {"join", "create"}
    /\ InTheWay(c) = {}
    /\ IF Refused(c) \/ RowsOf(calls[c], {calls[c].who}) # {} THEN Rollback(c)
       ELSE Goes(c, "in") /\ UNCHANGED <<table, draft, locks>>

\* The foreign keys of a new member name its workspace, then its account.  A row
\* that waits for its workspace is seen by its key only: it is written once it may be.
NameWorkspace(c) ==
    /\ At(c, "in")
    /\ IF calls[c].op = "join" /\ table[calls[c].in] = NoRow THEN Rollback(c)
       ELSE /\ \E m \in Membership :
                /\ New(m)
                /\ draft' = [draft EXCEPT ![c] = WithMember(c, m)]
            /\ locks' = Taken(c)
            /\ Goes(c, "names")
            /\ UNCHANGED table

NameAccount(c) ==
    /\ At(c, "names")
    /\ IF View(c)[calls[c].who] = NoRow THEN Rollback(c)
       ELSE locks' = Taken(c) /\ Goes(c, "commit") /\ UNCHANGED <<table, draft>>

\* The statement of a route.  The trigger of 0020 runs after it, when it takes an
\* owner away.
Write(c) ==
    /\ At(c, "write")
    /\ LET call == calls[c]
           row == table[call.member]
       IN IF row = NoRow THEN Rollback(c)
          ELSE /\ locks' = Taken(c)
               /\ draft' = [draft EXCEPT ![c][call.member] =
                    IF call.role = "gone" THEN NoRow ELSE [row EXCEPT !.role = call.role]]
               /\ Goes(c, IF row.role = "owner" /\ call.role # "owner" THEN "trigger" ELSE "commit")
               /\ UNCHANGED table

\* Mutant of Trigger: the owners are counted, and the workspace is not held.
TriggerUnheld(c) ==
    /\ At(c, "trigger")
    /\ IF table[calls[c].in] # NoRow /\ OwnersOf(calls[c].in, View(c)) = {} THEN Rollback(c)
       ELSE Goes(c, "commit") /\ UNCHANGED <<table, draft, locks>>

Trigger(c) ==
    /\ At(c, "trigger")
    /\ IF table[calls[c].in] # NoRow /\ OwnersOf(calls[c].in, View(c)) = {} THEN Rollback(c)
       ELSE locks' = Taken(c) /\ Goes(c, "commit") /\ UNCHANGED <<table, draft>>

\* With the checks of an administrator: only a holder of the role lock changes what
\* they read.  A deletion by an administrator then takes the path of the owner.
HoldWorkspace(c) ==
    /\ At(c, "workspace")
    /\ LET call == calls[c]
       IN IF table[call.in] = NoRow \/ (call.op # "drop" /\ call.by \notin Admins(table))
             \/ (call.op = "setOwner" /\ NoPerson(call.who))
          THEN Rollback(c)
          ELSE /\ locks' = Taken(c)
               /\ calls' = [calls EXCEPT ![c] =
                    CASE call.op = "drop"  -> [@ EXCEPT !.pc = "delete"]
                      [] call.op = "dropAsAdmin" -> HoldingMembers([@ EXCEPT !.op = "drop"])
                      [] call.op = "add" -> [@ EXCEPT !.pc = "add"]
                      [] call.op = "setRole" ->
                            Running(@, "hold", RowsOf(@, {call.who}), "change")
                      [] call.op = "setOwner" ->
                            Running(@, "hold", OwnersOf(call.in, table), "others")]
               /\ UNCHANGED <<table, draft>>

\* DELETE FROM organization, and the members that go with it.
Delete(c) ==
    /\ At(c, "delete")
    /\ locks' = Taken(c)
    /\ draft' = [draft EXCEPT ![c][calls[c].in] = NoRow]
    /\ Run(c, "erase", MembersOf(calls[c].in, table), "commit")
    /\ UNCHANGED table

\* Each row is written with this role.
Given(c, rows, role) ==
    [k \in Key |-> IF k \in rows THEN [table[k] EXCEPT !.role = role] ELSE draft[c][k]]

LastOwner(c, m) == table[m].role = "owner" /\ Cardinality(OwnersOf(calls[c].in, table)) <= 1

\* The trigger of the workspace that the call holds already.
NoOwnerIsLeft(c, rows, role) == role # "owner" /\ OwnersOf(calls[c].in, table) \subseteq rows

\* setMemberRole: the role of before is the one of the first row it found.
ChangeRole(c) ==
    /\ At(c, "change")
    /\ LET rows == RowsOf(calls[c], {calls[c].who})
           role == calls[c].role
           Refuses(m) == table[m].role = role \/ LastOwner(c, m) \/ NoOwnerIsLeft(c, rows, role)
       IN \/ (rows = {} \/ \E held \in rows : Refuses(held)) /\ Rollback(c)
          \/ /\ \E held \in rows : ~Refuses(held)
             /\ draft' = [draft EXCEPT ![c] = Given(c, rows, role)]
             /\ Goes(c, "commit")
             /\ UNCHANGED <<table, locks>>

AddMember(c) ==
    /\ At(c, "add")
    /\ IF calls[c].who \notin Accounts(table) \/ RowsOf(calls[c], {calls[c].who}) # {}
       THEN Rollback(c)
       ELSE /\ InTheWay(c) = {}
            /\ \E m \in Membership : New(m) /\ draft' = [draft EXCEPT ![c][m] = Row(calls[c])]
            /\ Goes(c, "names")
            /\ UNCHANGED <<table, locks>>

\* setOwner holds the owners, then what it writes: the rows of the new owner, and
\* of the others, who get the role "admin".
OwnersHeld(c) == {m \in OwnersOf(calls[c].in, table) : [by |-> c, on |-> m, how |-> "update"] \in locks}

OthersHeld(c) == {table[m].who : m \in OwnersHeld(c)} \ {calls[c].who}

HoldGiven(c) ==
    /\ At(c, "others")
    /\ IF OthersHeld(c) = {} /\ Cardinality(OwnersHeld(c)) = 1 THEN Rollback(c)
       ELSE /\ Run(c, "hold", RowsOf(calls[c], OthersHeld(c) \cup {calls[c].who}), "give")
            /\ UNCHANGED <<table, draft, locks>>

GiveOwner(c) ==
    /\ At(c, "give")
    /\ LET rows == RowsOf(calls[c], {calls[c].who})
           demoted == Given(c, RowsOf(calls[c], OthersHeld(c)), "other")
           named == [k \in Key |-> IF k \in rows THEN [table[k] EXCEPT !.role = "owner"] ELSE demoted[k]]
       IN \/ \E held \in rows :
                /\ draft' = [draft EXCEPT ![c] = IF table[held].role = "owner" THEN demoted ELSE named]
                /\ Goes(c, "commit")
          \/ /\ rows = {} /\ InTheWay(c) = {}
             /\ \E m \in Membership :
                    New(m) /\ draft' = [draft EXCEPT ![c] = [demoted EXCEPT ![m] = Row(calls[c])]]
             /\ Goes(c, "names")
    /\ UNCHANGED <<table, locks>>

\* deleteAccount: the account, its memberships, and their workspaces are held, in
\* this order, before the workspaces it would leave with no owner are looked for.
HoldAccount(c) ==
    /\ At(c, "user")
    /\ LET who == calls[c].who
           by == calls[c].by
       IN IF who \notin Accounts(table) \/ who = by \/ Admins(table) = {who} \/ by \notin Admins(table)
          THEN Rollback(c)
          ELSE /\ locks' = Taken(c)
               /\ Run(c, "hold", MembershipsOf(who, table), "workspaces")
               /\ UNCHANGED <<table, draft>>

\* Mutant of HoldWorkspaces: the workspaces are read, and not held.
HoldNoWorkspace(c) == At(c, "workspaces") /\ Goes(c, "sole") /\ UNCHANGED <<table, draft, locks>>

HoldWorkspaces(c) ==
    /\ At(c, "workspaces")
    /\ Run(c, "hold", {table[m].of : m \in MembershipsOf(calls[c].who, table)}, "sole")
    /\ UNCHANGED <<table, draft, locks>>

\* The workspaces that have no owner but this account.
OwnedAlone(a) ==
    {w \in Workspace : OwnersOf(w, table) # {} /\ OwnersOf(w, table) \subseteq MembershipsOf(a, table)}

EraseAccount(c) ==
    /\ At(c, "sole")
    /\ IF OwnedAlone(calls[c].who) # {} THEN Rollback(c)
       ELSE /\ draft' = [draft EXCEPT ![c][calls[c].who] = NoRow]
            /\ Run(c, "erase", MembershipsOf(calls[c].who, table), "erased")
            /\ UNCHANGED <<table, locks>>

\* The trigger, on each owner that went with the account.
EraseMemberships(c) ==
    /\ At(c, "erased")
    /\ IF OwnedAlone(calls[c].who) # {} THEN Rollback(c)
       ELSE Goes(c, "commit") /\ UNCHANGED <<table, draft, locks>>

-----------------------------------------------------------------------------
(* The administrators of the instance, and what else happens.               *)

\* setInstanceAdmin and setSuspended are one step: whoever reads or changes who is
\* an administrator holds the role lock.
MayChange(by, a) ==
    /\ \A l \in locks : l.on # RoleLock /\ (l.on = a => Compatible(l.how, "write"))
    /\ by \in Admins(table) /\ a \in Accounts(table)

\* Nobody takes the role from themselves, or from the last one.
MayLose(by, a) == a # by /\ Admins(table) # {a}

SetInstanceAdmin(by, a, admin) ==
    /\ "name" \in Ops
    /\ MayChange(by, a)
    /\ table[a].admin # admin
    /\ ~admin => MayLose(by, a)
    /\ table' = [table EXCEPT ![a].admin = admin]
    /\ UNCHANGED <<draft, locks, calls>>

SetSuspended(by, a, banned) ==
    /\ "ban" \in Ops
    /\ MayChange(by, a)
    /\ table[a].banned # banned
    /\ banned => MayLose(by, a)
    /\ table' = [table EXCEPT ![a].banned = banned]
    /\ UNCHANGED <<draft, locks, calls>>

\* The next statement of this call inserts a member.
Inserts(call) ==
    /\ call # Nothing
    /\ call.todo = {}
    /\ \/ call.pc = "insert" /\ call.op # "signUp"
       \/ /\ call.pc \in {"add", "give"}
          /\ call.who \in Accounts(table) /\ RowsOf(call, {call.who}) = {}

\* A cascade goes on with the rows that are free, and waits when none is.
WaitsFor(c, d) ==
    \/ /\ \A want \in Wanted(calls[c]) : ~Free(c, want.on, want.how)
       /\ \E want \in Wanted(calls[c]), l \in locks :
            l.by = d /\ d # c /\ l.on = want.on /\ ~Compatible(l.how, want.how)
    \/ Inserts(calls[c]) /\ d \in InTheWay(c)

\* The callers wait for each other, in a circle.
Deadlocked(circle) ==
    /\ circle # {}
    /\ \A c \in circle : (\E d \in circle : WaitsFor(c, d)) /\ (\E d \in circle : WaitsFor(d, c))

\* PostgreSQL ends one transaction of a circle.
Victim(c) == (\E circle \in SUBSET Caller : c \in circle /\ Deadlocked(circle)) /\ Rollback(c)

\* The connection is lost, or the worker stops.
Lost(c) == calls[c] # Nothing /\ Rollback(c)

Called(c) ==
    \/ \E a \in Account : SignUpCalled(c, a)
    \/ \E m \in Membership, role \in Role \cup {"gone"} : RouteCalled(c, m, role)
    \/ \E w \in Workspace, a \in Account, role \in Role : JoinCalled(c, w, a, role)
    \/ \E w \in Workspace, a \in Account, by \in Admins(table) \cup {Nothing} : CreateCalled(c, w, a, by)
    \/ \E w \in Workspace : DropCalled(c, w)
    \/ \E w \in Workspace, by \in Admins(table), a \in Account :
            \/ \E role \in Role, op \in {"setRole", "add"} : AdminCalled(c, op, by, w, a, role)
            \/ AdminCalled(c, "setOwner", by, w, a, "owner")
    \/ \E w \in Workspace, by \in Admins(table) : AdminCalled(c, "dropAsAdmin", by, w, Nothing, Nothing)
    \/ \E by \in Admins(table), a \in Account : EraseCalled(c, by, a)

Statement(c) ==
    \/ HoldRole(c) \/ InsertAccount(c)
    \/ InsertMember(c) \/ NameWorkspace(c) \/ NameAccount(c)
    \/ Write(c) \/ Trigger(c)
    \/ HoldWorkspace(c) \/ Delete(c)
    \/ ChangeRole(c) \/ AddMember(c) \/ HoldGiven(c) \/ GiveOwner(c)
    \/ HoldAccount(c) \/ HoldWorkspaces(c)
    \/ EraseAccount(c) \/ EraseMemberships(c)
    \/ Commit(c)

Next ==
    \/ \E c \in Caller : Called(c)
    \/ \E c \in Caller : Statement(c)
    \/ \E c \in Caller : Visit(c)
    \/ \E by, a \in Account, admin \in BOOLEAN : SetInstanceAdmin(by, a, admin)
    \/ \E by, a \in Account, banned \in BOOLEAN : SetSuspended(by, a, banned)
    \/ \E c \in Caller : Victim(c)
    \/ \E c \in Caller : Lost(c)

Spec == Init /\ [][Next]_vars

-----------------------------------------------------------------------------
(* What is promised.                                                        *)

RowsAt(k) ==
    {NoRow} \cup (IF k \in Membership THEN MemberRow
                  ELSE IF k \in Workspace THEN {"workspace"} ELSE AccountRow)

\* The types; a member is of a workspace and of an account that exist (the foreign
\* keys); and a call that ended holds nothing, and wrote nothing that waits.
TypeOK ==
    /\ DOMAIN table = Key
    /\ \A k \in Key : table[k] \in RowsAt(k)
    /\ \A c \in Caller, k \in Key : draft[c][k] \in RowsAt(k) \cup {Untouched}
    /\ locks \subseteq [by : Caller, on : Key \cup {RoleLock}, how : {"share", "write", "update"}]
    /\ calls \in [Caller -> {Nothing} \cup CallRecord]
    /\ \A m \in Membership :
        table[m] # NoRow => table[table[m].of] # NoRow /\ table[table[m].who] # NoRow
    /\ \A c \in Caller :
        calls[c] = Nothing => /\ \A l \in locks : l.by # c
                              /\ \A k \in Key : draft[c][k] = Untouched

\* "A workspace keeps an owner, whoever writes its members" (SECURITY.md), and the
\* instance an administrator who is not suspended: nobody repairs either from the
\* console.  The routes count in no transaction, so the trigger must.
SomebodyIsInCharge ==
    /\ \A w \in Workspace : table[w] # NoRow => OwnersOf(w, table) # {}
    /\ Accounts(table) # {} => Admins(table) # {}

\* "The count below is the one that holds at the deletion" (deleteAccount): once it
\* found that no workspace is owned by the account alone, nothing that commits
\* makes one so, and the trigger never refuses the deletion itself.
TheCountHolds ==
    \A c \in Caller :
        /\ calls[c] # Nothing
        /\ calls[c].op = "erase" /\ calls[c].pc \in {"erased", "commit"}
        => OwnedAlone(calls[c].who) = {}

\* The call waits for a member who came after it started, or it adds one.
IsAboutANewcomer(c) ==
    \/ calls[c].op = "join"
    \/ \E want \in Wanted(calls[c]) : want.on \in Membership \ calls[c].old

\* "A writer that holds a workspace and then writes its members holds the members
\* first, so that a route and a deletion do not wait for each other" (SECURITY.md).
\* So it is for the members it found.  A member who comes between its two locks is
\* held by nobody: a circle of waits is always about one.
CirclesAreAboutNewcomers ==
    \A circle \in SUBSET Caller :
        Deadlocked(circle) => \E c \in circle : IsAboutANewcomer(c)
=============================================================================
