------------------------ MODULE WorkspaceMembersProofs ------------------------
(***************************************************************************)
(* Proofs about WorkspaceMembers for any accounts, workspaces, memberships *)
(* and callers.                                                            *)
(*                                                                         *)
(* The argument: CallOK says of one call what it has read, written and holds,  *)
(* in terms of the committed rows alone, so that a step of one call is checked  *)
(* against that call (StepOfOne, Stepped).  What it read stays true while  *)
(* another commits, because what the two hold goes together (CommitLeaves).*)
(* Whoever takes an owner away and may commit holds the workspace and      *)
(* leaves another owner (Sure); a deletion of an account holds the workspaces *)
(* of its memberships, so that its count stays (EraseOK).                  *)
(*                                                                         *)
(* WaitInv says what a call holds while it waits.  In a circle of waits    *)
(* that is about no newcomer nobody waits for the role, an account or a    *)
(* workspace: each waits for a member, in the order of their ids, so that  *)
(* of the smallest one that is waited for there is a smaller               *)
(* (NoCircleOfOldMembers).                                                 *)
(***************************************************************************)
EXTENDS WorkspaceMembers, TLAPS, WellFoundedInduction

-----------------------------------------------------------------------------
(* What a call has done so far, from the committed rows, its own, and its  *)
(* locks.  None of it names the other calls.                               *)

LocksOf(c) == {l \in locks : l.by = c}

Holds(my, k, hows) == \E l \in my : l.on = k /\ l.how \in hows

Some == {"share", "write", "update"}

Seen(tab, dr) == [k \in Key |-> IF dr[k] = Untouched THEN tab[k] ELSE dr[k]]

IsOwner(row, w) == row # NoRow /\ row.of = w /\ row.role = "owner"

\* The workspaces that these writes take an owner from.
Losses(tab, dr) ==
    {w \in Workspace : \E m \in Membership :
        IsOwner(tab[m], w) /\ dr[m] # Untouched /\ ~IsOwner(dr[m], w)}

Keeps(rows, w) == \E m \in Membership : IsOwner(rows[m], w)

Early == {"role", "insert", "in", "write", "workspace", "delete", "add", "change", "others", "give",
          "user", "workspaces", "sole"}

Administers == {"setRole", "add", "setOwner"}

Idle(dr, call, my) ==
    /\ call = Nothing => my = {} /\ \A k \in Key : dr[k] = Untouched
    /\ call # Nothing /\ call.pc \in Early => call.does = "hold" /\ \A k \in Key : dr[k] = Untouched

\* Every row that is written is held, or it is new and holds what it names.
NewRow(tab, dr, call, my, m) ==
    /\ call # Nothing
    /\ call.pc \in {"names", "commit"}
    /\ dr[m].of = call.in /\ dr[m].who = call.who
    /\ Holds(my, call.in, Some) /\ Seen(tab, dr)[call.in] # NoRow
    /\ call.pc = "commit" => Holds(my, call.who, Some) /\ tab[call.who] # NoRow

RowsHeld(tab, dr, call, my) ==
    \A m \in Membership : dr[m] # Untouched =>
        /\ tab[m] # NoRow => Holds(my, m, {"update"})
        /\ dr[m] = NoRow => tab[m] # NoRow
        /\ dr[m] # NoRow /\ tab[m] # NoRow => dr[m].of = tab[m].of /\ dr[m].who = tab[m].who
        /\ dr[m] # NoRow /\ tab[m] = NoRow => NewRow(tab, dr, call, my, m)

OthersHeldBy(dr, call) ==
    /\ \A a \in Account : dr[a] # Untouched => /\ call # Nothing
                                               /\ call.op \in {"signUp", "erase"} /\ call.who = a
    /\ \A w \in Workspace : dr[w] # Untouched =>
            /\ call # Nothing /\ call.in = w
            /\ \/ call.op = "create" /\ dr[w] = "workspace"
               \/ call.op = "drop" /\ dr[w] = NoRow

SignUpOK(tab, dr, call) ==
    call.op = "signUp" =>
        /\ call.pc \in {"role", "insert", "commit"}
        /\ call.who \in Account /\ tab[call.who] = NoRow
        /\ call.todo = {}
        /\ \A m \in Membership : dr[m] = Untouched
        /\ call.pc = "commit" => /\ dr[call.who] \in AccountRow
                                 /\ ~dr[call.who].banned
                                 /\ (\A a \in Account : tab[a] = NoRow) => dr[call.who].admin

RouteOK(tab, dr, call) ==
    call.op = "route" =>
        /\ call.pc \in {"write", "trigger", "commit"}
        /\ call.member \in call.old /\ call.in \in Workspace
        /\ call.role \in Role \cup {"gone"}
        /\ call.todo = {}
        /\ tab[call.member] # NoRow => tab[call.member].of = call.in
        /\ \A m \in Membership : dr[m] # Untouched => m = call.member
        /\ call.pc = "trigger" => dr[call.member] # Untouched /\ tab[call.member] # NoRow

JoinOK(dr, call) ==
    call.op \in {"join", "create"} =>
        /\ call.pc \in {"insert", "in", "names", "commit"} \cup (IF call.op = "create" THEN {"role"} ELSE {})
        /\ call.in \in Workspace /\ call.who \in Account /\ call.role \in Role
        /\ call.todo = {}
        /\ call.op = "create" => call.role = "owner"
        /\ call.op = "create" /\ call.pc \in {"names", "commit"} =>
            /\ dr[call.in] = "workspace"
            /\ \E m \in Membership : dr[m] \notin {Untouched, NoRow} /\ IsOwner(dr[m], call.in)

Former(tab, call, my) ==
    {tab[m].who : m \in {n \in Membership : IsOwner(tab[n], call.in) /\ Holds(my, n, {"update"})}}
      \cup {call.who}

AdminOK(tab, call, my) ==
    call.op \in Administers =>
        /\ call.pc \in {"role", "workspace", "names", "commit"}
              \cup (CASE call.op = "setRole" -> {"change"}
                      [] call.op = "add" -> {"add"}
                      [] OTHER -> {"others", "give"})
        /\ call.op = "setRole" => call.pc # "names"
        /\ call.in \in Workspace /\ call.who \in Account /\ call.role \in Role
        /\ call.op = "setOwner" => call.role = "owner"
        /\ call.pc \notin {"change", "others", "give", "workspace"} => call.todo = {}
        /\ call.pc \notin {"role", "workspace"} => Holds(my, call.in, {"update"}) /\ tab[call.in] # NoRow
        /\ call.pc = "change" =>
            \A m \in Membership : tab[m] # NoRow /\ tab[m].of = call.in /\ tab[m].who = call.who =>
                m \in call.todo \/ Holds(my, m, {"update"})
        /\ call.pc = "give" =>
            \A m \in Membership : tab[m] # NoRow /\ tab[m].of = call.in =>
                /\ tab[m].who \in Former(tab, call, my) => m \in call.todo \/ Holds(my, m, {"update"})
                /\ m \in call.todo => tab[m].who \in Former(tab, call, my)

DropOK(tab, dr, call, my) ==
    call.op \in {"drop", "dropAsAdmin"} =>
        /\ call.pc \in (IF call.op = "drop" THEN {"workspace", "delete", "commit"} ELSE {"role", "workspace"})
        /\ call.in \in Workspace
        /\ call.pc = "commit" =>
            /\ Holds(my, call.in, {"update"}) /\ dr[call.in] = NoRow
            /\ call.does = "erase"
            /\ \A k \in call.todo : k \in Membership
            /\ \A m \in Membership :
                /\ tab[m] # NoRow /\ tab[m].of = call.in => m \in call.todo \/ dr[m] = NoRow
                /\ tab[m] # NoRow /\ (m \in call.todo \/ dr[m] # Untouched) => tab[m].of = call.in
                /\ dr[m] \in {Untouched, NoRow}

OwnedAloneIn(tab, a) ==
    {w \in Workspace : Keeps(tab, w) /\ \A m \in Membership : IsOwner(tab[m], w) => tab[m].who = a}

EraseOK(tab, dr, call, my) ==
    call.op = "erase" =>
        /\ call.pc \in {"role", "user", "workspaces", "sole", "erased", "commit"}
        /\ call.who \in Account
        /\ \A m \in Membership : dr[m] \in {Untouched, NoRow}
        /\ call.pc # "role" => Holds(my, RoleLock, {"update"})
        /\ call.pc \notin {"role", "user"} =>
            /\ Holds(my, call.who, {"update"})
            /\ call.by \in Account /\ call.by # call.who
            /\ tab[call.who] # NoRow
            /\ tab[call.by] # NoRow /\ tab[call.by].admin /\ ~tab[call.by].banned
        /\ call.pc \in {"role", "user", "commit"} => call.todo = {}
        /\ call.pc = "workspaces" =>
            \A m \in Membership : tab[m] # NoRow /\ tab[m].who = call.who =>
                m \in call.todo \/ Holds(my, m, {"update"})
        /\ call.pc = "sole" =>
            \A m \in Membership : tab[m] # NoRow /\ tab[m].who = call.who =>
                /\ Holds(my, m, {"update"})
                /\ tab[m].of \in call.todo \/ Holds(my, tab[m].of, {"update"})
        /\ call.pc \in {"erased", "commit"} =>
            /\ call.does = "erase"
            /\ dr[call.who] = NoRow
            /\ \A k \in call.todo : k \in Membership
            /\ OwnedAloneIn(tab, call.who) = {}
            /\ \A m \in Membership :
                /\ tab[m] # NoRow /\ tab[m].who = call.who =>
                        /\ m \in call.todo \/ dr[m] = NoRow
                        /\ Holds(my, tab[m].of, {"update"})
                /\ tab[m] # NoRow /\ (m \in call.todo \/ dr[m] # Untouched) => tab[m].who = call.who

\* Whoever takes an owner from a workspace holds the workspace, and leaves another.
Sure(tab, dr, call, my) ==
    call.op # "erase" /\ call.pc # "trigger" =>
        \A w \in Losses(tab, dr) :
            /\ Holds(my, w, {"write", "update"})
            /\ dr[w] = NoRow \/ Keeps(Seen(tab, dr), w)

CallOK(tab, dr, call, my) ==
    /\ Idle(dr, call, my)
    /\ RowsHeld(tab, dr, call, my)
    /\ OthersHeldBy(dr, call)
    /\ call # Nothing =>
        /\ SignUpOK(tab, dr, call) /\ RouteOK(tab, dr, call) /\ JoinOK(dr, call)
        /\ AdminOK(tab, call, my) /\ DropOK(tab, dr, call, my) /\ EraseOK(tab, dr, call, my)
        /\ Sure(tab, dr, call, my)

Apart(tab, dr, call, dd, cd) ==
    /\ \A m \in Membership : dr[m] = Untouched \/ dd[m] = Untouched
    /\ call # Nothing /\ cd # Nothing /\ call.op = "signUp" /\ cd.op = "signUp" => call.who # cd.who

Fresh(tab, dr, cd) ==
    \A m \in Membership : dr[m] # Untouched /\ tab[m] = NoRow /\ cd # Nothing => m \notin cd.old \cup cd.todo

LocksAgree == \A l, k \in locks : l.on = k.on /\ l.by # k.by => Compatible(l.how, k.how)

CallsOK == \A c \in Caller : CallOK(table, draft[c], calls[c], LocksOf(c))
AllApart == \A c, d \in Caller : c # d => Apart(table, draft[c], calls[c], draft[d], calls[d])
AllFresh == \A c, d \in Caller : Fresh(table, draft[c], calls[d])

ForeignKeys ==
    \A m \in Membership :
        table[m] # NoRow => table[table[m].of] # NoRow /\ table[table[m].who] # NoRow

TabOK(tab) == DOMAIN tab = Key /\ \A k \in Key : tab[k] \in RowsAt(k)

DrOK(dr) == DOMAIN dr = Key /\ \A k \in Key : dr[k] \in RowsAt(k) \cup {Untouched}

Types ==
    /\ TabOK(table)
    /\ DOMAIN draft = Caller /\ \A c \in Caller : DrOK(draft[c])
    /\ locks \subseteq [by : Caller, on : Key \cup {RoleLock}, how : Some]
    /\ calls \in [Caller -> {Nothing} \cup CallRecord]

IInv ==
    /\ Types /\ LocksAgree /\ ForeignKeys /\ SomebodyIsInCharge
    /\ CallsOK /\ AllApart /\ AllFresh

-----------------------------------------------------------------------------
(* Locks.                                                                  *)

LEMMA LockTaken ==
    ASSUME NEW c \in Caller, NEW k, NEW how \in Some, LocksAgree, Free(c, k, how),
           locks \subseteq [by : Caller, on : Key \cup {RoleLock}, how : Some],
           k \in Key \cup {RoleLock},
           locks' = Held(c, k, how)
    PROVE  /\ LocksAgree'
           /\ LocksOf(c)' = LocksOf(c) \cup {[by |-> c, on |-> k, how |-> how]}
           /\ \A d \in Caller : d # c => LocksOf(d)' = LocksOf(d)
           /\ locks' \subseteq [by : Caller, on : Key \cup {RoleLock}, how : Some]
<1> DEFINE lock == [by |-> c, on |-> k, how |-> how]
<1>1. locks' = locks \cup {lock}  BY DEF Held
<1>2. ASSUME NEW l \in locks, l.on = k, l.by # c
      PROVE  Compatible(l.how, how) /\ Compatible(how, l.how)
  BY <1>2 DEF Free, Compatible
<1>3. LocksAgree'
  <2> SUFFICES ASSUME NEW l \in locks', NEW m \in locks', l.on = m.on, l.by # m.by
               PROVE  Compatible(l.how, m.how)
    BY DEF LocksAgree, Compatible
  <2>1. CASE l \in locks /\ m \in locks  BY <2>1 DEF LocksAgree
  <2>2. CASE l = lock /\ m \in locks  BY <2>2, <1>2
  <2>3. CASE l \in locks /\ m = lock  BY <2>3, <1>2
  <2> QED  BY <1>1, <2>1, <2>2, <2>3
<1>4. LocksOf(c)' = LocksOf(c) \cup {lock}  BY <1>1 DEF LocksOf
<1>5. \A d \in Caller : d # c => LocksOf(d)' = LocksOf(d)  BY <1>1 DEF LocksOf
<1> QED  BY <1>1, <1>3, <1>4, <1>5

LEMMA LocksFreed ==
    ASSUME NEW c \in Caller, LocksAgree, locks' = Unlocked(c)
    PROVE  /\ LocksAgree'
           /\ LocksOf(c)' = {}
           /\ \A d \in Caller : d # c => LocksOf(d)' = LocksOf(d)
           /\ locks' \subseteq locks
BY DEF LocksAgree, LocksOf, Unlocked, Compatible

LEMMA LocksKept ==
    ASSUME LocksAgree, locks' = locks
    PROVE  LocksAgree' /\ \A d \in Caller : LocksOf(d)' = LocksOf(d)
BY DEF LocksAgree, LocksOf, Compatible

\* Two calls that hold one thing hold it in ways that go together.
LEMMA HoldsTogether ==
    ASSUME NEW c \in Caller, NEW d \in Caller, c # d, LocksAgree, NEW k,
           locks \subseteq [by : Caller, on : Key \cup {RoleLock}, how : Some]
    PROVE  /\ Holds(LocksOf(c), k, {"update"}) => ~Holds(LocksOf(d), k, Some)
           /\ Holds(LocksOf(c), k, {"write", "update"}) => ~Holds(LocksOf(d), k, {"write", "update"})
BY DEF LocksAgree, LocksOf, Holds, Compatible, Some

LEMMA Nulls ==
    /\ NoRow # Untouched /\ NoRow # "workspace" /\ Untouched # "workspace"
    /\ NoRow \notin MemberRow /\ NoRow \notin AccountRow
    /\ Untouched \notin MemberRow /\ Untouched \notin AccountRow
    /\ Nothing \notin CallRecord /\ Nothing \notin Account
BY NullAssumption

-----------------------------------------------------------------------------
(* A commit of another call leaves what a call has done as it should be.   *)

Together(my, md) ==
    \A k : /\ Holds(my, k, {"update"}) => ~Holds(md, k, Some)
           /\ Holds(md, k, {"update"}) => ~Holds(my, k, Some)
           /\ Holds(my, k, {"write", "update"}) => ~Holds(md, k, {"write", "update"})

CallT(call) == call = Nothing \/ call \in CallRecord

LinksOK(tab) ==
    \A m \in Membership : tab[m] # NoRow => tab[tab[m].of] # NoRow /\ tab[tab[m].who] # NoRow

Owned(tab) == \A w \in Workspace : tab[w] # NoRow => Keeps(tab, w)

Commits(tab, dr, call, my, dd, cd, md) ==
    /\ TabOK(tab) /\ LinksOK(tab) /\ Owned(tab)
    /\ DrOK(dr) /\ CallT(call) /\ CallOK(tab, dr, call, my)
    /\ DrOK(dd) /\ CallT(cd) /\ CallOK(tab, dd, cd, md)
    /\ Together(my, md) /\ Apart(tab, dr, call, dd, cd)
    /\ Fresh(tab, dd, call)
    /\ cd # Nothing /\ cd.pc = "commit" /\ cd.todo = {}

LEMMA CommitFacts ==
    ASSUME NEW tab, NEW dr, NEW call, NEW my, NEW dd, NEW cd, NEW md,
           Commits(tab, dr, call, my, dd, cd, md),
           NEW tab2, tab2 = Seen(tab, dd)
    PROVE  /\ TabOK(tab2)
           /\ \A k \in Key : tab2[k] = IF dd[k] = Untouched THEN tab[k] ELSE dd[k]
           /\ \A m \in Membership : dr[m] # Untouched => tab2[m] = tab[m]
           /\ \A m \in Membership : Holds(my, m, {"update"}) /\ tab[m] # NoRow => tab2[m] = tab[m]
           /\ \A m \in Membership : tab2[m] # NoRow /\ tab[m] # NoRow =>
                    tab2[m].of = tab[m].of /\ tab2[m].who = tab[m].who
           /\ \A m \in Membership : tab2[m] # NoRow /\ tab[m] = NoRow =>
                    /\ Holds(md, tab2[m].of, Some) /\ Holds(md, tab2[m].who, Some)
                    /\ call # Nothing => m \notin call.old \cup call.todo
           /\ \A w \in Workspace : Holds(my, w, Some) /\ tab[w] # NoRow => tab2[w] # NoRow
           /\ \A a \in Account : Holds(my, a, Some) /\ tab[a] # NoRow => tab2[a] = tab[a]
           /\ \A w \in Workspace : Holds(my, w, {"write", "update"}) =>
                    \A m \in Membership : IsOwner(tab[m], w) => IsOwner(tab2[m], w)
<1> USE DEF Commits
<1>k. Key = Membership \cup Workspace \cup Account  BY DEF Key
<1>1. \A k \in Key : tab2[k] = IF dd[k] = Untouched THEN tab[k] ELSE dd[k]
  BY DEF Seen
<1>2. TabOK(tab2)
  <2>1. DOMAIN tab2 = Key  BY DEF Seen
  <2>2. \A k \in Key : tab2[k] \in RowsAt(k)  BY <1>1 DEF TabOK, DrOK
  <2> QED  BY <2>1, <2>2 DEF TabOK
<1>3. \A m \in Membership : dr[m] # Untouched => tab2[m] = tab[m]
  BY <1>1, <1>k DEF Apart
<1>4. \A m \in Membership : dd[m] # Untouched /\ tab[m] # NoRow => Holds(md, m, {"update"})
  BY DEF CallOK, RowsHeld
<1>5. \A k : Holds(md, k, {"update"}) => Holds(md, k, {"write", "update"}) /\ Holds(md, k, Some)
  BY DEF Holds, Some
<1>6. \A k : Holds(my, k, {"update"}) => Holds(my, k, {"write", "update"}) /\ Holds(my, k, Some)
  BY DEF Holds, Some
<1>7. \A m \in Membership : Holds(my, m, {"update"}) /\ tab[m] # NoRow => tab2[m] = tab[m]
  BY <1>1, <1>4, <1>5, <1>k DEF Together
<1>8. \A m \in Membership : tab2[m] # NoRow /\ tab[m] # NoRow =>
            tab2[m].of = tab[m].of /\ tab2[m].who = tab[m].who
  BY <1>1, <1>k DEF CallOK, RowsHeld
<1>9. ASSUME NEW m \in Membership, tab2[m] # NoRow, tab[m] = NoRow
      PROVE  /\ Holds(md, tab2[m].of, Some) /\ Holds(md, tab2[m].who, Some)
             /\ call # Nothing => m \notin call.old \cup call.todo
  <2>1. dd[m] # Untouched /\ tab2[m] = dd[m]  BY <1>1, <1>9, <1>k
  <2>2. NewRow(tab, dd, cd, md, m)  BY <2>1, <1>9 DEF CallOK, RowsHeld
  <2> QED  BY <2>1, <2>2, <1>9 DEF NewRow, Fresh
<1>10. ASSUME NEW w \in Workspace, Holds(my, w, Some), tab[w] # NoRow
       PROVE  tab2[w] # NoRow
  <2>1. CASE dd[w] = NoRow
    <3>1. cd.op = "drop" /\ cd.in = w  BY <2>1, Nulls DEF CallOK, OthersHeldBy
    <3>2. Holds(md, w, {"update"})  BY <3>1 DEF CallOK, DropOK
    <3> QED  BY <3>2, <1>10 DEF Together
  <2>2. CASE dd[w] # NoRow  BY <2>2, <1>1, <1>k, <1>10
  <2> QED  BY <2>1, <2>2
<1>11. ASSUME NEW a \in Account, Holds(my, a, Some), tab[a] # NoRow
       PROVE  tab2[a] = tab[a]
  <2>1. CASE dd[a] # Untouched
    <3>1. cd.op \in {"signUp", "erase"} /\ cd.who = a  BY <2>1 DEF CallOK, OthersHeldBy
    <3>2. cd.op = "erase"  BY <3>1, <1>11 DEF CallOK, SignUpOK
    <3>3. Holds(md, a, {"update"})  BY <3>1, <3>2 DEF CallOK, EraseOK
    <3> QED  BY <3>3, <1>11 DEF Together
  <2> QED  BY <2>1, <1>1, <1>k
<1>12. ASSUME NEW w \in Workspace, Holds(my, w, {"write", "update"}),
              NEW m \in Membership, IsOwner(tab[m], w)
       PROVE  IsOwner(tab2[m], w)
  <2> SUFFICES ASSUME ~IsOwner(tab2[m], w) PROVE FALSE  OBVIOUS
  <2>1. dd[m] # Untouched /\ tab2[m] = dd[m]  BY <1>1, <1>12, <1>k
  <2>2. w \in Losses(tab, dd)  BY <2>1, <1>12 DEF Losses
  <2>3. CASE cd.op = "erase"
    <3>1. tab[m].who = cd.who /\ tab[m] # NoRow /\ tab[m].of = w
      BY <2>1, <2>3, <1>12 DEF CallOK, EraseOK, IsOwner
    <3>2. Holds(md, w, {"update"})  BY <3>1, <2>3 DEF CallOK, EraseOK
    <3> QED  BY <3>2, <1>5, <1>12 DEF Together
  <2>4. CASE cd.op # "erase"
    <3>1. Holds(md, w, {"write", "update"})  BY <2>2, <2>4 DEF CallOK, Sure
    <3> QED  BY <3>1, <1>12 DEF Together
  <2> QED  BY <2>3, <2>4
<1> QED  BY <1>1, <1>2, <1>3, <1>7, <1>8, <1>9, <1>10, <1>11, <1>12

LEMMA CommitLeaves ==
    ASSUME NEW tab, NEW dr, NEW call, NEW my, NEW dd, NEW cd, NEW md,
           Commits(tab, dr, call, my, dd, cd, md),
           NEW tab2, tab2 = Seen(tab, dd)
    PROVE  CallOK(tab2, dr, call, my)
<1>0. CallOK(tab, dr, call, my) /\ TabOK(tab) /\ CallT(call) /\ DrOK(dr)  BY DEF Commits
<1>k. Key = Membership \cup Workspace \cup Account  BY DEF Key
<1>f1. \A m \in Membership : dr[m] # Untouched => tab2[m] = tab[m]  BY CommitFacts
<1>f2. \A m \in Membership : Holds(my, m, {"update"}) /\ tab[m] # NoRow => tab2[m] = tab[m]
  BY CommitFacts
<1>f3. \A m \in Membership : tab2[m] # NoRow /\ tab[m] # NoRow =>
            tab2[m].of = tab[m].of /\ tab2[m].who = tab[m].who
  BY CommitFacts
<1>f4. \A m \in Membership : tab2[m] # NoRow /\ tab[m] = NoRow =>
            /\ Holds(md, tab2[m].of, Some) /\ Holds(md, tab2[m].who, Some)
            /\ call # Nothing => m \notin call.old \cup call.todo
  BY CommitFacts
<1>f5. \A w \in Workspace : Holds(my, w, Some) /\ tab[w] # NoRow => tab2[w] # NoRow  BY CommitFacts
<1>f6. \A a \in Account : Holds(my, a, Some) /\ tab[a] # NoRow => tab2[a] = tab[a]  BY CommitFacts
<1>f7. \A w \in Workspace : Holds(my, w, {"write", "update"}) =>
            \A m \in Membership : IsOwner(tab[m], w) => IsOwner(tab2[m], w)
  BY CommitFacts
<1>f8. \A k : Holds(my, k, {"update"}) =>
            ~Holds(md, k, Some) /\ Holds(my, k, Some) /\ Holds(my, k, {"write", "update"})
  BY DEF Commits, Together, Holds, Some
<1>f9. \A k \in Key : tab2[k] = IF dd[k] = Untouched THEN tab[k] ELSE dd[k]  BY CommitFacts
<1>1. Idle(dr, call, my) /\ OthersHeldBy(dr, call)  BY <1>0 DEF CallOK
<1>2. RowsHeld(tab2, dr, call, my)
  <2> SUFFICES ASSUME NEW m \in Membership, dr[m] # Untouched
               PROVE  /\ tab2[m] # NoRow => Holds(my, m, {"update"})
                      /\ dr[m] = NoRow => tab2[m] # NoRow
                      /\ dr[m] # NoRow /\ tab2[m] # NoRow =>
                            dr[m].of = tab2[m].of /\ dr[m].who = tab2[m].who
                      /\ dr[m] # NoRow /\ tab2[m] = NoRow => NewRow(tab2, dr, call, my, m)
    BY DEF RowsHeld
  <2>1. tab2[m] = tab[m]  BY <1>f1
  <2>2. ASSUME NewRow(tab, dr, call, my, m), dr[m] # NoRow  PROVE NewRow(tab2, dr, call, my, m)
    <3>1. call.in \in Workspace /\ call.who \in Account
      BY <2>2, <1>0, <1>k DEF NewRow, DrOK, RowsAt, MemberRow
    <3>2. Seen(tab2, dr)[call.in] # NoRow
      BY <3>1, <2>2, <1>f5, <1>k DEF NewRow, Seen
    <3>3. call.pc = "commit" => tab2[call.who] # NoRow
      BY <3>1, <2>2, <1>f6 DEF NewRow
    <3> QED  BY <2>2, <3>2, <3>3 DEF NewRow
  <2> QED  BY <2>1, <2>2, <1>0 DEF CallOK, RowsHeld
<1>3. ASSUME call # Nothing PROVE SignUpOK(tab2, dr, call)
  <2> SUFFICES ASSUME call.op = "signUp" PROVE SignUpOK(tab2, dr, call)  BY DEF SignUpOK
  <2>1. SignUpOK(tab, dr, call)  BY <1>0, <1>3 DEF CallOK
  <2>2. tab2[call.who] = NoRow
    <3> SUFFICES ASSUME dd[call.who] # Untouched PROVE dd[call.who] = NoRow
      BY <2>1, <1>f9, <1>k DEF SignUpOK
    <3>1. cd.op \in {"signUp", "erase"} /\ cd.who = call.who
      BY <2>1 DEF SignUpOK, Commits, CallOK, OthersHeldBy
    <3>2. cd.op = "erase"  BY <3>1, <1>3 DEF Commits, Apart
    <3> QED  BY <3>1, <3>2 DEF Commits, CallOK, EraseOK
  <2>3. (\A a \in Account : tab2[a] = NoRow) => (\A a \in Account : tab[a] = NoRow)
    <3> SUFFICES ASSUME \A a \in Account : tab2[a] = NoRow, NEW a \in Account, tab[a] # NoRow
                 PROVE  FALSE
      OBVIOUS
    <3>1. dd[a] = NoRow  BY <1>f9, <1>k
    <3>2. cd.op \in {"signUp", "erase"} /\ cd.who = a
      BY <3>1, Nulls DEF Commits, CallOK, OthersHeldBy
    <3>3. cd.op = "erase"  BY <3>1, <3>2, Nulls DEF Commits, CallOK, SignUpOK
    <3>4. cd.by \in Account /\ cd.by # cd.who /\ tab[cd.by] # NoRow
      BY <3>3 DEF Commits, CallOK, EraseOK
    <3>5. dd[cd.by] = Untouched  BY <3>4 DEF Commits, CallOK, OthersHeldBy
    <3> QED  BY <3>4, <3>5, <1>f9, <1>k
  <2> QED  BY <2>1, <2>2, <2>3 DEF SignUpOK
<1>4. ASSUME call # Nothing PROVE RouteOK(tab2, dr, call)
  <2> SUFFICES ASSUME call.op = "route" PROVE RouteOK(tab2, dr, call)  BY DEF RouteOK
  <2>1. RouteOK(tab, dr, call)  BY <1>0, <1>4 DEF CallOK
  <2>2. call.member \in Membership  BY <2>1, <1>0, <1>4 DEF RouteOK, CallT, CallRecord
  <2>3. tab2[call.member] # NoRow => tab2[call.member].of = call.in
    BY <2>1, <2>2, <1>f3, <1>f4, <1>4 DEF RouteOK
  <2>4. dr[call.member] # Untouched => tab2[call.member] = tab[call.member]  BY <2>2, <1>f1
  <2> QED  BY <2>1, <2>3, <2>4 DEF RouteOK
<1>5. ASSUME call # Nothing PROVE JoinOK(dr, call)  BY <1>0, <1>5 DEF CallOK
<1>6. ASSUME call # Nothing PROVE AdminOK(tab2, call, my)
  <2> SUFFICES ASSUME call.op \in Administers PROVE AdminOK(tab2, call, my)  BY DEF AdminOK
  <2>1. AdminOK(tab, call, my)  BY <1>0, <1>6 DEF CallOK
  <2>2. call.in \in Workspace  BY <2>1 DEF AdminOK
  <2>3. Holds(my, call.in, {"update"}) /\ tab[call.in] # NoRow => tab2[call.in] # NoRow
    BY <2>2, <1>f5, <1>f8
  <2>4. ASSUME call.pc \notin {"role", "workspace"},
               NEW m \in Membership, tab2[m] # NoRow, tab2[m].of = call.in
        PROVE  tab[m] # NoRow /\ tab[m].of = call.in /\ tab[m].who = tab2[m].who
    BY <2>1, <2>4, <1>f3, <1>f4, <1>f8 DEF AdminOK
  <2>5. call.pc = "give" => Former(tab2, call, my) = Former(tab, call, my)
    <3> SUFFICES ASSUME call.pc = "give" PROVE Former(tab2, call, my) = Former(tab, call, my)
      OBVIOUS
    <3>1. ASSUME NEW m \in Membership, Holds(my, m, {"update"})
          PROVE  /\ IsOwner(tab2[m], call.in) <=> IsOwner(tab[m], call.in)
                 /\ IsOwner(tab2[m], call.in) => tab2[m].who = tab[m].who
      BY <3>1, <1>f2, <2>4 DEF IsOwner
    <3> QED  BY <3>1 DEF Former
  <2>6. ASSUME call.pc = "change",
               NEW m \in Membership, tab2[m] # NoRow, tab2[m].of = call.in, tab2[m].who = call.who
        PROVE  m \in call.todo \/ Holds(my, m, {"update"})
    BY <2>1, <2>4, <2>6 DEF AdminOK
  <2>7. ASSUME call.pc = "give", NEW m \in Membership, tab2[m] # NoRow, tab2[m].of = call.in
        PROVE  /\ tab2[m].who \in Former(tab2, call, my) => m \in call.todo \/ Holds(my, m, {"update"})
               /\ m \in call.todo => tab2[m].who \in Former(tab2, call, my)
    BY <2>1, <2>4, <2>5, <2>7 DEF AdminOK
  <2> QED  BY <2>1, <2>3, <2>6, <2>7 DEF AdminOK
<1>7. ASSUME call # Nothing PROVE DropOK(tab2, dr, call, my)
  <2> SUFFICES ASSUME call.op \in {"drop", "dropAsAdmin"} PROVE DropOK(tab2, dr, call, my)  BY DEF DropOK
  <2>1. DropOK(tab, dr, call, my)  BY <1>0, <1>7 DEF CallOK
  <2>2. ASSUME call.pc = "commit", NEW m \in Membership, tab2[m] # NoRow
        PROVE  /\ tab2[m].of = call.in => tab[m] # NoRow /\ tab[m].of = call.in
               /\ m \in call.todo \/ dr[m] # Untouched => tab[m] # NoRow /\ tab2[m].of = tab[m].of
    BY <2>1, <2>2, <1>f1, <1>f3, <1>f4, <1>f8, <1>7 DEF DropOK
  <2> QED  BY <2>1, <2>2 DEF DropOK
<1>8. ASSUME call # Nothing PROVE EraseOK(tab2, dr, call, my)
  <2> SUFFICES ASSUME call.op = "erase" PROVE EraseOK(tab2, dr, call, my)  BY DEF EraseOK
  <2>1. EraseOK(tab, dr, call, my)  BY <1>0, <1>8 DEF CallOK
  <2>2. call.who \in Account  BY <2>1 DEF EraseOK
  <2>3. ASSUME call.pc \notin {"role", "user"}
        PROVE  /\ tab2[call.who] # NoRow
               /\ tab2[call.by] = tab[call.by]
    <3>1. tab2[call.who] # NoRow  BY <2>1, <2>2, <2>3, <1>f6, <1>f8 DEF EraseOK
    <3>2. call.by \in Account /\ tab[call.by] # NoRow /\ Holds(my, RoleLock, {"update"})
      BY <2>1, <2>3 DEF EraseOK
    <3>3. dd[call.by] = Untouched
      <4> SUFFICES ASSUME dd[call.by] # Untouched PROVE FALSE  OBVIOUS
      <4>1. cd.op \in {"signUp", "erase"} /\ cd.who = call.by
        BY <3>2 DEF Commits, CallOK, OthersHeldBy
      <4>2. cd.op = "erase"  BY <4>1, <3>2 DEF Commits, CallOK, SignUpOK
      <4>3. Holds(md, RoleLock, {"update"})  BY <4>2 DEF Commits, CallOK, EraseOK
      <4> QED  BY <4>3, <3>2 DEF Commits, Together, Holds, Some
    <3> QED  BY <3>1, <3>2, <3>3, <1>f9, <1>k
  <2>4. ASSUME call.pc \notin {"role", "user"},
               NEW m \in Membership, tab2[m] # NoRow, tab2[m].who = call.who
        PROVE  tab[m] # NoRow /\ tab[m].who = call.who /\ tab2[m].of = tab[m].of
    BY <2>1, <2>4, <1>f3, <1>f4, <1>f8 DEF EraseOK
  <2>5. ASSUME call.pc \in {"erased", "commit"} PROVE OwnedAloneIn(tab2, call.who) = {}
    <3> SUFFICES ASSUME NEW w \in OwnedAloneIn(tab2, call.who) PROVE FALSE  OBVIOUS
    <3>1. w \in Workspace  BY DEF OwnedAloneIn
    <3>2. PICK m \in Membership : IsOwner(tab2[m], w) /\ tab2[m].who = call.who
      BY DEF OwnedAloneIn, Keeps
    <3>3. tab[m] # NoRow /\ tab[m].who = call.who /\ tab[m].of = w
      BY <2>4, <2>5, <3>2 DEF IsOwner
    <3>4. Holds(my, w, {"update"})  BY <3>3, <2>1, <2>5 DEF EraseOK
    <3>5. tab[w] # NoRow /\ Keeps(tab, w)  BY <3>1, <3>3 DEF Commits, LinksOK, Owned
    <3>6. w \notin OwnedAloneIn(tab, call.who)  BY <2>1, <2>5 DEF EraseOK
    <3>7. PICK n \in Membership : IsOwner(tab[n], w) /\ tab[n].who # call.who
      BY <3>1, <3>5, <3>6 DEF OwnedAloneIn
    <3>8. IsOwner(tab2[n], w)  BY <3>1, <3>4, <3>7, <1>f7, <1>f8
    <3>9. tab2[n].who # call.who  BY <3>7, <3>8, <1>f3 DEF IsOwner
    <3> QED  BY <3>8, <3>9 DEF OwnedAloneIn
  <2>6. ASSUME call.pc \in {"erased", "commit"}, NEW m \in Membership, tab2[m] # NoRow,
               m \in call.todo \/ dr[m] # Untouched
        PROVE  tab2[m].who = call.who
    BY <2>1, <2>6, <1>f1, <1>f3, <1>f4, <1>8 DEF EraseOK
  <2>7. ASSUME call.pc = "workspaces",
               NEW m \in Membership, tab2[m] # NoRow, tab2[m].who = call.who
        PROVE  m \in call.todo \/ Holds(my, m, {"update"})
    BY <2>1, <2>4, <2>7 DEF EraseOK
  <2>8. ASSUME call.pc = "sole", NEW m \in Membership, tab2[m] # NoRow, tab2[m].who = call.who
        PROVE  /\ Holds(my, m, {"update"})
               /\ tab2[m].of \in call.todo \/ Holds(my, tab2[m].of, {"update"})
    BY <2>1, <2>4, <2>8 DEF EraseOK
  <2>9. ASSUME call.pc \in {"erased", "commit"},
               NEW m \in Membership, tab2[m] # NoRow, tab2[m].who = call.who
        PROVE  (m \in call.todo \/ dr[m] = NoRow) /\ Holds(my, tab2[m].of, {"update"})
    BY <2>1, <2>4, <2>9 DEF EraseOK
  <2> QED  BY <2>1, <2>3, <2>5, <2>6, <2>7, <2>8, <2>9 DEF EraseOK
<1>9. ASSUME call # Nothing PROVE Sure(tab2, dr, call, my)
  <2> SUFFICES ASSUME call.op # "erase", call.pc # "trigger", NEW w \in Losses(tab2, dr)
               PROVE  /\ Holds(my, w, {"write", "update"})
                      /\ dr[w] = NoRow \/ Keeps(Seen(tab2, dr), w)
    BY DEF Sure
  <2>0. w \in Workspace  BY DEF Losses
  <2>1. w \in Losses(tab, dr)  BY <1>f1 DEF Losses
  <2>2. /\ Holds(my, w, {"write", "update"})
        /\ dr[w] = NoRow \/ Keeps(Seen(tab, dr), w)
    BY <2>1, <1>0, <1>9 DEF CallOK, Sure
  <2>3. ASSUME NEW m \in Membership, IsOwner(Seen(tab, dr)[m], w) PROVE IsOwner(Seen(tab2, dr)[m], w)
    <3>1. CASE dr[m] = Untouched
      <4>1. IsOwner(tab[m], w)  BY <2>3, <3>1, <1>k DEF Seen
      <4> QED  BY <4>1, <3>1, <2>0, <2>2, <1>f7, <1>k DEF Seen
    <3>2. CASE dr[m] # Untouched  BY <2>3, <3>2, <1>k DEF Seen
    <3> QED  BY <3>1, <3>2
  <2> QED  BY <2>2, <2>3 DEF Keeps
<1> QED  BY <1>1, <1>2, <1>3, <1>4, <1>5, <1>6, <1>7, <1>8, <1>9 DEF CallOK

-----------------------------------------------------------------------------
(* A step of one call.                                                     *)

\* What a step of c may change of what the others see.
Alone(c) ==
    /\ \A d \in Caller : d # c => /\ draft'[d] = draft[d] /\ calls'[d] = calls[d]
                                  /\ LocksOf(d)' = LocksOf(d)
    /\ \A m \in Membership : draft'[c][m] # Untouched =>
            draft[c][m] # Untouched \/ table[m] # NoRow \/ New(m)
    /\ calls'[c] # Nothing => \A m \in Membership : m \in calls'[c].old \cup calls'[c].todo =>
            \/ table[m] # NoRow
            \/ calls[c] # Nothing /\ m \in calls[c].old \cup calls[c].todo
    /\ calls'[c] # Nothing /\ calls'[c].op = "signUp" =>
            \/ calls[c] # Nothing /\ calls[c].op = "signUp" /\ calls[c].who = calls'[c].who
            \/ \A d \in Caller : calls[d] # Nothing => calls[d].who # calls'[c].who

LEMMA StepOfOne ==
    ASSUME IInv, NEW c \in Caller, UNCHANGED table, Types', LocksAgree', Alone(c),
           CallOK(table, draft'[c], calls'[c], LocksOf(c)')
    PROVE  IInv'
<1> USE DEF IInv
<1>1. ForeignKeys' /\ SomebodyIsInCharge'
  BY DEF ForeignKeys, SomebodyIsInCharge, Accounts, Admins, OwnersOf, MembersOf
<1>2. CallsOK'
  <2> SUFFICES ASSUME NEW d \in Caller PROVE CallOK(table, draft'[d], calls'[d], LocksOf(d)')
    BY DEF CallsOK
  <2>1. CASE d = c  BY <2>1
  <2>2. CASE d # c
    <3>1. draft'[d] = draft[d] /\ calls'[d] = calls[d] /\ LocksOf(d)' = LocksOf(d)  BY <2>2 DEF Alone
    <3>2. CallOK(table, draft[d], calls[d], LocksOf(d))  BY DEF CallsOK
    <3> QED  BY <3>1, <3>2
  <2> QED  BY <2>1, <2>2
<1>3. ASSUME NEW d \in Caller, d # c PROVE Apart(table, draft'[c], calls'[c], draft'[d], calls'[d])
  <2>0. draft'[d] = draft[d] /\ calls'[d] = calls[d] /\ LocksOf(d)' = LocksOf(d)  BY <1>3 DEF Alone
  <2>1. ASSUME NEW m \in Membership, draft'[c][m] # Untouched PROVE draft[d][m] = Untouched
    <3>1. CASE draft[c][m] # Untouched  BY <3>1, <1>3 DEF AllApart, Apart
    <3>2. CASE table[m] # NoRow
      <4>1. Holds(LocksOf(c)', m, {"update"})  BY <2>1, <3>2 DEF CallOK, RowsHeld
      <4>2. ~Holds(LocksOf(d), m, {"update"})
        BY <4>1, <2>0, <1>3 DEF LocksAgree, LocksOf, Holds, Compatible
      <4>3. CallOK(table, draft[d], calls[d], LocksOf(d))  BY DEF CallsOK
      <4> QED  BY <4>2, <4>3, <3>2 DEF CallOK, RowsHeld
    <3>3. CASE New(m)  BY <3>3 DEF New
    <3> QED  BY <2>1, <3>1, <3>2, <3>3 DEF Alone
  <2>2. ASSUME calls'[c] # Nothing, calls[d] # Nothing, calls'[c].op = "signUp", calls[d].op = "signUp"
        PROVE  calls'[c].who # calls[d].who
    BY <2>2, <1>3 DEF Alone, AllApart, Apart
  <2> QED  BY <2>0, <2>1, <2>2 DEF Apart
<1>4. AllApart'
  <2> SUFFICES ASSUME NEW d \in Caller, NEW e \in Caller, d # e
               PROVE  Apart(table, draft'[d], calls'[d], draft'[e], calls'[e])
    BY DEF AllApart, Apart
  <2>1. CASE d = c  BY <2>1, <1>3
  <2>2. CASE e = c
    <3>1. Apart(table, draft'[e], calls'[e], draft'[d], calls'[d])  BY <2>2, <1>3
    <3> QED  BY <3>1 DEF Apart
  <2>3. CASE d # c /\ e # c
    <3>1. Apart(table, draft[d], calls[d], draft[e], calls[e])  BY DEF AllApart
    <3> QED  BY <3>1, <2>3 DEF Alone
  <2> QED  BY <2>1, <2>2, <2>3
<1>5. AllFresh'
  <2> SUFFICES ASSUME NEW d \in Caller, NEW e \in Caller, NEW m \in Membership,
                      draft'[d][m] # Untouched, table[m] = NoRow, calls'[e] # Nothing
               PROVE  m \notin calls'[e].old \cup calls'[e].todo
    BY DEF AllFresh, Fresh
  <2>1. draft[d][m] # Untouched \/ (d = c /\ New(m))
    BY DEF Alone
  <2>2. ASSUME NEW f \in Caller, calls[f] # Nothing PROVE m \notin calls[f].old \cup calls[f].todo
    BY <2>1, <2>2 DEF AllFresh, Fresh, New
  <2>3. CASE e = c  BY <2>2, <2>3 DEF Alone
  <2>4. CASE e # c  BY <2>2, <2>4 DEF Alone
  <2> QED  BY <2>3, <2>4
<1> QED  BY <1>1, <1>2, <1>4, <1>5

LEMMA RollbackKeeps ==
    ASSUME IInv, NEW c \in Caller, Rollback(c)
    PROVE  IInv'
<1>1. UNCHANGED table /\ draft' = Clean(c) /\ locks' = Unlocked(c)
      /\ calls' = [calls EXCEPT ![c] = Nothing]
  BY DEF Rollback
<1>2. /\ LocksAgree' /\ LocksOf(c)' = {} /\ locks' \subseteq locks
      /\ \A d \in Caller : d # c => LocksOf(d)' = LocksOf(d)
  BY <1>1, LocksFreed DEF IInv
<1>3. draft'[c] = [k \in Key |-> Untouched] /\ calls'[c] = Nothing
  BY <1>1 DEF IInv, Types, Clean
<1>4. Types'
  BY <1>1, <1>2, <1>3 DEF IInv, Types, Clean, TabOK, DrOK
<1>5. \A d \in Caller : d # c => draft'[d] = draft[d] /\ calls'[d] = calls[d]
  BY <1>1 DEF IInv, Types, Clean
<1>k. Key = Membership \cup Workspace \cup Account  BY DEF Key
<1>6. Alone(c)  BY <1>2, <1>3, <1>5, <1>k DEF Alone
<1>7. CallOK(table, draft'[c], calls'[c], LocksOf(c)')
  BY <1>2, <1>3, <1>k DEF CallOK, Idle, RowsHeld, OthersHeldBy
<1> QED  BY <1>1, <1>2, <1>4, <1>6, <1>7, StepOfOne

-----------------------------------------------------------------------------
(* A commit.                                                               *)

\* What is committed, when the call that commits is as it should be.
Ends(tab, dd, cd, md) ==
    /\ TabOK(tab) /\ LinksOK(tab) /\ Owned(tab)
    /\ DrOK(dd) /\ CallT(cd) /\ CallOK(tab, dd, cd, md)
    /\ cd # Nothing /\ cd.pc = "commit" /\ cd.todo = {}

LEMMA EndsFacts ==
    ASSUME NEW tab, NEW dd, NEW cd, NEW md, Ends(tab, dd, cd, md),
           NEW tab2, tab2 = Seen(tab, dd)
    PROVE  /\ TabOK(tab2)
           /\ \A k \in Key : tab2[k] = IF dd[k] = Untouched THEN tab[k] ELSE dd[k]
           /\ \A m \in Membership : tab2[m] # NoRow /\ tab[m] # NoRow =>
                    tab2[m].of = tab[m].of /\ tab2[m].who = tab[m].who
           /\ \A m \in Membership : tab2[m] # NoRow /\ tab[m] = NoRow =>
                    NewRow(tab, dd, cd, md, m) /\ tab2[m] = dd[m]
<1>k. Key = Membership \cup Workspace \cup Account  BY DEF Key
<1>1. \A k \in Key : tab2[k] = IF dd[k] = Untouched THEN tab[k] ELSE dd[k]
  BY DEF Seen
<1>2. TabOK(tab2)
  <2>1. DOMAIN tab2 = Key  BY DEF Seen
  <2>2. \A k \in Key : tab2[k] \in RowsAt(k)  BY <1>1 DEF TabOK, DrOK, Ends
  <2> QED  BY <2>1, <2>2 DEF TabOK
<1>3. \A m \in Membership : tab2[m] # NoRow /\ tab[m] # NoRow =>
            tab2[m].of = tab[m].of /\ tab2[m].who = tab[m].who
  BY <1>1, <1>k DEF Ends, CallOK, RowsHeld
<1>4. \A m \in Membership : tab2[m] # NoRow /\ tab[m] = NoRow =>
            NewRow(tab, dd, cd, md, m) /\ tab2[m] = dd[m]
  BY <1>1, <1>k DEF Ends, CallOK, RowsHeld
<1> QED  BY <1>1, <1>2, <1>3, <1>4

LEMMA EndsLinks ==
    ASSUME NEW tab, NEW dd, NEW cd, NEW md, Ends(tab, dd, cd, md),
           NEW tab2, tab2 = Seen(tab, dd)
    PROVE  LinksOK(tab2)
<1> SUFFICES ASSUME NEW m \in Membership, tab2[m] # NoRow
             PROVE  tab2[tab2[m].of] # NoRow /\ tab2[tab2[m].who] # NoRow
  BY DEF LinksOK
<1>k. Key = Membership \cup Workspace \cup Account  BY DEF Key
<1>1. \A k \in Key : tab2[k] = IF dd[k] = Untouched THEN tab[k] ELSE dd[k]  BY EndsFacts
<1>2. tab2[m].of \in Workspace /\ tab2[m].who \in Account
  BY EndsFacts, <1>k DEF TabOK, RowsAt, MemberRow
<1>3. CASE tab[m] = NoRow
  <2>1. NewRow(tab, dd, cd, md, m) /\ tab2[m] = dd[m]  BY <1>3, EndsFacts
  <2>2. dd[m] # Untouched  BY <1>1, <1>3, <1>k
  <2>3. cd.op \notin {"signUp", "erase"}
    BY <2>1, <2>2 DEF Ends, CallOK, SignUpOK, EraseOK
  <2>4. dd[tab2[m].who] = Untouched  BY <1>2, <2>3 DEF Ends, CallOK, OthersHeldBy
  <2>5. tab2[m].of = cd.in /\ tab2[m].who = cd.who /\ tab2[cd.in] # NoRow /\ tab[cd.who] # NoRow
    BY <2>1 DEF NewRow, Ends
  <2> QED  BY <1>1, <1>2, <1>k, <2>4, <2>5
<1>4. CASE tab[m] # NoRow
  <2>1. tab2[m].of = tab[m].of /\ tab2[m].who = tab[m].who  BY <1>4, EndsFacts
  <2>2. tab[tab[m].of] # NoRow /\ tab[tab[m].who] # NoRow  BY <1>4 DEF Ends, LinksOK
  <2>3. dd[m] # NoRow  BY <1>1, <1>k, Nulls
  <2>4. dd[tab[m].of] # NoRow
    <3> SUFFICES ASSUME dd[tab[m].of] = NoRow PROVE FALSE  OBVIOUS
    <3>1. cd.op = "drop" /\ cd.in = tab[m].of
      BY <1>2, <2>1, Nulls DEF Ends, CallOK, OthersHeldBy
    <3> QED  BY <3>1, <1>4, <2>3 DEF Ends, CallOK, DropOK
  <2>5. dd[tab[m].who] # NoRow
    <3> SUFFICES ASSUME dd[tab[m].who] = NoRow PROVE FALSE  OBVIOUS
    <3>1. cd.op \in {"signUp", "erase"} /\ cd.who = tab[m].who
      BY <1>2, <2>1, Nulls DEF Ends, CallOK, OthersHeldBy
    <3>2. cd.op = "erase"  BY <3>1, <2>2 DEF Ends, CallOK, SignUpOK
    <3> QED  BY <3>1, <3>2, <1>4, <2>3 DEF Ends, CallOK, EraseOK
  <2> QED  BY <1>1, <1>2, <1>k, <2>1, <2>2, <2>4, <2>5
<1> QED  BY <1>3, <1>4

LEMMA EndsOwned ==
    ASSUME NEW tab, NEW dd, NEW cd, NEW md, Ends(tab, dd, cd, md),
           NEW tab2, tab2 = Seen(tab, dd)
    PROVE  Owned(tab2)
<1> SUFFICES ASSUME NEW w \in Workspace, tab2[w] # NoRow PROVE Keeps(tab2, w)
  BY DEF Owned
<1>k. Key = Membership \cup Workspace \cup Account  BY DEF Key
<1>1. \A k \in Key : tab2[k] = IF dd[k] = Untouched THEN tab[k] ELSE dd[k]  BY EndsFacts
<1>2. CASE tab[w] = NoRow
  <2>1. cd.op = "create" /\ cd.in = w  BY <1>1, <1>2, <1>k DEF Ends, CallOK, OthersHeldBy
  <2>2. PICK m \in Membership : dd[m] \notin {Untouched, NoRow} /\ IsOwner(dd[m], w)
    BY <2>1 DEF Ends, CallOK, JoinOK
  <2> QED  BY <2>2, <1>1, <1>k DEF Keeps
<1>3. CASE tab[w] # NoRow
  <2>1. PICK m \in Membership : IsOwner(tab[m], w)  BY <1>3 DEF Ends, Owned, Keeps
  <2>2. CASE w \notin Losses(tab, dd)
    <3>1. IsOwner(tab2[m], w)  BY <1>1, <1>k, <2>1, <2>2 DEF Losses
    <3> QED  BY <3>1 DEF Keeps
  <2>3. CASE w \in Losses(tab, dd) /\ cd.op # "erase"
    <3>1. dd[w] # NoRow  BY <1>1, <1>k, Nulls
    <3> QED  BY <3>1, <2>3 DEF Ends, CallOK, Sure
  <2>4. CASE cd.op = "erase"
    <3>1. w \notin OwnedAloneIn(tab, cd.who)  BY <2>4 DEF Ends, CallOK, EraseOK
    <3>2. PICK n \in Membership : IsOwner(tab[n], w) /\ tab[n].who # cd.who
      BY <3>1, <2>1 DEF OwnedAloneIn, Keeps
    <3>3. dd[n] = Untouched  BY <3>2, <2>4 DEF Ends, CallOK, EraseOK, IsOwner
    <3>4. IsOwner(tab2[n], w)  BY <3>2, <3>3, <1>1, <1>k
    <3> QED  BY <3>4 DEF Keeps
  <2> QED  BY <2>2, <2>3, <2>4
<1> QED  BY <1>2, <1>3

Managed(tab) ==
    (\E a \in Account : tab[a] # NoRow) => \E a \in Account : tab[a] # NoRow /\ tab[a].admin /\ ~tab[a].banned

LEMMA EndsManaged ==
    ASSUME NEW tab, NEW dd, NEW cd, NEW md, Ends(tab, dd, cd, md), Managed(tab),
           NEW tab2, tab2 = Seen(tab, dd)
    PROVE  Managed(tab2)
<1> SUFFICES ASSUME NEW a \in Account, tab2[a] # NoRow
             PROVE  \E b \in Account : tab2[b] # NoRow /\ tab2[b].admin /\ ~tab2[b].banned
  BY DEF Managed
<1>k. Key = Membership \cup Workspace \cup Account  BY DEF Key
<1>1. \A k \in Key : tab2[k] = IF dd[k] = Untouched THEN tab[k] ELSE dd[k]  BY EndsFacts
<1>2. CASE cd.op = "signUp"
  <2>1. cd.who \in Account /\ tab[cd.who] = NoRow /\ dd[cd.who] \in AccountRow /\ ~dd[cd.who].banned
        /\ ((\A b \in Account : tab[b] = NoRow) => dd[cd.who].admin)
    BY <1>2 DEF Ends, CallOK, SignUpOK
  <2>2. \A b \in Account : b # cd.who => dd[b] = Untouched  BY DEF Ends, CallOK, OthersHeldBy
  <2>3. CASE \A b \in Account : tab[b] = NoRow
    <3>1. tab2[cd.who] = dd[cd.who]  BY <2>1, <1>1, <1>k, Nulls
    <3> QED  BY <3>1, <2>1, <2>3, Nulls
  <2>4. CASE \E b \in Account : tab[b] # NoRow
    <3>1. PICK b \in Account : tab[b] # NoRow /\ tab[b].admin /\ ~tab[b].banned  BY <2>4 DEF Managed
    <3>2. tab2[b] = tab[b]  BY <3>1, <2>1, <2>2, <1>1, <1>k
    <3> QED  BY <3>1, <3>2
  <2> QED  BY <2>3, <2>4
<1>3. CASE cd.op = "erase"
  <2>1. cd.by \in Account /\ cd.by # cd.who /\ tab[cd.by] # NoRow /\ tab[cd.by].admin /\ ~tab[cd.by].banned
    BY <1>3 DEF Ends, CallOK, EraseOK
  <2>2. dd[cd.by] = Untouched  BY <2>1 DEF Ends, CallOK, OthersHeldBy
  <2> QED  BY <2>1, <2>2, <1>1, <1>k
<1>4. CASE cd.op \notin {"signUp", "erase"}
  <2>1. \A b \in Account : tab2[b] = tab[b]  BY <1>4, <1>1, <1>k DEF Ends, CallOK, OthersHeldBy
  <2> QED  BY <2>1 DEF Managed
<1> QED  BY <1>2, <1>3, <1>4

LEMMA InCharge ==
    SomebodyIsInCharge <=> Owned(table) /\ Managed(table)
<1>1. \A w \in Workspace : OwnersOf(w, table) # {} <=> Keeps(table, w)
  BY DEF OwnersOf, MembersOf, Keeps, IsOwner
<1>2. Accounts(table) # {} <=> \E a \in Account : table[a] # NoRow  BY DEF Accounts
<1>3. Admins(table) # {} <=> \E a \in Account : table[a] # NoRow /\ table[a].admin /\ ~table[a].banned
  BY DEF Admins, Accounts
<1> QED  BY <1>1, <1>2, <1>3 DEF SomebodyIsInCharge, Owned, Managed

LEMMA CommitKeeps ==
    ASSUME IInv, NEW c \in Caller, Commit(c)
    PROVE  IInv'
<1> DEFINE cd == calls[c]
           dd == draft[c]
           md == LocksOf(c)
<1>k. Key = Membership \cup Workspace \cup Account  BY DEF Key
<1>1. /\ cd # Nothing /\ cd.pc = "commit" /\ cd.todo = {}
      /\ table' = Seen(table, dd) /\ draft' = Clean(c) /\ locks' = Unlocked(c)
      /\ calls' = [calls EXCEPT ![c] = Nothing]
  BY DEF Commit, At, View, Seen
<1>2. /\ LocksAgree' /\ LocksOf(c)' = {} /\ locks' \subseteq locks
      /\ \A d \in Caller : d # c => LocksOf(d)' = LocksOf(d)
  BY <1>1, LocksFreed DEF IInv
<1>3. draft'[c] = [k \in Key |-> Untouched] /\ calls'[c] = Nothing
  BY <1>1 DEF IInv, Types, Clean
<1>4. \A d \in Caller : d # c => draft'[d] = draft[d] /\ calls'[d] = calls[d]
  BY <1>1 DEF IInv, Types, Clean
<1>5. Owned(table) /\ Managed(table) /\ LinksOK(table)
  BY InCharge DEF IInv, ForeignKeys, LinksOK
<1>6. \A d \in Caller : CallT(calls[d]) /\ DrOK(draft[d]) /\ CallOK(table, draft[d], calls[d], LocksOf(d))
  BY DEF IInv, Types, CallsOK, CallT
<1>7. Ends(table, dd, cd, md)  BY <1>1, <1>5, <1>6 DEF Ends, IInv, Types
<1>8. TabOK(table') /\ LinksOK(table') /\ Owned(table') /\ Managed(table')
  BY <1>1, <1>5, <1>7, EndsFacts, EndsLinks, EndsOwned, EndsManaged
<1>9. SomebodyIsInCharge' /\ ForeignKeys'
  <2>1. SomebodyIsInCharge'
    <3>1. \A w \in Workspace : OwnersOf(w, table') # {} <=> Keeps(table', w)
      BY DEF OwnersOf, MembersOf, Keeps, IsOwner
    <3>2. Accounts(table') # {} <=> \E a \in Account : table'[a] # NoRow  BY DEF Accounts
    <3>3. Admins(table') # {} <=> \E a \in Account : table'[a] # NoRow /\ table'[a].admin /\ ~table'[a].banned
      BY DEF Admins, Accounts
    <3> QED  BY <1>8, <3>1, <3>2, <3>3 DEF SomebodyIsInCharge, Owned, Managed
  <2> QED  BY <2>1, <1>8 DEF LinksOK, ForeignKeys
<1>10. Types'
  BY <1>1, <1>2, <1>3, <1>4, <1>8 DEF IInv, Types, Clean, DrOK
<1>11. CallsOK'
  <2> SUFFICES ASSUME NEW d \in Caller PROVE CallOK(table', draft'[d], calls'[d], LocksOf(d)')
    BY DEF CallsOK
  <2>1. CASE d = c
    BY <2>1, <1>2, <1>3, <1>k DEF CallOK, Idle, RowsHeld, OthersHeldBy
  <2>2. CASE d # c
    <3>1. Together(LocksOf(d), md)
      BY <2>2, HoldsTogether DEF Together, IInv, Types
    <3>2. Apart(table, draft[d], calls[d], dd, cd) /\ Fresh(table, dd, calls[d])
      BY <2>2 DEF IInv, AllApart, AllFresh
    <3>3. Commits(table, draft[d], calls[d], LocksOf(d), dd, cd, md)
      BY <3>1, <3>2, <1>7, <1>6 DEF Ends, Commits
    <3>4. CallOK(table', draft[d], calls[d], LocksOf(d))  BY <3>3, <1>1, CommitLeaves
    <3> QED  BY <3>4, <2>2, <1>2, <1>4
  <2> QED  BY <2>1, <2>2
<1>12. AllApart'
  <2> SUFFICES ASSUME NEW d \in Caller, NEW e \in Caller, d # e
               PROVE  Apart(table', draft'[d], calls'[d], draft'[e], calls'[e])
    BY DEF AllApart
  <2>1. CASE d = c \/ e = c  BY <2>1, <1>3, <1>k DEF Apart
  <2>2. CASE d # c /\ e # c
    <3>1. Apart(table, draft[d], calls[d], draft[e], calls[e])  BY DEF IInv, AllApart
    <3> QED  BY <3>1, <2>2, <1>4 DEF Apart
  <2> QED  BY <2>1, <2>2
<1>13. AllFresh'
  <2> SUFFICES ASSUME NEW d \in Caller, NEW e \in Caller, NEW m \in Membership,
                      draft'[d][m] # Untouched, table'[m] = NoRow, calls'[e] # Nothing
               PROVE  m \notin calls'[e].old \cup calls'[e].todo
    BY DEF AllFresh, Fresh
  <2>1. d # c /\ e # c  BY <1>3, <1>k
  <2>2. draft[d][m] # Untouched /\ calls[e] # Nothing /\ calls'[e] = calls[e]  BY <2>1, <1>4
  <2>3. dd[m] = Untouched  BY <2>1, <2>2 DEF IInv, AllApart, Apart
  <2>4. table[m] = NoRow  BY <2>3, <1>1, <1>k DEF Seen
  <2> QED  BY <2>2, <2>4 DEF IInv, AllFresh, Fresh
<1> QED  BY <1>2, <1>9, <1>10, <1>11, <1>12, <1>13 DEF IInv

\* A step of c, in terms of what it leaves of its call.
LEMMA Stepped ==
    ASSUME IInv, NEW c \in Caller, UNCHANGED table, LocksAgree',
           NEW call, CallT(call), calls' = [calls EXCEPT ![c] = call],
           NEW dr, DrOK(dr), draft'[c] = dr, DOMAIN draft' = Caller,
           \A d \in Caller : d # c => draft'[d] = draft[d] /\ LocksOf(d)' = LocksOf(d),
           locks' \subseteq [by : Caller, on : Key \cup {RoleLock}, how : Some],
           \A m \in Membership : dr[m] # Untouched =>
                draft[c][m] # Untouched \/ table[m] # NoRow \/ New(m),
           call # Nothing => \A m \in Membership : m \in call.old \cup call.todo =>
                \/ table[m] # NoRow
                \/ calls[c] # Nothing /\ m \in calls[c].old \cup calls[c].todo,
           call # Nothing /\ call.op = "signUp" =>
                \/ calls[c] # Nothing /\ calls[c].op = "signUp" /\ calls[c].who = call.who
                \/ \A d \in Caller : calls[d] # Nothing => calls[d].who # call.who,
           CallOK(table, dr, call, LocksOf(c)')
    PROVE  IInv'
<1>1. calls'[c] = call /\ \A d \in Caller : d # c => calls'[d] = calls[d]
  BY DEF IInv, Types
<1>2. Types'  BY <1>1 DEF IInv, Types, DrOK, TabOK, CallT
<1>3. Alone(c)  BY <1>1 DEF Alone
<1> QED  BY <1>1, <1>2, <1>3, StepOfOne

-----------------------------------------------------------------------------
(* A call starts.                                                          *)

\* What a call is when it starts.
Started(call) ==
    /\ call \in CallRecord /\ call.pc \in Early /\ call.does = "hold"
    /\ call.old = {m \in Membership : table[m] # NoRow}
    /\ \A m \in Membership : m \in call.todo => table[m] # NoRow

LEMMA StartKeeps ==
    ASSUME IInv, NEW c \in Caller, NEW call, Started(call),
           calls[c] = Nothing, calls' = [calls EXCEPT ![c] = call], UNCHANGED <<table, draft, locks>>,
           call.op = "signUp" => \A d \in Caller : calls[d] # Nothing => calls[d].who # call.who,
           SignUpOK(table, draft[c], call), RouteOK(table, draft[c], call), JoinOK(draft[c], call),
           AdminOK(table, call, {}), DropOK(table, draft[c], call, {}),
           EraseOK(table, draft[c], call, {})
    PROVE  IInv'
<1>k. Key = Membership \cup Workspace \cup Account  BY DEF Key
<1>0. call # Nothing  BY Nulls DEF Started
<1>1. LocksOf(c) = {} /\ \A k \in Key : draft[c][k] = Untouched
  BY DEF IInv, CallsOK, CallOK, Idle
<1>2. LocksAgree' /\ \A d \in Caller : LocksOf(d)' = LocksOf(d)  BY LocksKept DEF IInv
<1>3. CallOK(table, draft[c], call, {})
  <2>1. Losses(table, draft[c]) = {}  BY <1>1, <1>k DEF Losses
  <2> QED  BY <1>0, <1>1, <1>k, <2>1 DEF CallOK, Idle, RowsHeld, OthersHeldBy, Sure, Started
<1>4. /\ CallT(call) /\ DrOK(draft[c]) /\ DOMAIN draft' = Caller
      /\ locks' \subseteq [by : Caller, on : Key \cup {RoleLock}, how : Some]
      /\ UNCHANGED table /\ \A d \in Caller : draft'[d] = draft[d]
  BY DEF IInv, Types, CallT, Started
<1>5. \A m \in Membership : /\ draft[c][m] = Untouched
                            /\ m \in call.old \cup call.todo => table[m] # NoRow
  BY <1>1, <1>k DEF Started
<1>6. CallOK(table, draft[c], call, LocksOf(c)')  BY <1>1, <1>2, <1>3
<1> QED  BY <1>2, <1>4, <1>5, <1>6, Stepped


LEMMA SignUpCalledKeeps ==
    ASSUME IInv, NEW c \in Caller, NEW a \in Account, SignUpCalled(c, a)
    PROVE  IInv'
<1> DEFINE pc == IF Accounts(table) = {} THEN "role" ELSE "insert"
           call == [Call("signUp", pc) EXCEPT !.who = a]
<1>1. /\ table[a] = NoRow /\ \A d \in Caller : calls[d] # Nothing => calls[d].who # a
      /\ calls[c] = Nothing /\ calls' = [calls EXCEPT ![c] = call] /\ UNCHANGED <<table, draft, locks>>
  BY DEF SignUpCalled, Unnamed, Starts
<1>2. call.op = "signUp" /\ call.who = a /\ call.pc \in {"role", "insert"} /\ call.todo = {}
  BY DEF Call
<1>3. Started(call)  BY DEF Started, Call, CallRecord, Early
<1>4. \A m \in Membership : draft[c][m] = Untouched
  BY <1>1 DEF IInv, CallsOK, CallOK, Idle, Key
<1>5. SignUpOK(table, draft[c], call)  BY <1>1, <1>2, <1>4 DEF SignUpOK
<1>6. /\ RouteOK(table, draft[c], call) /\ JoinOK(draft[c], call) /\ AdminOK(table, call, {})
      /\ DropOK(table, draft[c], call, {}) /\ EraseOK(table, draft[c], call, {})
  BY <1>2 DEF RouteOK, JoinOK, AdminOK, DropOK, EraseOK, Administers
<1> HIDE DEF call
<1> QED  BY <1>1, <1>2, <1>3, <1>5, <1>6, StartKeeps

LEMMA RouteCalledKeeps ==
    ASSUME IInv, NEW c \in Caller, NEW m \in Membership, NEW role \in Role \cup {"gone"},
           RouteCalled(c, m, role)
    PROVE  IInv'
<1> DEFINE call == [Call("route", "write") EXCEPT !.member = m, !.in = table[m].of, !.role = role]
<1>1. /\ table[m] # NoRow
      /\ calls[c] = Nothing /\ calls' = [calls EXCEPT ![c] = call] /\ UNCHANGED <<table, draft, locks>>
  BY DEF RouteCalled, Starts
<1>2. /\ call.op = "route" /\ call.member = m /\ call.in = table[m].of /\ call.role = role
      /\ call.pc = "write" /\ call.todo = {} /\ m \in call.old
  BY <1>1 DEF Call
<1>3. table[m].of \in Workspace  BY <1>1 DEF IInv, Types, TabOK, RowsAt, MemberRow, Key
<1>4. Started(call)  BY <1>3 DEF Started, Call, CallRecord, Early
<1>5. \A n \in Membership : draft[c][n] = Untouched
  BY <1>1 DEF IInv, CallsOK, CallOK, Idle, Key
<1>6. RouteOK(table, draft[c], call)  BY <1>2, <1>3, <1>5 DEF RouteOK
<1>7. /\ SignUpOK(table, draft[c], call) /\ JoinOK(draft[c], call) /\ AdminOK(table, call, {})
      /\ DropOK(table, draft[c], call, {}) /\ EraseOK(table, draft[c], call, {})
  BY <1>2 DEF SignUpOK, JoinOK, AdminOK, DropOK, EraseOK, Administers
<1> HIDE DEF call
<1> QED  BY <1>1, <1>2, <1>4, <1>6, <1>7, StartKeeps

LEMMA JoinStartKeeps ==
    ASSUME IInv, NEW c \in Caller, NEW call, Started(call),
           call.op \in {"join", "create"}, call.pc \in {"insert", "role"}, call.todo = {},
           call.in \in Workspace, call.who \in Account, call.role \in Role,
           call.op = "join" => call.pc = "insert", call.op = "create" => call.role = "owner",
           calls[c] = Nothing, UNCHANGED <<table, draft, locks>>, calls' = [calls EXCEPT ![c] = call]
    PROVE  IInv'
<1>1. JoinOK(draft[c], call)  BY DEF JoinOK
<1>2. /\ SignUpOK(table, draft[c], call) /\ RouteOK(table, draft[c], call) /\ AdminOK(table, call, {})
      /\ DropOK(table, draft[c], call, {}) /\ EraseOK(table, draft[c], call, {})
  BY DEF SignUpOK, RouteOK, AdminOK, DropOK, EraseOK, Administers
<1> QED  BY <1>1, <1>2, StartKeeps

LEMMA JoinCalledKeeps ==
    ASSUME IInv, NEW c \in Caller, NEW w \in Workspace, NEW a \in Account, NEW role \in Role,
           JoinCalled(c, w, a, role)
    PROVE  IInv'
<1> DEFINE call == [Call("join", "insert") EXCEPT !.in = w, !.who = a, !.role = role]
<1>1. Started(call)  BY DEF Started, Call, CallRecord, Early
<1>2. /\ call.op = "join" /\ call.pc = "insert" /\ call.in = w /\ call.who = a /\ call.role = role
      /\ call.todo = {}
  BY DEF Call
<1>3. /\ calls[c] = Nothing /\ UNCHANGED <<table, draft, locks>>
      /\ calls' = [calls EXCEPT ![c] = call]
  BY DEF JoinCalled, Starts
<1> HIDE DEF call
<1> QED  BY <1>1, <1>2, <1>3, JoinStartKeeps

LEMMA CreateCalledKeeps ==
    ASSUME IInv, NEW c \in Caller, NEW w \in Workspace, NEW a \in Account,
           NEW by \in Admins(table) \cup {Nothing}, CreateCalled(c, w, a, by)
    PROVE  IInv'
<1> DEFINE call == [Call("create", IF by = Nothing THEN "insert" ELSE "role")
                      EXCEPT !.in = w, !.who = a, !.by = by, !.role = "owner"]
<1>1. Started(call)  BY DEF Started, Call, CallRecord, Early, Role, Admins, Accounts
<1>2. /\ call.op = "create" /\ call.pc \in {"insert", "role"} /\ call.in = w /\ call.who = a
      /\ call.role = "owner" /\ call.todo = {}
  BY DEF Call
<1>3. /\ calls[c] = Nothing /\ UNCHANGED <<table, draft, locks>>
      /\ calls' = [calls EXCEPT ![c] = call]
  BY DEF CreateCalled, Starts
<1>4. "owner" \in Role  BY DEF Role
<1> HIDE DEF call
<1> QED  BY <1>1, <1>2, <1>3, <1>4, JoinStartKeeps

LEMMA DropCalledKeeps ==
    ASSUME IInv, NEW c \in Caller, NEW w \in Workspace, DropCalled(c, w)
    PROVE  IInv'
<1> DEFINE call == HoldingMembers([Call("drop", "workspace") EXCEPT !.in = w])
<1>1. /\ calls[c] = Nothing /\ calls' = [calls EXCEPT ![c] = call] /\ UNCHANGED <<table, draft, locks>>
  BY DEF DropCalled, Starts
<1>2. /\ call.op = "drop" /\ call.pc = "workspace" /\ call.in = w
      /\ call.todo = MembersOf(w, table)
  BY DEF Call, HoldingMembers, Running
<1>3. Started(call)  BY DEF Started, Call, CallRecord, Early, HoldingMembers, Running, MembersOf
<1>4. DropOK(table, draft[c], call, {})  BY <1>2 DEF DropOK
<1>5. /\ SignUpOK(table, draft[c], call) /\ RouteOK(table, draft[c], call) /\ JoinOK(draft[c], call)
      /\ AdminOK(table, call, {}) /\ EraseOK(table, draft[c], call, {})
  BY <1>2 DEF SignUpOK, RouteOK, JoinOK, AdminOK, EraseOK, Administers
<1> HIDE DEF call
<1> QED  BY <1>1, <1>2, <1>3, <1>4, <1>5, StartKeeps

LEMMA AdminCalledKeeps ==
    ASSUME IInv, NEW c \in Caller, NEW by \in Admins(table), NEW w \in Workspace,
           NEW op, NEW a, NEW role, AdminCalled(c, op, by, w, a, role),
           \/ op \in {"setRole", "add"} /\ a \in Account /\ role \in Role
           \/ op = "setOwner" /\ a \in Account /\ role = "owner"
           \/ op = "dropAsAdmin" /\ a = Nothing /\ role = Nothing
    PROVE  IInv'
<1> DEFINE call == [Call(op, "role") EXCEPT !.by = by, !.in = w, !.who = a, !.role = role]
<1>1. /\ calls[c] = Nothing /\ calls' = [calls EXCEPT ![c] = call] /\ UNCHANGED <<table, draft, locks>>
  BY DEF AdminCalled, Starts
<1>2. /\ call.op = op /\ call.pc = "role" /\ call.in = w /\ call.who = a /\ call.role = role
      /\ call.todo = {}
  BY DEF Call
<1>3. Started(call)  BY DEF Started, Call, CallRecord, Early, Role, Admins, Accounts
<1>4. AdminOK(table, call, {}) /\ DropOK(table, draft[c], call, {})
  BY <1>2 DEF AdminOK, DropOK, Administers, Role
<1>5. /\ SignUpOK(table, draft[c], call) /\ RouteOK(table, draft[c], call) /\ JoinOK(draft[c], call)
      /\ EraseOK(table, draft[c], call, {})
  BY <1>2 DEF SignUpOK, RouteOK, JoinOK, EraseOK
<1> HIDE DEF call
<1> QED  BY <1>1, <1>2, <1>3, <1>4, <1>5, StartKeeps

LEMMA EraseCalledKeeps ==
    ASSUME IInv, NEW c \in Caller, NEW by \in Admins(table), NEW a \in Account, EraseCalled(c, by, a)
    PROVE  IInv'
<1> DEFINE call == [Call("erase", "role") EXCEPT !.by = by, !.who = a]
<1>1. /\ calls[c] = Nothing /\ calls' = [calls EXCEPT ![c] = call] /\ UNCHANGED <<table, draft, locks>>
  BY DEF EraseCalled, Starts
<1>2. call.op = "erase" /\ call.pc = "role" /\ call.who = a /\ call.todo = {}
  BY DEF Call
<1>3. Started(call)  BY DEF Started, Call, CallRecord, Early, Admins, Accounts
<1>4. \A m \in Membership : draft[c][m] = Untouched
  BY <1>1 DEF IInv, CallsOK, CallOK, Idle, Key
<1>5. EraseOK(table, draft[c], call, {})  BY <1>2, <1>4 DEF EraseOK
<1>6. /\ SignUpOK(table, draft[c], call) /\ RouteOK(table, draft[c], call) /\ JoinOK(draft[c], call)
      /\ AdminOK(table, call, {}) /\ DropOK(table, draft[c], call, {})
  BY <1>2 DEF SignUpOK, RouteOK, JoinOK, AdminOK, DropOK, Administers
<1> HIDE DEF call
<1> QED  BY <1>1, <1>2, <1>3, <1>5, <1>6, StartKeeps

LEMMA CalledKeeps ==
    ASSUME IInv, NEW c \in Caller, Called(c)
    PROVE  IInv'
<1>1. ASSUME NEW w \in Workspace, NEW by \in Admins(table), NEW a \in Account,
             \/ \E role \in Role, op \in {"setRole", "add"} : AdminCalled(c, op, by, w, a, role)
             \/ AdminCalled(c, "setOwner", by, w, a, "owner")
      PROVE  IInv'
  BY <1>1, AdminCalledKeeps
<1>2. ASSUME NEW w \in Workspace, NEW by \in Admins(table),
             AdminCalled(c, "dropAsAdmin", by, w, Nothing, Nothing)
      PROVE  IInv'
  BY <1>2, AdminCalledKeeps
<1> QED  BY <1>1, <1>2, SignUpCalledKeeps, RouteCalledKeeps, JoinCalledKeeps, CreateCalledKeeps,
            DropCalledKeeps, EraseCalledKeeps
         DEF Called

-----------------------------------------------------------------------------
(* Rows that a statement goes through.                                     *)

LEMMA SmallestIs ==
    ASSUME NEW S \in SUBSET Nat, S # {}
    PROVE  Min(S) \in S /\ \A y \in S : Min(S) <= y
<1> DEFINE R == {ss \in Nat \X Nat : ss[1] < ss[2]}
<1>1. IsWellFoundedOn(R, Nat)  BY NatLessThanWellFounded DEF OpToRel
<1>2. PICK x \in S : \A y \in S : ~(<<y, x>> \in R)
  <2> HIDE DEF R
  <2> QED  BY <1>1, WFMin
<1>3. ASSUME NEW y \in S PROVE x <= y
  <2>1. x \in Nat /\ y \in Nat /\ <<y, x>> \notin R  BY <1>2
  <2>2. ~(y < x)
    <3>1. <<y, x>> \in Nat \X Nat /\ <<y, x>>[1] = y /\ <<y, x>>[2] = x  BY <2>1
    <3> QED  BY <2>1, <3>1
  <2> QED  BY <2>1, <2>2
<1>4. (\E z \in S : \A y \in S : z <= y) /\ Min(S) = CHOOSE z \in S : \A y \in S : z <= y
  BY <1>3 DEF Min
<1> QED  BY <1>4

LEMMA NextIsInTodo ==
    ASSUME IInv, NEW c \in Caller, calls[c] # Nothing
    PROVE  NextRows(calls[c]) \subseteq calls[c].todo /\ calls[c].todo \subseteq Membership \cup Workspace
<1>1. calls[c].todo \in SUBSET (Membership \cup Workspace)  BY DEF IInv, Types, CallRecord
<1>2. calls[c].todo \in SUBSET Nat  BY <1>1, IdAssumption
<1> QED  BY <1>1, <1>2, SmallestIs DEF NextRows

-----------------------------------------------------------------------------
(* Steps that write nothing: a call that has written nothing yet goes on.  *)

LEMMA TakenAt ==
    ASSUME IInv, NEW c \in Caller, NEW pc, At(c, pc), NEW on \in Key \cup {RoleLock}, NEW how \in Some,
           Wanted(calls[c]) = {[on |-> on, how |-> how]}, locks' = Taken(c)
    PROVE  /\ LocksAgree'
           /\ LocksOf(c)' = LocksOf(c) \cup {[by |-> c, on |-> on, how |-> how]}
           /\ \A d \in Caller : d # c => LocksOf(d)' = LocksOf(d)
           /\ locks' \subseteq [by : Caller, on : Key \cup {RoleLock}, how : Some]
<1> DEFINE want == [on |-> on, how |-> how]
<1>1. want.on = on /\ want.how = how  OBVIOUS
<1>2. (CHOOSE l \in Wanted(calls[c]) : TRUE) = want
  <2> HIDE DEF want
  <2>1. Wanted(calls[c]) = {want}  BY DEF want
  <2> QED  BY <2>1
<1>3. locks' = Held(c, on, how)  BY <1>1, <1>2 DEF Taken
<1>4. Free(c, on, how)  BY <1>1 DEF At
<1> QED  BY <1>3, <1>4, LockTaken DEF IInv, Types

\* What a call holds, it holds after it took one lock more.
LEMMA MoreIsHeld ==
    ASSUME NEW my, NEW c, NEW on, NEW how, NEW mine,
           mine = my \cup {[by |-> c, on |-> on, how |-> how]}
    PROVE  /\ \A k, hows : Holds(my, k, hows) => Holds(mine, k, hows)
           /\ how \in Some => Holds(mine, on, Some)
           /\ how \in {"write", "update"} => Holds(mine, on, {"write", "update"})
           /\ how = "update" => Holds(mine, on, {"update"})
           /\ \A k, hows : Holds(mine, k, hows) /\ k # on => Holds(my, k, hows)
<1> DEFINE lock == [by |-> c, on |-> on, how |-> how]
<1>1. mine = my \cup {lock} /\ lock.on = on /\ lock.how = how  OBVIOUS
<1> HIDE DEF lock
<1> QED  BY <1>1 DEF Holds

\* The call as it was, in the terms of the invariant.
LEMMA CallFacts ==
    ASSUME IInv, NEW c \in Caller, calls[c] # Nothing
    PROVE  /\ calls[c] \in CallRecord /\ DrOK(draft[c]) /\ TabOK(table)
           /\ CallOK(table, draft[c], calls[c], LocksOf(c))
           /\ \A m \in Membership : draft[c][m] # Untouched /\ table[m] = NoRow =>
                    m \notin calls[c].old \cup calls[c].todo
           /\ calls[c].pc \in Early => \A k \in Key : draft[c][k] = Untouched
<1>1. CallOK(table, draft[c], calls[c], LocksOf(c))  BY DEF IInv, CallsOK
<1>2. calls[c].pc \in Early => \A k \in Key : draft[c][k] = Untouched  BY <1>1 DEF CallOK, Idle
<1> QED  BY <1>1, <1>2 DEF IInv, Types, AllFresh, Fresh

LEMMA EarlyKeeps ==
    ASSUME IInv, NEW c \in Caller, NEW call \in CallRecord, calls[c] # Nothing,
           calls[c].pc \in Early, call.pc \in Early, call.does = "hold", call.old = calls[c].old,
           call.op = "signUp" => calls[c].op = "signUp" /\ calls[c].who = call.who,
           \A m \in Membership : m \in call.todo => table[m] # NoRow \/ m \in calls[c].todo,
           calls' = [calls EXCEPT ![c] = call], UNCHANGED <<table, draft>>, LocksAgree',
           \A d \in Caller : d # c => LocksOf(d)' = LocksOf(d),
           locks' \subseteq [by : Caller, on : Key \cup {RoleLock}, how : Some],
           SignUpOK(table, draft[c], call), RouteOK(table, draft[c], call), JoinOK(draft[c], call),
           AdminOK(table, call, LocksOf(c)'), DropOK(table, draft[c], call, LocksOf(c)'),
           EraseOK(table, draft[c], call, LocksOf(c)')
    PROVE  IInv'
<1>k. Key = Membership \cup Workspace \cup Account  BY DEF Key
<1>0. call # Nothing  BY Nulls
<1>1. \A k \in Key : draft[c][k] = Untouched  BY CallFacts
<1>2. CallOK(table, draft[c], call, LocksOf(c)')
  <2>1. Losses(table, draft[c]) = {}  BY <1>1, <1>k DEF Losses
  <2> QED  BY <1>0, <1>1, <1>k, <2>1 DEF CallOK, Idle, RowsHeld, OthersHeldBy, Sure
<1>3. /\ CallT(call) /\ DrOK(draft[c]) /\ DOMAIN draft' = Caller
      /\ UNCHANGED table /\ \A d \in Caller : draft'[d] = draft[d]
  BY DEF IInv, Types, CallT
<1>4. \A m \in Membership : draft[c][m] = Untouched  BY <1>1, <1>k
<1>5. \A m \in Membership : m \in call.old \cup call.todo =>
            table[m] # NoRow \/ (calls[c] # Nothing /\ m \in calls[c].old \cup calls[c].todo)
  OBVIOUS
<1> QED  BY <1>2, <1>3, <1>4, <1>5, Stepped

LEMMA HoldRoleKeeps ==
    ASSUME IInv, NEW c \in Caller, HoldRole(c)
    PROVE  IInv'
<1> DEFINE old == calls[c]
<1>1. /\ old # Nothing /\ old.pc = "role" /\ old.todo = {} /\ At(c, "role")
      /\ locks' = Taken(c) /\ UNCHANGED <<table, draft>>
  BY DEF HoldRole, At
<1>2. Wanted(old) = {[on |-> RoleLock, how |-> "update"]}  BY <1>1 DEF Wanted
<1>3. /\ LocksAgree' /\ \A d \in Caller : d # c => LocksOf(d)' = LocksOf(d)
      /\ locks' \subseteq [by : Caller, on : Key \cup {RoleLock}, how : Some]
      /\ LocksOf(c)' = LocksOf(c) \cup {[by |-> c, on |-> RoleLock, how |-> "update"]}
  <2>1. "update" \in Some  BY DEF Some
  <2> QED  BY <1>1, <1>2, <2>1, TakenAt
<1>4. /\ old \in CallRecord /\ SignUpOK(table, draft[c], old) /\ RouteOK(table, draft[c], old)
      /\ JoinOK(draft[c], old) /\ AdminOK(table, old, LocksOf(c))
      /\ DropOK(table, draft[c], old, LocksOf(c)) /\ EraseOK(table, draft[c], old, LocksOf(c))
      /\ old.pc \in Early
  BY <1>1, CallFacts DEF CallOK, Early
<1>5. CASE old.op \in {"erase", "signUp", "create"}
  <2> DEFINE call == [old EXCEPT !.pc = IF old.op = "erase" THEN "user" ELSE "insert"]
  <2>1. call \in CallRecord  BY <1>4 DEF CallRecord
  <2>2. /\ call.op = old.op /\ call.who = old.who /\ call.old = old.old /\ call.todo = {}
        /\ call.in = old.in /\ call.role = old.role /\ call.does = old.does
        /\ call.pc = IF old.op = "erase" THEN "user" ELSE "insert"
    BY <1>1, <1>4 DEF CallRecord
  <2>3. calls' = [calls EXCEPT ![c] = call]  BY <1>5 DEF HoldRole
  <2>4. call.pc \in Early /\ call.does = "hold"
    BY <1>1, <2>2, CallFacts DEF CallOK, Idle, Early
  <2> HIDE DEF call
  <2>5. SignUpOK(table, draft[c], call)  BY <1>4, <1>5, <2>2 DEF SignUpOK
  <2>6. EraseOK(table, draft[c], call, LocksOf(c)')
    <3>1. Holds(LocksOf(c)', RoleLock, {"update"})  BY <1>3, MoreIsHeld
    <3> QED  BY <3>1, <1>4, <1>5, <2>2 DEF EraseOK
  <2>7. JoinOK(draft[c], call)  BY <1>4, <1>5, <2>2 DEF JoinOK
  <2>8. RouteOK(table, draft[c], call) /\ AdminOK(table, call, LocksOf(c)')
        /\ DropOK(table, draft[c], call, LocksOf(c)')
    BY <1>5, <2>2 DEF RouteOK, AdminOK, DropOK, Administers
  <2>9. /\ call.op = "signUp" => old.op = "signUp" /\ old.who = call.who
        /\ \A m \in Membership : m \in call.todo => table[m] # NoRow \/ m \in old.todo
    BY <2>2
  <2> QED  BY <1>1, <1>3, <1>4, <2>1, <2>2, <2>3, <2>4, <2>5, <2>6, <2>7, <2>8, <2>9, EarlyKeeps
<1>6. CASE old.op \notin {"erase", "signUp", "create"}
  <2> DEFINE call == HoldingMembers(old)
  <2>1. call \in CallRecord  BY <1>4 DEF HoldingMembers, Running, MembersOf, CallRecord
  <2>2. /\ call.op = old.op /\ call.who = old.who /\ call.old = old.old
        /\ call.todo = MembersOf(old.in, table)
        /\ call.in = old.in /\ call.role = old.role /\ call.does = "hold" /\ call.pc = "workspace"
    BY <1>4 DEF CallRecord, HoldingMembers, Running
  <2>3. calls' = [calls EXCEPT ![c] = call]  BY <1>6 DEF HoldRole
  <2>4. \A m \in Membership : m \in call.todo => table[m] # NoRow  BY <2>2 DEF MembersOf
  <2>5. call.pc \in Early  BY <2>2 DEF Early
  <2> HIDE DEF call
  <2>6. old.op \in Administers \/ old.op = "dropAsAdmin"
    BY <1>1, <1>4, <1>6 DEF CallRecord, RouteOK, JoinOK, DropOK, Administers
  <2>7. AdminOK(table, call, LocksOf(c)')  BY <1>4, <2>2 DEF AdminOK
  <2>8. DropOK(table, draft[c], call, LocksOf(c)')  BY <1>1, <1>4, <2>2 DEF DropOK
  <2>9. SignUpOK(table, draft[c], call) /\ RouteOK(table, draft[c], call) /\ JoinOK(draft[c], call)
        /\ EraseOK(table, draft[c], call, LocksOf(c)')
    BY <2>2, <2>6 DEF SignUpOK, RouteOK, JoinOK, EraseOK, Administers
  <2>10. /\ call.op = "signUp" => old.op = "signUp" /\ old.who = call.who
         /\ \A m \in Membership : m \in call.todo => table[m] # NoRow \/ m \in old.todo
    BY <2>2, <2>4
  <2> QED  BY <1>1, <1>3, <1>4, <2>1, <2>2, <2>3, <2>5, <2>7, <2>8, <2>9, <2>10, EarlyKeeps
<1> QED  BY <1>5, <1>6

\* What CallFacts says of a call, one conjunct per operation.
LEMMA OpFacts ==
    ASSUME IInv, NEW c \in Caller, calls[c] # Nothing
    PROVE  /\ calls[c] \in CallRecord
           /\ SignUpOK(table, draft[c], calls[c]) /\ RouteOK(table, draft[c], calls[c])
           /\ JoinOK(draft[c], calls[c]) /\ AdminOK(table, calls[c], LocksOf(c))
           /\ DropOK(table, draft[c], calls[c], LocksOf(c))
           /\ EraseOK(table, draft[c], calls[c], LocksOf(c))
BY CallFacts DEF CallOK

LEMMA HoldWorkspaceKeeps ==
    ASSUME IInv, NEW c \in Caller, HoldWorkspace(c)
    PROVE  IInv'
<1> DEFINE old == calls[c]
           how == IF old.op = "drop" THEN "write" ELSE "update"
<1>1. old # Nothing /\ old.pc = "workspace" /\ old.todo = {} /\ At(c, "workspace")
  BY DEF HoldWorkspace, At
<1>2. CASE Rollback(c)  BY <1>2, RollbackKeeps
<1>3. CASE ~Rollback(c)
  <2>1. table[old.in] # NoRow /\ locks' = Taken(c) /\ UNCHANGED <<table, draft>>
    BY <1>3 DEF HoldWorkspace
  <2>2. Wanted(old) = {[on |-> old.in, how |-> how]}  BY <1>1 DEF Wanted
  <2>3. old.pc \in Early  BY <1>1 DEF Early
  <2>4. /\ old.op \in Administers \cup {"drop", "dropAsAdmin"}
        /\ old.in \in Workspace
        /\ old.op \in Administers => old.who \in Account /\ old.role \in Role
    BY <1>1, OpFacts DEF CallRecord, SignUpOK, RouteOK, JoinOK, AdminOK, DropOK, EraseOK, Administers
  <2>5. /\ LocksAgree' /\ \A d \in Caller : d # c => LocksOf(d)' = LocksOf(d)
        /\ locks' \subseteq [by : Caller, on : Key \cup {RoleLock}, how : Some]
        /\ LocksOf(c)' = LocksOf(c) \cup {[by |-> c, on |-> old.in, how |-> how]}
    <3>1. how \in Some /\ old.in \in Key \cup {RoleLock}  BY <2>4 DEF Some, Key
    <3> HIDE DEF how
    <3> QED  BY <1>1, <2>1, <2>2, <3>1, TakenAt
  <2>6. old.op # "drop" => Holds(LocksOf(c)', old.in, {"update"})  BY ZenonT(60), <2>5, MoreIsHeld
  <2>7. old \in CallRecord /\ AdminOK(table, old, LocksOf(c))  BY <1>1, OpFacts
  <2>8. ASSUME NEW call \in CallRecord, calls' = [calls EXCEPT ![c] = call],
               call.pc \in Early, call.does = "hold", call.old = old.old,
               call.op \in Administers \cup {"drop"},
               \A m \in Membership : m \in call.todo => table[m] # NoRow,
               AdminOK(table, call, LocksOf(c)'), DropOK(table, draft[c], call, LocksOf(c)')
        PROVE  IInv'
    <3>1. SignUpOK(table, draft[c], call) /\ RouteOK(table, draft[c], call) /\ JoinOK(draft[c], call)
          /\ EraseOK(table, draft[c], call, LocksOf(c)')
      BY <2>8 DEF SignUpOK, RouteOK, JoinOK, EraseOK, Administers
    <3>2. call.op # "signUp"  BY <2>8 DEF Administers
    <3> QED  BY <1>1, <2>1, <2>3, <2>5, <2>8, <3>1, <3>2, EarlyKeeps
  <2>9. CASE old.op = "drop"
    <3> DEFINE call == [old EXCEPT !.pc = "delete"]
    <3>1. /\ call \in CallRecord /\ call.op = "drop" /\ call.pc = "delete" /\ call.in = old.in
          /\ call.old = old.old /\ call.does = old.does /\ call.todo = {}
      BY <1>1, <2>7, <2>9 DEF CallRecord
    <3>2. calls' = [calls EXCEPT ![c] = call]  BY <1>3, <2>9 DEF HoldWorkspace
    <3>3. old.does = "hold"  BY <1>1, <2>3, CallFacts DEF CallOK, Idle
    <3> HIDE DEF call
    <3>4. AdminOK(table, call, LocksOf(c)') /\ DropOK(table, draft[c], call, LocksOf(c)')
      BY <3>1, <2>4 DEF AdminOK, DropOK, Administers
    <3>5. call.pc \in Early  BY <3>1 DEF Early
    <3> QED  BY <2>8, <3>1, <3>2, <3>3, <3>4, <3>5
  <2>10. CASE old.op = "dropAsAdmin"
    <3> DEFINE call == HoldingMembers([old EXCEPT !.op = "drop"])
    <3>1. /\ call \in CallRecord /\ call.op = "drop" /\ call.pc = "workspace" /\ call.in = old.in
          /\ call.old = old.old /\ call.does = "hold" /\ call.todo = MembersOf(old.in, table)
      BY ZenonT(60), <2>7 DEF CallRecord, HoldingMembers, Running, MembersOf
    <3>2. calls' = [calls EXCEPT ![c] = call]  BY <1>3, <2>10 DEF HoldWorkspace
    <3> HIDE DEF call
    <3>3. AdminOK(table, call, LocksOf(c)') /\ DropOK(table, draft[c], call, LocksOf(c)')
      BY <3>1, <2>4 DEF AdminOK, DropOK, Administers
    <3>4. call.pc \in Early /\ \A m \in Membership : m \in call.todo => table[m] # NoRow
      BY <3>1 DEF Early, MembersOf
    <3> QED  BY <2>8, <3>1, <3>2, <3>3, <3>4
  <2>11. CASE old.op = "add"
    <3> DEFINE call == [old EXCEPT !.pc = "add"]
    <3>1. /\ call \in CallRecord /\ call.op = "add" /\ call.pc = "add" /\ call.in = old.in
          /\ call.who = old.who /\ call.role = old.role
          /\ call.old = old.old /\ call.does = old.does /\ call.todo = {}
      BY <1>1, <2>7, <2>11 DEF CallRecord
    <3>2. calls' = [calls EXCEPT ![c] = call]  BY <1>3, <2>11 DEF HoldWorkspace
    <3>3. old.does = "hold"  BY <1>1, <2>3, CallFacts DEF CallOK, Idle
    <3> HIDE DEF call
    <3>4. AdminOK(table, call, LocksOf(c)') /\ DropOK(table, draft[c], call, LocksOf(c)')
      BY <3>1, <2>1, <2>4, <2>6, <2>11 DEF AdminOK, DropOK, Administers
    <3>5. call.pc \in Early /\ call.op \in Administers  BY <3>1 DEF Early, Administers
    <3> QED  BY <2>8, <3>1, <3>2, <3>3, <3>4, <3>5
  <2>12. CASE old.op = "setRole"
    <3> DEFINE call == Running(old, "hold", RowsOf(old, {old.who}), "change")
    <3>1. /\ call \in CallRecord /\ call.op = "setRole" /\ call.pc = "change" /\ call.in = old.in
          /\ call.who = old.who /\ call.role = old.role
          /\ call.old = old.old /\ call.does = "hold" /\ call.todo = RowsOf(old, {old.who})
      BY ZenonT(60), <2>7, <2>12 DEF CallRecord, Running, RowsOf, MembersOf
    <3>2. calls' = [calls EXCEPT ![c] = call]  BY <1>3, <2>12 DEF HoldWorkspace
    <3> HIDE DEF call
    <3>3. \A m \in Membership : m \in call.todo <=>
                table[m] # NoRow /\ table[m].of = call.in /\ table[m].who = call.who
      BY <3>1 DEF RowsOf, MembersOf
    <3>4. AdminOK(table, call, LocksOf(c)') /\ DropOK(table, draft[c], call, LocksOf(c)')
      BY <3>1, <3>3, <2>1, <2>4, <2>6, <2>12 DEF AdminOK, DropOK, Administers
    <3>5. call.pc \in Early /\ call.op \in Administers  BY <3>1 DEF Early, Administers
    <3> QED  BY <2>8, <3>1, <3>2, <3>3, <3>4, <3>5
  <2>13. CASE old.op = "setOwner"
    <3> DEFINE call == Running(old, "hold", OwnersOf(old.in, table), "others")
    <3>1. /\ call \in CallRecord /\ call.op = "setOwner" /\ call.pc = "others" /\ call.in = old.in
          /\ call.who = old.who /\ call.role = old.role
          /\ call.old = old.old /\ call.does = "hold" /\ call.todo = OwnersOf(old.in, table)
      BY ZenonT(60), <2>7, <2>13 DEF CallRecord, Running, OwnersOf, MembersOf
    <3>2. calls' = [calls EXCEPT ![c] = call]  BY <1>3, <2>13 DEF HoldWorkspace
    <3> HIDE DEF call
    <3>3. \A m \in Membership : m \in call.todo => table[m] # NoRow
      BY <3>1 DEF OwnersOf, MembersOf
    <3>4. old.role = "owner"  BY <2>7, <2>13 DEF AdminOK, Administers
    <3>5. AdminOK(table, call, LocksOf(c)') /\ DropOK(table, draft[c], call, LocksOf(c)')
      BY <3>1, <3>4, <2>1, <2>4, <2>6, <2>13 DEF AdminOK, DropOK, Administers
    <3>6. call.pc \in Early /\ call.op \in Administers  BY <3>1 DEF Early, Administers
    <3> QED  BY <2>8, <3>1, <3>2, <3>3, <3>5, <3>6
  <2> QED  BY <2>4, <2>9, <2>10, <2>11, <2>12, <2>13 DEF Administers
<1> QED  BY <1>2, <1>3

\* The owners that a call holds, and the one it gives the workspace to.
LEMMA FormerOwners ==
    ASSUME IInv, NEW c \in Caller
    PROVE  OthersHeld(c) \cup {calls[c].who} = Former(table, calls[c], LocksOf(c))
<1> DEFINE old == calls[c]
           my == LocksOf(c)
<1>1. \A m \in Membership : m \in OwnersHeld(c) <=> IsOwner(table[m], old.in) /\ Holds(my, m, {"update"})
  <2> SUFFICES ASSUME NEW m \in Membership
               PROVE  [by |-> c, on |-> m, how |-> "update"] \in locks <=> Holds(my, m, {"update"})
    BY DEF OwnersHeld, OwnersOf, MembersOf, IsOwner
  <2>1. ASSUME Holds(my, m, {"update"}) PROVE [by |-> c, on |-> m, how |-> "update"] \in locks
    <3>1. PICK l \in locks : l.by = c /\ l.on = m /\ l.how = "update"  BY <2>1 DEF Holds, LocksOf
    <3>2. l \in [by : Caller, on : Key \cup {RoleLock}, how : Some]  BY DEF IInv, Types
    <3>3. l = [by |-> c, on |-> m, how |-> "update"]  BY <3>1, <3>2
    <3> QED  BY <3>3
  <2>2. ASSUME [by |-> c, on |-> m, how |-> "update"] \in locks PROVE Holds(my, m, {"update"})
    BY <2>2 DEF Holds, LocksOf
  <2> QED  BY <2>1, <2>2
<1>2. OwnersHeld(c) \subseteq Membership  BY DEF OwnersHeld, OwnersOf, MembersOf
<1> QED  BY <1>1, <1>2 DEF OthersHeld, Former

LEMMA HoldGivenKeeps ==
    ASSUME IInv, NEW c \in Caller, HoldGiven(c)
    PROVE  IInv'
<1> DEFINE old == calls[c]
           my == LocksOf(c)
           rows == RowsOf(old, OthersHeld(c) \cup {old.who})
           call == Running(old, "hold", rows, "give")
<1>1. old # Nothing /\ old.pc = "others" /\ old.todo = {}
  BY DEF HoldGiven, At
<1>2. CASE Rollback(c)  BY <1>2, RollbackKeeps
<1>3. CASE ~Rollback(c)
  <2>1. calls' = [calls EXCEPT ![c] = call] /\ UNCHANGED <<table, draft, locks>>
    BY <1>3 DEF HoldGiven, Run
  <2>2. old.pc \in Early  BY <1>1 DEF Early
  <2>3. /\ old.op = "setOwner" /\ old \in CallRecord /\ AdminOK(table, old, my)
    BY <1>1, OpFacts DEF CallRecord, SignUpOK, RouteOK, JoinOK, AdminOK, DropOK, EraseOK, Administers
  <2>4. /\ old.in \in Workspace /\ old.who \in Account /\ old.role \in Role /\ old.role = "owner"
        /\ Holds(my, old.in, {"update"}) /\ table[old.in] # NoRow
    BY <1>1, <2>3 DEF AdminOK, Administers
  <2>5. LocksAgree' /\ \A d \in Caller : LocksOf(d)' = LocksOf(d)
    BY <2>1, LocksKept DEF IInv
  <2>6. OthersHeld(c) \cup {old.who} = Former(table, old, my)  BY FormerOwners
  <2>7. /\ call \in CallRecord /\ call.op = "setOwner" /\ call.pc = "give" /\ call.in = old.in
        /\ call.who = old.who /\ call.role = old.role /\ call.old = old.old /\ call.does = "hold"
        /\ call.todo = rows
    BY ZenonT(60), <2>3 DEF CallRecord, Running, RowsOf, MembersOf
  <2>8. \A m \in Membership : m \in rows <=>
            table[m] # NoRow /\ table[m].of = old.in /\ table[m].who \in Former(table, old, my)
    BY <2>6 DEF RowsOf, MembersOf
  <2> HIDE DEF call, rows
  <2>9. Former(table, call, my) = Former(table, old, my)  BY <2>7 DEF Former
  <2>10. AdminOK(table, call, LocksOf(c)')
    BY <2>4, <2>5, <2>7, <2>8, <2>9 DEF AdminOK, Administers
  <2>11. /\ SignUpOK(table, draft[c], call) /\ RouteOK(table, draft[c], call) /\ JoinOK(draft[c], call)
         /\ DropOK(table, draft[c], call, LocksOf(c)') /\ EraseOK(table, draft[c], call, LocksOf(c)')
    BY <2>7 DEF SignUpOK, RouteOK, JoinOK, DropOK, EraseOK
  <2>12. /\ call.pc \in Early /\ call.op # "signUp"
         /\ \A m \in Membership : m \in call.todo => table[m] # NoRow
         /\ locks' \subseteq [by : Caller, on : Key \cup {RoleLock}, how : Some]
    BY <2>1, <2>7, <2>8 DEF Early, IInv, Types
  <2> QED  BY <1>1, <2>1, <2>2, <2>5, <2>7, <2>10, <2>11, <2>12, EarlyKeeps
<1> QED  BY <1>2, <1>3

LEMMA HoldAccountKeeps ==
    ASSUME IInv, NEW c \in Caller, HoldAccount(c)
    PROVE  IInv'
<1> DEFINE old == calls[c]
           rows == MembershipsOf(old.who, table)
           call == Running(old, "hold", rows, "workspaces")
<1>1. old # Nothing /\ old.pc = "user" /\ old.todo = {} /\ At(c, "user")
  BY DEF HoldAccount, At
<1>2. CASE Rollback(c)  BY <1>2, RollbackKeeps
<1>3. CASE ~Rollback(c)
  <2>1. /\ calls' = [calls EXCEPT ![c] = call] /\ UNCHANGED <<table, draft>> /\ locks' = Taken(c)
        /\ old.who \in Accounts(table) /\ old.who # old.by /\ old.by \in Admins(table)
    BY <1>3 DEF HoldAccount, Run
  <2>2. old.pc \in Early  BY <1>1 DEF Early
  <2>3. /\ old.op = "erase" /\ old \in CallRecord /\ EraseOK(table, draft[c], old, LocksOf(c))
    BY <1>1, OpFacts DEF CallRecord, SignUpOK, RouteOK, JoinOK, AdminOK, DropOK, EraseOK, Administers
  <2>4. /\ old.who \in Account /\ table[old.who] # NoRow
        /\ old.by \in Account /\ table[old.by] # NoRow /\ table[old.by].admin /\ ~table[old.by].banned
        /\ Holds(LocksOf(c), RoleLock, {"update"})
        /\ \A m \in Membership : draft[c][m] \in {Untouched, NoRow}
    BY <1>1, <2>1, <2>3 DEF EraseOK, Accounts, Admins
  <2>5. /\ LocksAgree' /\ \A d \in Caller : d # c => LocksOf(d)' = LocksOf(d)
        /\ locks' \subseteq [by : Caller, on : Key \cup {RoleLock}, how : Some]
        /\ LocksOf(c)' = LocksOf(c) \cup {[by |-> c, on |-> old.who, how |-> "update"]}
    <3>1. "update" \in Some /\ old.who \in Key \cup {RoleLock}  BY <2>4 DEF Some, Key
    <3>2. Wanted(old) = {[on |-> old.who, how |-> "update"]}  BY <1>1 DEF Wanted
    <3> QED  BY <1>1, <2>1, <3>1, <3>2, TakenAt
  <2>6. Holds(LocksOf(c)', old.who, {"update"}) /\ Holds(LocksOf(c)', RoleLock, {"update"})
    <3>1. Holds(LocksOf(c)', old.who, {"update"})  BY <2>5, MoreIsHeld
    <3>2. Holds(LocksOf(c)', RoleLock, {"update"})  BY <2>4, <2>5 DEF Holds
    <3> QED  BY <3>1, <3>2
  <2>7. /\ call \in CallRecord /\ call.op = "erase" /\ call.pc = "workspaces" /\ call.by = old.by
        /\ call.who = old.who /\ call.old = old.old /\ call.does = "hold" /\ call.todo = rows
    BY <2>3 DEF CallRecord, Running, MembershipsOf
  <2>8. \A m \in Membership : m \in rows <=> table[m] # NoRow /\ table[m].who = old.who
    BY DEF MembershipsOf
  <2> HIDE DEF call, rows
  <2>9. EraseOK(table, draft[c], call, LocksOf(c)')  BY <2>1, <2>4, <2>6, <2>7, <2>8 DEF EraseOK
  <2>10. /\ SignUpOK(table, draft[c], call) /\ RouteOK(table, draft[c], call) /\ JoinOK(draft[c], call)
         /\ DropOK(table, draft[c], call, LocksOf(c)') /\ AdminOK(table, call, LocksOf(c)')
    BY <2>7 DEF SignUpOK, RouteOK, JoinOK, DropOK, AdminOK, Administers
  <2>11. /\ call.pc \in Early /\ call.op # "signUp"
         /\ \A m \in Membership : m \in call.todo => table[m] # NoRow
    BY <2>7, <2>8 DEF Early
  <2> QED  BY <1>1, <2>1, <2>2, <2>5, <2>7, <2>9, <2>10, <2>11, EarlyKeeps
<1> QED  BY <1>2, <1>3

LEMMA HoldWorkspacesKeeps ==
    ASSUME IInv, NEW c \in Caller, HoldWorkspaces(c)
    PROVE  IInv'
<1> DEFINE old == calls[c]
           rows == {table[m].of : m \in MembershipsOf(old.who, table)}
           call == Running(old, "hold", rows, "sole")
<1>1. /\ old # Nothing /\ old.pc = "workspaces" /\ old.todo = {}
      /\ calls' = [calls EXCEPT ![c] = call] /\ UNCHANGED <<table, draft, locks>>
  BY DEF HoldWorkspaces, At, Run
<1>2. old.pc \in Early  BY <1>1 DEF Early
<1>3. /\ old.op = "erase" /\ old \in CallRecord /\ EraseOK(table, draft[c], old, LocksOf(c))
  BY <1>1, OpFacts DEF CallRecord, SignUpOK, RouteOK, JoinOK, AdminOK, DropOK, EraseOK, Administers
<1>4. LocksAgree' /\ \A d \in Caller : LocksOf(d)' = LocksOf(d)
  BY <1>1, LocksKept DEF IInv
<1>5. rows \subseteq Workspace
  BY DEF MembershipsOf, IInv, Types, TabOK, RowsAt, MemberRow, Key
<1>6. /\ call \in CallRecord /\ call.op = "erase" /\ call.pc = "sole" /\ call.by = old.by
      /\ call.who = old.who /\ call.old = old.old /\ call.does = "hold" /\ call.todo = rows
  BY <1>3, <1>5 DEF CallRecord, Running
<1>7. \A m \in Membership : table[m] # NoRow /\ table[m].who = old.who => table[m].of \in rows
  BY DEF MembershipsOf
<1> HIDE DEF call, rows
<1>8. EraseOK(table, draft[c], call, LocksOf(c)')  BY <1>1, <1>3, <1>4, <1>6, <1>7 DEF EraseOK
<1>9. /\ SignUpOK(table, draft[c], call) /\ RouteOK(table, draft[c], call) /\ JoinOK(draft[c], call)
      /\ DropOK(table, draft[c], call, LocksOf(c)') /\ AdminOK(table, call, LocksOf(c)')
  BY <1>6 DEF SignUpOK, RouteOK, JoinOK, DropOK, AdminOK, Administers
<1>10. /\ call.pc \in Early /\ call.op # "signUp"
       /\ \A m \in Membership : m \in call.todo => table[m] # NoRow
       /\ locks' \subseteq [by : Caller, on : Key \cup {RoleLock}, how : Some]
  BY <1>1, <1>5, <1>6, KeyAssumption DEF Early, IInv, Types
<1> QED  BY <1>1, <1>2, <1>4, <1>6, <1>8, <1>9, <1>10, EarlyKeeps

\* Of two sets of locks, what differs is about k.
OneMore(my, mine, k) ==
    /\ \A i, hows : Holds(my, i, hows) => Holds(mine, i, hows)
    /\ \A i, hows : i # k /\ Holds(mine, i, hows) => Holds(my, i, hows)

\* A row that a statement comes to is gone, or it is held from now on.
LEMMA VisitFacts ==
    ASSUME IInv, NEW c \in Caller, NEW k \in NextRows(calls[c]), calls[c] # Nothing, Free(c, k, "update"),
           calls' = [calls EXCEPT ![c].todo = @ \ {k}], UNCHANGED table,
           IF View(c)[k] = NoRow
           THEN UNCHANGED <<draft, locks>>
           ELSE /\ locks' = Held(c, k, "update")
                /\ draft' = IF calls[c].does = "erase" THEN [draft EXCEPT ![c][k] = NoRow] ELSE draft,
           NEW call, call = [calls[c] EXCEPT !.todo = @ \ {k}]
    PROVE  /\ calls' = [calls EXCEPT ![c] = call] /\ call \in CallRecord
           /\ k \in calls[c].todo /\ k \in Membership \cup Workspace
           /\ call.op = calls[c].op /\ call.pc = calls[c].pc /\ call.in = calls[c].in
           /\ call.who = calls[c].who /\ call.by = calls[c].by /\ call.role = calls[c].role
           /\ call.old = calls[c].old /\ call.does = calls[c].does /\ call.todo = calls[c].todo \ {k}
           /\ LocksAgree' /\ \A d \in Caller : d # c => LocksOf(d)' = LocksOf(d)
           /\ locks' \subseteq [by : Caller, on : Key \cup {RoleLock}, how : Some]
           /\ OneMore(LocksOf(c), LocksOf(c)', k)
           /\ View(c)[k] # NoRow => Holds(LocksOf(c)', k, {"update"})
<1>1. calls[c] \in CallRecord /\ k \in calls[c].todo /\ k \in Membership \cup Workspace
  BY NextIsInTodo, CallFacts
<1>2. /\ call \in CallRecord
      /\ call.op = calls[c].op /\ call.pc = calls[c].pc /\ call.in = calls[c].in
      /\ call.who = calls[c].who /\ call.by = calls[c].by /\ call.role = calls[c].role
      /\ call.old = calls[c].old /\ call.does = calls[c].does /\ call.todo = calls[c].todo \ {k}
  BY <1>1 DEF CallRecord
<1>3. calls' = [calls EXCEPT ![c] = call]  OBVIOUS
<1>4. CASE View(c)[k] = NoRow
  <2>1. LocksAgree' /\ \A d \in Caller : LocksOf(d)' = LocksOf(d)  BY <1>4, LocksKept DEF IInv
  <2>2. locks' \subseteq [by : Caller, on : Key \cup {RoleLock}, how : Some]
    BY <1>4 DEF IInv, Types
  <2>3. OneMore(LocksOf(c), LocksOf(c)', k)  BY <2>1 DEF OneMore
  <2> QED  BY <1>1, <1>2, <1>3, <1>4, <2>1, <2>2, <2>3
<1>5. CASE View(c)[k] # NoRow
  <2>1. locks' = Held(c, k, "update") /\ "update" \in Some /\ k \in Key \cup {RoleLock}
    BY <1>1, <1>5 DEF Some, Key
  <2>2. /\ LocksAgree' /\ \A d \in Caller : d # c => LocksOf(d)' = LocksOf(d)
        /\ locks' \subseteq [by : Caller, on : Key \cup {RoleLock}, how : Some]
        /\ LocksOf(c)' = LocksOf(c) \cup {[by |-> c, on |-> k, how |-> "update"]}
    BY <2>1, LockTaken DEF IInv, Types
  <2>3. /\ OneMore(LocksOf(c), LocksOf(c)', k)
        /\ Holds(LocksOf(c)', k, {"update"})
    <3> DEFINE lock == [by |-> c, on |-> k, how |-> "update"]
    <3>1. lock.on = k /\ lock.how = "update" /\ LocksOf(c)' = LocksOf(c) \cup {lock}  BY <2>2
    <3> HIDE DEF lock
    <3>2. ASSUME NEW i, NEW hows, Holds(LocksOf(c), i, hows) PROVE Holds(LocksOf(c)', i, hows)
      BY <3>1, <3>2 DEF Holds
    <3>3. ASSUME NEW i, NEW hows, i # k, Holds(LocksOf(c)', i, hows) PROVE Holds(LocksOf(c), i, hows)
      BY <3>1, <3>3 DEF Holds
    <3>4. Holds(LocksOf(c)', k, {"update"})  BY <3>1 DEF Holds
    <3> QED  BY <3>2, <3>3, <3>4 DEF OneMore
  <2> QED  BY <1>1, <1>2, <1>3, <2>2, <2>3
<1> QED  BY <1>4, <1>5

LEMMA VisitKeeps ==
    ASSUME IInv, NEW c \in Caller, Visit(c)
    PROVE  IInv'
<1> DEFINE old == calls[c]
           my == LocksOf(c)
           dr == draft[c]
<1>k. Key = Membership \cup Workspace \cup Account  BY DEF Key
<1>1. PICK k \in NextRows(old) :
        /\ Free(c, k, "update") /\ calls' = [calls EXCEPT ![c].todo = @ \ {k}]
        /\ IF View(c)[k] = NoRow
           THEN UNCHANGED <<draft, locks>>
           ELSE /\ locks' = Held(c, k, "update")
                /\ draft' = IF old.does = "erase" THEN [draft EXCEPT ![c][k] = NoRow] ELSE draft
  BY DEF Visit
<1>2. old # Nothing /\ UNCHANGED table  BY DEF Visit
<1>3. PICK call : call = [old EXCEPT !.todo = @ \ {k}]  OBVIOUS
<1>4. /\ calls' = [calls EXCEPT ![c] = call] /\ call \in CallRecord
      /\ k \in old.todo /\ k \in Membership \cup Workspace
      /\ call.op = old.op /\ call.pc = old.pc /\ call.in = old.in
      /\ call.who = old.who /\ call.by = old.by /\ call.role = old.role
      /\ call.old = old.old /\ call.does = old.does /\ call.todo = old.todo \ {k}
  <2>1. old \in CallRecord /\ k \in old.todo /\ k \in Membership \cup Workspace
    BY <1>1, <1>2, NextIsInTodo, CallFacts
  <2>2. calls' = [calls EXCEPT ![c] = call]  BY <1>1, <1>3
  <2> QED  BY <1>3, <2>1, <2>2 DEF CallRecord
<1>5. /\ LocksAgree' /\ \A d \in Caller : d # c => LocksOf(d)' = LocksOf(d)
      /\ locks' \subseteq [by : Caller, on : Key \cup {RoleLock}, how : Some]
  BY <1>1, <1>2, <1>3, VisitFacts
<1>o. OneMore(my, LocksOf(c)', k)
  BY <1>1, <1>2, <1>3, VisitFacts
<1>6. \A i, hows : Holds(my, i, hows) => Holds(LocksOf(c)', i, hows)  BY <1>o DEF OneMore
<1>7. \A i, hows : i # k /\ Holds(LocksOf(c)', i, hows) => Holds(my, i, hows)  BY <1>o DEF OneMore
<1>8. View(c)[k] # NoRow => Holds(LocksOf(c)', k, {"update"})
  BY <1>1, <1>2, <1>3, VisitFacts
<1>9. View(c)[k] = IF dr[k] = Untouched THEN table[k] ELSE dr[k]  BY <1>4, <1>k DEF View
<1>10. /\ old \in CallRecord /\ SignUpOK(table, dr, old) /\ RouteOK(table, dr, old)
       /\ JoinOK(dr, old) /\ AdminOK(table, old, my) /\ DropOK(table, dr, old, my)
       /\ EraseOK(table, dr, old, my)
  BY <1>2, OpFacts
<1>11. old.op \in Administers \cup {"drop", "dropAsAdmin", "erase"}
  BY <1>4, <1>10 DEF CallRecord, SignUpOK, RouteOK, JoinOK, Administers
<1>12. /\ SignUpOK(table, dr, call) /\ RouteOK(table, dr, call) /\ JoinOK(dr, call)
  BY <1>4, <1>11 DEF SignUpOK, RouteOK, JoinOK, Administers
<1>13. CASE old.pc \in Early
  <2>1. old.does = "hold" /\ \A i \in Key : dr[i] = Untouched
    BY <1>2, <1>13, CallFacts DEF CallOK, Idle
  <2>2. UNCHANGED draft  BY <1>1, <2>1
  <2>3. table[k] # NoRow => Holds(LocksOf(c)', k, {"update"})
    BY <1>4, <1>8, <1>9, <1>k, <2>1
  <2>4. AdminOK(table, call, LocksOf(c)')
    <3> SUFFICES ASSUME old.op \in Administers PROVE AdminOK(table, call, LocksOf(c)')
      BY <1>4 DEF AdminOK
    <3>1. ASSUME old.pc = "give" PROVE Former(table, call, LocksOf(c)') = Former(table, old, my)
      <4>1. ASSUME NEW m \in Membership, IsOwner(table[m], old.in), Holds(my, m, {"update"})
            PROVE  Holds(LocksOf(c)', m, {"update"})
        BY <1>6, <4>1
      <4>2. ASSUME NEW m \in Membership, IsOwner(table[m], old.in), Holds(LocksOf(c)', m, {"update"})
            PROVE  table[m].who \in Former(table, old, my)
        <5>1. CASE m # k
          <6>1. Holds(my, m, {"update"})  BY <1>7, <4>2, <5>1
          <6> QED  BY <6>1, <4>2 DEF Former
        <5>2. CASE m = k  BY <5>2, <4>2, <3>1, <1>4, <1>10 DEF AdminOK, IsOwner
        <5> QED  BY <5>1, <5>2
      <4> QED  BY <1>4, <4>1, <4>2 DEF Former
    <3>2. ASSUME old.pc = "change",
                 NEW m \in Membership, table[m] # NoRow, table[m].of = old.in, table[m].who = old.who
          PROVE  m \in call.todo \/ Holds(LocksOf(c)', m, {"update"})
      <4>1. m \in old.todo \/ Holds(my, m, {"update"})  BY <3>2, <1>10 DEF AdminOK
      <4> QED  BY <4>1, <3>2, <1>4, <1>6, <2>3
    <3>3. ASSUME old.pc = "give", NEW m \in Membership, table[m] # NoRow, table[m].of = old.in
          PROVE  /\ table[m].who \in Former(table, old, my) =>
                        m \in call.todo \/ Holds(LocksOf(c)', m, {"update"})
                 /\ m \in call.todo => table[m].who \in Former(table, old, my)
      <4>1. /\ table[m].who \in Former(table, old, my) => m \in old.todo \/ Holds(my, m, {"update"})
            /\ m \in old.todo => table[m].who \in Former(table, old, my)
        BY <3>3, <1>10 DEF AdminOK
      <4> QED  BY <4>1, <3>3, <1>4, <1>6, <2>3
    <3>4. Holds(my, old.in, {"update"}) => Holds(LocksOf(c)', old.in, {"update"})  BY <1>6
    <3> QED  BY <1>4, <1>10, <3>1, <3>2, <3>3, <3>4 DEF AdminOK
  <2>5. DropOK(table, dr, call, LocksOf(c)')
    BY <1>4, <1>10, <1>13 DEF DropOK, Early
  <2>6. EraseOK(table, dr, call, LocksOf(c)')
    <3> SUFFICES ASSUME old.op = "erase" PROVE EraseOK(table, dr, call, LocksOf(c)')
      BY <1>4 DEF EraseOK
    <3>1. /\ Holds(my, RoleLock, {"update"}) => Holds(LocksOf(c)', RoleLock, {"update"})
          /\ Holds(my, old.who, {"update"}) => Holds(LocksOf(c)', old.who, {"update"})
      BY <1>6
    <3>2. ASSUME old.pc = "workspaces", NEW m \in Membership, table[m] # NoRow, table[m].who = old.who
          PROVE  m \in call.todo \/ Holds(LocksOf(c)', m, {"update"})
      <4>1. m \in old.todo \/ Holds(my, m, {"update"})  BY <3>2, <1>10 DEF EraseOK
      <4> QED  BY <4>1, <3>2, <1>4, <1>6, <2>3
    <3>3. ASSUME old.pc = "sole", NEW m \in Membership, table[m] # NoRow, table[m].who = old.who
          PROVE  /\ Holds(LocksOf(c)', m, {"update"})
                 /\ table[m].of \in call.todo \/ Holds(LocksOf(c)', table[m].of, {"update"})
      <4>1. /\ Holds(my, m, {"update"})
            /\ table[m].of \in old.todo \/ Holds(my, table[m].of, {"update"})
        BY <3>3, <1>10 DEF EraseOK
      <4>2. table[table[m].of] # NoRow  BY <3>3 DEF IInv, ForeignKeys
      <4> QED  BY <4>1, <4>2, <1>4, <1>6, <2>3
    <3>4. old.pc \notin {"erased", "commit"}  BY <1>13 DEF Early
    <3> QED  BY <1>4, <1>10, <3>1, <3>2, <3>3, <3>4 DEF EraseOK
  <2>7. /\ call.pc \in Early /\ call.does = "hold" /\ call.op # "signUp"
        /\ \A m \in Membership : m \in call.todo => m \in old.todo
    BY <1>4, <1>11, <1>13, <2>1 DEF Administers
  <2> QED  BY <1>2, <1>4, <1>5, <1>12, <1>13, <2>2, <2>4, <2>5, <2>6, <2>7, EarlyKeeps
<1>14. CASE old.pc \notin Early
  <2>1. /\ (old.op = "drop" /\ old.pc = "commit") \/ (old.op = "erase" /\ old.pc = "erased")
        /\ old.does = "erase" /\ k \in Membership
        /\ \A m \in Membership : dr[m] \in {Untouched, NoRow}
        /\ table[k] # NoRow => IF old.op = "drop" THEN table[k].of = old.in
                                                  ELSE table[k].who = old.who
    BY <1>4, <1>10, <1>11, <1>14 DEF AdminOK, DropOK, EraseOK, Administers, Early
  <2>2. PICK new : new = IF View(c)[k] = NoRow THEN dr ELSE [dr EXCEPT ![k] = NoRow]  OBVIOUS
  <2>d. DrOK(dr) /\ DOMAIN draft = Caller /\ calls \in [Caller -> {Nothing} \cup CallRecord]
    BY DEF IInv, Types
  <2>3. /\ new[k] = IF View(c)[k] = NoRow THEN dr[k] ELSE NoRow
        /\ \A i \in Key : i # k => new[i] = dr[i]
        /\ DOMAIN new = Key
    BY <1>4, <1>k, <2>2, <2>d DEF DrOK
  <2>4. /\ draft'[c] = new /\ DOMAIN draft' = Caller /\ \A d \in Caller : d # c => draft'[d] = draft[d]
    BY <1>1, <2>1, <2>2, <2>d
  <2>5. DrOK(new)
    <3>1. k \in Key /\ NoRow \in RowsAt(k)  BY <1>4, <1>k DEF RowsAt
    <3> QED  BY <2>d, <2>3, <3>1 DEF DrOK
  <2>6. new[k] # Untouched /\ table[k] # NoRow => Holds(LocksOf(c)', k, {"update"}) \/ dr[k] # Untouched
    BY <1>8, <1>9, <2>3
  <2>7. \A m \in Membership : /\ new[m] \in {Untouched, NoRow}
                              /\ dr[m] = NoRow => new[m] = NoRow
                              /\ table[m] # NoRow /\ m \in old.todo => m \in call.todo \/ new[m] = NoRow
                              /\ new[m] # Untouched => dr[m] # Untouched \/ m = k
                              /\ new[m] # dr[m] => m = k /\ table[m] # NoRow
    BY <1>4, <1>9, <1>k, <2>1, <2>3
  <2>8. /\ RowsHeld(table, dr, old, my) /\ OthersHeldBy(dr, old) /\ Sure(table, dr, old, my)
    BY <1>2, CallFacts DEF CallOK
  <2>9. RowsHeld(table, new, call, LocksOf(c)')
    <3> SUFFICES ASSUME NEW m \in Membership, new[m] # Untouched
                 PROVE  table[m] # NoRow /\ Holds(LocksOf(c)', m, {"update"})
      BY <2>7 DEF RowsHeld
    <3>1. CASE dr[m] # Untouched
      <4>1. table[m] # NoRow /\ Holds(my, m, {"update"})  BY <2>1, <2>8, <3>1 DEF RowsHeld
      <4> QED  BY <4>1, <1>6
    <3>2. CASE dr[m] = Untouched
      <4>1. m = k /\ table[m] # NoRow  BY <2>7, <3>2
      <4> QED  BY <4>1, <2>6, <3>2
    <3> QED  BY <3>1, <3>2
  <2>10. \A a \in Account : new[a] = dr[a]
    BY <1>k, <2>1, <2>3, KeyAssumption
  <2>11. \A w \in Workspace : new[w] = dr[w]
    BY <1>k, <2>1, <2>3, KeyAssumption
  <2>12. OthersHeldBy(new, call)
    <3>1. call # Nothing  BY <1>4, Nulls
    <3> QED  BY <3>1, <1>4, <2>8, <2>10, <2>11 DEF OthersHeldBy
  <2>13. call # Nothing /\ Idle(new, call, LocksOf(c)')
    BY <1>4, <1>14, Nulls DEF Idle
  <2>14. AdminOK(table, call, LocksOf(c)') /\ SignUpOK(table, new, call) /\ RouteOK(table, new, call)
         /\ JoinOK(new, call)
    BY <1>4, <2>1 DEF AdminOK, SignUpOK, RouteOK, JoinOK, Administers
  <2>15. DropOK(table, new, call, LocksOf(c)')
    <3> SUFFICES ASSUME old.op = "drop" PROVE DropOK(table, new, call, LocksOf(c)')
      BY <1>4, <2>1 DEF DropOK
    <3>1. Holds(LocksOf(c)', old.in, {"update"}) /\ old.in \in Workspace /\ dr[old.in] = NoRow
      BY <1>6, <1>10, <2>1 DEF DropOK
    <3>2. \A m \in Membership :
            /\ table[m] # NoRow /\ table[m].of = old.in => m \in old.todo \/ dr[m] = NoRow
            /\ table[m] # NoRow /\ (m \in old.todo \/ dr[m] # Untouched) => table[m].of = old.in
      BY <1>10, <2>1 DEF DropOK
    <3>3. \A m \in Membership :
            /\ table[m] # NoRow /\ table[m].of = old.in => m \in call.todo \/ new[m] = NoRow
            /\ table[m] # NoRow /\ (m \in call.todo \/ new[m] # Untouched) => table[m].of = old.in
      BY <1>4, <2>1, <2>7, <3>2
    <3>4. \A i \in call.todo : i \in Membership  BY <1>4, <1>10, <2>1 DEF DropOK
    <3> QED  BY <1>4, <2>1, <2>7, <2>11, <3>1, <3>3, <3>4 DEF DropOK
  <2>16. EraseOK(table, new, call, LocksOf(c)')
    <3> SUFFICES ASSUME old.op = "erase" PROVE EraseOK(table, new, call, LocksOf(c)')
      BY <1>4, <2>1 DEF EraseOK
    <3>1. \A m \in Membership :
            /\ table[m] # NoRow /\ table[m].who = old.who =>
                    (m \in old.todo \/ dr[m] = NoRow) /\ Holds(my, table[m].of, {"update"})
            /\ table[m] # NoRow /\ (m \in old.todo \/ dr[m] # Untouched) => table[m].who = old.who
      BY <1>10, <2>1 DEF EraseOK
    <3>2. \A m \in Membership :
            /\ table[m] # NoRow /\ table[m].who = old.who =>
                    (m \in call.todo \/ new[m] = NoRow) /\ Holds(LocksOf(c)', table[m].of, {"update"})
            /\ table[m] # NoRow /\ (m \in call.todo \/ new[m] # Untouched) => table[m].who = old.who
      BY <1>4, <1>6, <2>1, <2>7, <3>1
    <3>3. /\ old.who \in Account /\ dr[old.who] = NoRow
          /\ Holds(my, RoleLock, {"update"}) /\ Holds(my, old.who, {"update"})
          /\ old.by \in Account /\ old.by # old.who /\ table[old.who] # NoRow
          /\ table[old.by] # NoRow /\ table[old.by].admin /\ ~table[old.by].banned
          /\ OwnedAloneIn(table, old.who) = {}
          /\ \A i \in old.todo : i \in Membership
      BY <1>10, <2>1 DEF EraseOK
    <3>4. Holds(LocksOf(c)', RoleLock, {"update"}) /\ Holds(LocksOf(c)', old.who, {"update"})
      BY <1>6, <3>3
    <3>5. call.pc = "erased" /\ call.does = "erase" /\ call.op = "erase" /\ new[old.who] = NoRow
          /\ \A i \in call.todo : i \in Membership
      BY <1>4, <2>1, <2>10, <3>3
    <3> QED  BY <1>4, <2>7, <3>2, <3>3, <3>4, <3>5 DEF EraseOK
  <2>17. Sure(table, new, call, LocksOf(c)')
    <3> SUFFICES ASSUME old.op = "drop", NEW w \in Losses(table, new)
                 PROVE  Holds(LocksOf(c)', w, {"write", "update"}) /\ new[w] = NoRow
      BY <1>4, <2>1 DEF Sure
    <3>1. PICK m \in Membership : IsOwner(table[m], w) /\ new[m] # Untouched  BY DEF Losses
    <3>2. w = old.in  BY <1>10, <2>1, <2>7, <3>1 DEF DropOK, IsOwner
    <3>3. Holds(my, w, {"update"}) /\ dr[w] = NoRow /\ w \in Workspace
      BY <1>10, <2>1, <3>2 DEF DropOK
    <3>4. Holds(LocksOf(c)', w, {"update"})  BY <1>6, <3>3
    <3> QED  BY <2>11, <3>3, <3>4 DEF Holds
  <2>18. CallOK(table, new, call, LocksOf(c)')
    BY <2>9, <2>12, <2>13, <2>14, <2>15, <2>16, <2>17 DEF CallOK
  <2>19. \A m \in Membership : /\ new[m] # Untouched => dr[m] # Untouched \/ table[m] # NoRow \/ New(m)
                               /\ m \in call.old \cup call.todo => m \in old.old \cup old.todo
    BY <1>4, <2>7
  <2>20. CallT(call) /\ call.op # "signUp"  BY <1>4, <2>1 DEF CallT
  <2> QED  BY <1>2, <1>4, <1>5, <2>4, <2>5, <2>18, <2>19, <2>20, Stepped
<1> QED  BY <1>13, <1>14

-----------------------------------------------------------------------------
(* Steps that write.                                                       *)

\* A step of c, when it takes no lock.
LEMMA SteppedUnlocked ==
    ASSUME IInv, NEW c \in Caller, UNCHANGED <<table, locks>>, calls[c] # Nothing,
           NEW call \in CallRecord, calls' = [calls EXCEPT ![c] = call],
           call.op = calls[c].op, call.who = calls[c].who, call.old = calls[c].old,
           \A m \in Membership : m \in call.todo => table[m] # NoRow \/ m \in calls[c].todo,
           NEW dr, DrOK(dr), draft'[c] = dr, DOMAIN draft' = Caller,
           \A d \in Caller : d # c => draft'[d] = draft[d],
           \A m \in Membership : dr[m] # Untouched =>
                draft[c][m] # Untouched \/ table[m] # NoRow \/ New(m),
           CallOK(table, dr, call, LocksOf(c))
    PROVE  IInv'
<1>1. LocksAgree' /\ \A d \in Caller : LocksOf(d)' = LocksOf(d)
  BY LocksKept DEF IInv
<1>2. locks' \subseteq [by : Caller, on : Key \cup {RoleLock}, how : Some]
  BY DEF IInv, Types
<1>3. CallOK(table, dr, call, LocksOf(c)')  BY <1>1
<1>4. CallT(call) /\ UNCHANGED table  BY DEF CallT
<1>5. \A m \in Membership : m \in call.old \cup call.todo =>
            table[m] # NoRow \/ (calls[c] # Nothing /\ m \in calls[c].old \cup calls[c].todo)
  OBVIOUS
<1> QED  BY ZenonT(60), <1>1, <1>2, <1>3, <1>4, <1>5, Stepped

LEMMA InsertAccountKeeps ==
    ASSUME IInv, NEW c \in Caller, InsertAccount(c)
    PROVE  IInv'
<1> DEFINE old == calls[c]
           dr == draft[c]
           row == [admin |-> Accounts(table) = {}, banned |-> FALSE]
           new == [dr EXCEPT ![old.who] = row]
           call == [old EXCEPT !.pc = "commit"]
<1>k. Key = Membership \cup Workspace \cup Account  BY DEF Key
<1>1. /\ old # Nothing /\ old.pc = "insert" /\ old.todo = {} /\ old.op = "signUp"
      /\ draft' = [draft EXCEPT ![c] = new] /\ calls' = [calls EXCEPT ![c] = call]
      /\ UNCHANGED <<table, locks>>
  BY DEF InsertAccount, At, Goes
<1>2. old \in CallRecord /\ SignUpOK(table, dr, old) /\ DrOK(dr) /\ \A k \in Key : dr[k] = Untouched
  BY <1>1, CallFacts, OpFacts DEF Early
<1>3. old.who \in Account /\ table[old.who] = NoRow  BY <1>1, <1>2 DEF SignUpOK
<1>4. /\ call \in CallRecord /\ call.op = "signUp" /\ call.who = old.who /\ call.old = old.old
      /\ call.pc = "commit" /\ call.todo = {}
  BY <1>1, <1>2 DEF CallRecord
<1>5. row \in AccountRow /\ row.banned = FALSE /\ (row.admin <=> Accounts(table) = {})
  <2>1. (Accounts(table) = {}) \in BOOLEAN  OBVIOUS
  <2> QED  BY <2>1 DEF AccountRow
<1>6. new[old.who] = row /\ DOMAIN new = Key /\ \A k \in Key : k # old.who => new[k] = Untouched
  BY <1>2, <1>3, <1>k DEF DrOK
<1>7. draft'[c] = new /\ DOMAIN draft' = Caller /\ \A d \in Caller : d # c => draft'[d] = draft[d]
  BY <1>1 DEF IInv, Types
<1> HIDE DEF call, new, row
<1>8. DrOK(new)
  <2>1. RowsAt(old.who) = {NoRow} \cup AccountRow  BY <1>3, KeyAssumption DEF RowsAt
  <2> QED  BY <1>5, <1>6, <2>1 DEF DrOK
<1>9. /\ \A m \in Membership : new[m] = Untouched
      /\ \A w \in Workspace : new[w] = Untouched
      /\ \A a \in Account : new[a] # Untouched => a = old.who
  BY <1>3, <1>6, <1>k, KeyAssumption
<1>10. call # Nothing  BY <1>4, Nulls
<1>11. Losses(table, new) = {}  BY <1>9 DEF Losses
<1>12. (\A a \in Account : table[a] = NoRow) => Accounts(table) = {}  BY DEF Accounts
<1>13. SignUpOK(table, new, call)  BY <1>3, <1>4, <1>5, <1>6, <1>9, <1>12 DEF SignUpOK
<1>14. /\ RouteOK(table, new, call) /\ JoinOK(new, call) /\ AdminOK(table, call, LocksOf(c))
       /\ DropOK(table, new, call, LocksOf(c)) /\ EraseOK(table, new, call, LocksOf(c))
  BY <1>4 DEF RouteOK, JoinOK, AdminOK, DropOK, EraseOK, Administers
<1>15. Idle(new, call, LocksOf(c))  BY <1>4, <1>10 DEF Idle, Early
<1>16. RowsHeld(table, new, call, LocksOf(c)) /\ OthersHeldBy(new, call)
  BY <1>4, <1>9, <1>10 DEF RowsHeld, OthersHeldBy
<1>17. CallOK(table, new, call, LocksOf(c))
  BY <1>11, <1>13, <1>14, <1>15, <1>16 DEF CallOK, Sure
<1>18. \A m \in Membership : m \in call.todo => table[m] # NoRow \/ m \in old.todo  BY <1>4
<1> QED  BY <1>1, <1>4, <1>7, <1>8, <1>9, <1>17, <1>18, SteppedUnlocked

LEMMA NameAccountKeeps ==
    ASSUME IInv, NEW c \in Caller, NameAccount(c)
    PROVE  IInv'
<1> DEFINE old == calls[c]
           my == LocksOf(c)
           dr == draft[c]
           call == [old EXCEPT !.pc = "commit"]
<1>k. Key = Membership \cup Workspace \cup Account  BY DEF Key
<1>1. old # Nothing /\ old.pc = "names" /\ old.todo = {} /\ At(c, "names")
  BY DEF NameAccount, At
<1>2. CASE Rollback(c)  BY <1>2, RollbackKeeps
<1>3. CASE ~Rollback(c)
  <2>1. /\ View(c)[old.who] # NoRow /\ locks' = Taken(c) /\ calls' = [calls EXCEPT ![c] = call]
        /\ UNCHANGED <<table, draft>>
    BY <1>3 DEF NameAccount, Goes
  <2>2. /\ old \in CallRecord /\ JoinOK(dr, old) /\ AdminOK(table, old, my)
        /\ old.op \in {"join", "create", "add", "setOwner"}
    BY <1>1, OpFacts DEF CallRecord, SignUpOK, RouteOK, AdminOK, DropOK, EraseOK, Administers
  <2>3. DrOK(dr) /\ RowsHeld(table, dr, old, my) /\ OthersHeldBy(dr, old) /\ Sure(table, dr, old, my)
    BY <1>1, CallFacts DEF CallOK
  <2>4. old.who \in Account  BY <2>2 DEF JoinOK, AdminOK, Administers
  <2>5. table[old.who] # NoRow
    BY <1>k, <2>1, <2>2, <2>3, <2>4 DEF View, OthersHeldBy
  <2>6. /\ LocksAgree' /\ \A d \in Caller : d # c => LocksOf(d)' = LocksOf(d)
        /\ locks' \subseteq [by : Caller, on : Key \cup {RoleLock}, how : Some]
        /\ LocksOf(c)' = my \cup {[by |-> c, on |-> old.who, how |-> "share"]}
    <3>1. "share" \in Some /\ old.who \in Key \cup {RoleLock}  BY <2>4, <1>k DEF Some
    <3>2. Wanted(old) = {[on |-> old.who, how |-> "share"]}  BY <1>1 DEF Wanted
    <3> QED  BY <1>1, <2>1, <3>1, <3>2, TakenAt
  <2>7. Holds(LocksOf(c)', old.who, Some)
    <3> DEFINE lock == [by |-> c, on |-> old.who, how |-> "share"]
    <3>1. lock \in LocksOf(c)' /\ lock.on = old.who /\ lock.how \in Some  BY <2>6 DEF Some
    <3> HIDE DEF lock
    <3> QED  BY <3>1 DEF Holds
  <2>8. \A k, hows : Holds(my, k, hows) => Holds(LocksOf(c)', k, hows)
    <3> SUFFICES ASSUME NEW k, NEW hows, Holds(my, k, hows) PROVE Holds(LocksOf(c)', k, hows)
      OBVIOUS
    <3> QED  BY <2>6 DEF Holds
  <2>9. /\ call \in CallRecord /\ call.op = old.op /\ call.pc = "commit" /\ call.in = old.in
        /\ call.who = old.who /\ call.role = old.role /\ call.old = old.old /\ call.todo = {}
    BY <1>1, <2>2 DEF CallRecord
  <2> HIDE DEF call
  <2>10. call # Nothing  BY <2>9, Nulls
  <2>11. RowsHeld(table, dr, call, LocksOf(c)')
    <3>1. ASSUME NEW m \in Membership, NewRow(table, dr, old, my, m)
          PROVE  NewRow(table, dr, call, LocksOf(c)', m)
      BY <2>5, <2>7, <2>8, <2>9, <2>10, <3>1 DEF NewRow
    <3>2. \A m \in Membership : Holds(my, m, {"update"}) => Holds(LocksOf(c)', m, {"update"})
      BY <2>8
    <3> QED  BY <2>3, <3>1, <3>2 DEF RowsHeld
  <2>12. OthersHeldBy(dr, call)  BY <2>3, <2>9, <2>10 DEF OthersHeldBy
  <2>13. Idle(dr, call, LocksOf(c)')  BY <2>9, <2>10 DEF Idle, Early
  <2>14. JoinOK(dr, call)  BY <1>1, <2>2, <2>9 DEF JoinOK
  <2>15. AdminOK(table, call, LocksOf(c)')
    <3>1. Holds(my, old.in, {"update"}) => Holds(LocksOf(c)', old.in, {"update"})  BY <2>8
    <3> QED  BY <1>1, <2>2, <2>9, <3>1 DEF AdminOK
  <2>16. /\ SignUpOK(table, dr, call) /\ RouteOK(table, dr, call)
         /\ DropOK(table, dr, call, LocksOf(c)') /\ EraseOK(table, dr, call, LocksOf(c)')
    BY <2>2, <2>9 DEF SignUpOK, RouteOK, DropOK, EraseOK
  <2>17. Sure(table, dr, call, LocksOf(c)')  BY <1>1, <2>2, <2>3, <2>8, <2>9 DEF Sure
  <2>18. CallOK(table, dr, call, LocksOf(c)')
    BY <2>11, <2>12, <2>13, <2>14, <2>15, <2>16, <2>17 DEF CallOK
  <2>19. /\ CallT(call) /\ draft'[c] = dr /\ DOMAIN draft' = Caller /\ UNCHANGED table
         /\ \A d \in Caller : draft'[d] = draft[d]
    BY <2>1, <2>9 DEF CallT, IInv, Types
  <2>20. call.op # "signUp" /\ \A m \in Membership : m \in call.old \cup call.todo => m \in old.old
    BY <2>2, <2>9
  <2> QED  BY <1>1, <2>1, <2>3, <2>6, <2>18, <2>19, <2>20, Stepped
<1> QED  BY <1>2, <1>3

LEMMA WriteKeeps ==
    ASSUME IInv, NEW c \in Caller, Write(c)
    PROVE  IInv'
<1> DEFINE old == calls[c]
           my == LocksOf(c)
           dr == draft[c]
           row == table[old.member]
           to == IF old.role = "gone" THEN NoRow ELSE [row EXCEPT !.role = old.role]
           next == IF row.role = "owner" /\ old.role # "owner" THEN "trigger" ELSE "commit"
           new == [dr EXCEPT ![old.member] = to]
           call == [old EXCEPT !.pc = next]
<1>k. Key = Membership \cup Workspace \cup Account  BY DEF Key
<1>1. old # Nothing /\ old.pc = "write" /\ old.todo = {} /\ At(c, "write")
  BY DEF Write, At
<1>2. CASE Rollback(c)  BY <1>2, RollbackKeeps
<1>3. CASE ~Rollback(c)
  <2>1. /\ row # NoRow /\ locks' = Taken(c) /\ draft' = [draft EXCEPT ![c] = new]
        /\ calls' = [calls EXCEPT ![c] = call] /\ UNCHANGED table
    BY <1>3 DEF Write, Goes
  <2>2. /\ old \in CallRecord /\ RouteOK(table, dr, old) /\ old.op = "route"
        /\ DrOK(dr) /\ \A k \in Key : dr[k] = Untouched
    BY <1>1, OpFacts, CallFacts
    DEF CallRecord, SignUpOK, JoinOK, AdminOK, DropOK, EraseOK, Administers, Early
  <2>3. /\ old.member \in Membership /\ old.member \in old.old /\ old.in \in Workspace
        /\ old.role \in Role \cup {"gone"} /\ row.of = old.in
    BY <2>1, <2>2 DEF RouteOK, CallRecord
  <2>4. row \in MemberRow /\ RowsAt(old.member) = {NoRow} \cup MemberRow
    BY <2>1, <2>3, <1>k DEF IInv, Types, TabOK, RowsAt
  <2>5. /\ LocksAgree' /\ \A d \in Caller : d # c => LocksOf(d)' = LocksOf(d)
        /\ locks' \subseteq [by : Caller, on : Key \cup {RoleLock}, how : Some]
        /\ LocksOf(c)' = my \cup {[by |-> c, on |-> old.member, how |-> "update"]}
    <3>1. "update" \in Some /\ old.member \in Key \cup {RoleLock}  BY <2>3, <1>k DEF Some
    <3>2. Wanted(old) = {[on |-> old.member, how |-> "update"]}  BY <1>1 DEF Wanted
    <3> QED  BY <1>1, <2>1, <3>1, <3>2, TakenAt
  <2>6. Holds(LocksOf(c)', old.member, {"update"})  BY <2>5, MoreIsHeld
  <2>7. /\ to \in {NoRow} \cup MemberRow
        /\ to # NoRow => to.of = row.of /\ to.who = row.who /\ to.role = old.role
        /\ to # Untouched
    BY <2>3, <2>4, Nulls DEF MemberRow
  <2>8. next \in {"trigger", "commit"} /\ (next = "commit" => row.role # "owner" \/ old.role = "owner")
    OBVIOUS
  <2>9. /\ call \in CallRecord /\ call.op = "route" /\ call.pc = next /\ call.in = old.in
        /\ call.member = old.member /\ call.who = old.who /\ call.role = old.role
        /\ call.old = old.old /\ call.todo = {}
    BY <1>1, <2>2, <2>8 DEF CallRecord
  <2>10. new[old.member] = to /\ DOMAIN new = Key /\ \A k \in Key : k # old.member => new[k] = Untouched
    BY <2>2, <2>3, <1>k DEF DrOK
  <2>11. draft'[c] = new /\ DOMAIN draft' = Caller /\ \A d \in Caller : d # c => draft'[d] = draft[d]
    BY <2>1 DEF IInv, Types
  <2>12. old.role = "gone" => to = NoRow  OBVIOUS
  <2> HIDE DEF call, new, to, next
  <2>13. DrOK(new)  BY <2>4, <2>7, <2>10 DEF DrOK
  <2>14. /\ \A m \in Membership : new[m] # Untouched => m = old.member
         /\ \A w \in Workspace : new[w] = Untouched
         /\ \A a \in Account : new[a] = Untouched
    BY <2>3, <2>10, <1>k, KeyAssumption
  <2>15. call # Nothing  BY <2>9, Nulls
  <2>16. RowsHeld(table, new, call, LocksOf(c)') /\ OthersHeldBy(new, call)
    BY <2>1, <2>6, <2>7, <2>10, <2>14 DEF RowsHeld, OthersHeldBy
  <2>17. Idle(new, call, LocksOf(c)')  BY <2>8, <2>9, <2>15 DEF Idle, Early
  <2>18. RouteOK(table, new, call)
    BY <2>1, <2>3, <2>7, <2>8, <2>9, <2>10, <2>14 DEF RouteOK
  <2>19. /\ SignUpOK(table, new, call) /\ JoinOK(new, call) /\ AdminOK(table, call, LocksOf(c)')
         /\ DropOK(table, new, call, LocksOf(c)') /\ EraseOK(table, new, call, LocksOf(c)')
    BY <2>9 DEF SignUpOK, JoinOK, AdminOK, DropOK, EraseOK, Administers
  <2>20. Sure(table, new, call, LocksOf(c)')
    <3> SUFFICES ASSUME next = "commit", NEW w \in Losses(table, new) PROVE FALSE
      BY <2>8, <2>9 DEF Sure
    <3>1. IsOwner(row, w) /\ ~IsOwner(to, w)  BY <2>10, <2>14 DEF Losses
    <3>2. old.role = "owner"  BY <2>8, <3>1 DEF IsOwner
    <3>3. to # NoRow  BY <3>1, <3>2, <2>4, Nulls DEF to, IsOwner, MemberRow
    <3> QED  BY <2>7, <3>1, <3>2, <3>3 DEF IsOwner
  <2>21. CallOK(table, new, call, LocksOf(c)')
    BY <2>16, <2>17, <2>18, <2>19, <2>20 DEF CallOK
  <2>22. CallT(call) /\ call.op # "signUp"  BY <2>9 DEF CallT
  <2>23. /\ \A m \in Membership : new[m] # Untouched => table[m] # NoRow
         /\ \A m \in Membership : m \in call.old \cup call.todo => m \in old.old
    BY <2>1, <2>9, <2>14
  <2> QED  BY <1>1, <2>1, <2>5, <2>9, <2>11, <2>13, <2>21, <2>22, <2>23, Stepped
<1> QED  BY <1>2, <1>3

LEMMA TriggerKeeps ==
    ASSUME IInv, NEW c \in Caller, Trigger(c)
    PROVE  IInv'
<1> DEFINE old == calls[c]
           my == LocksOf(c)
           dr == draft[c]
           call == [old EXCEPT !.pc = "commit"]
<1>k. Key = Membership \cup Workspace \cup Account  BY DEF Key
<1>1. old # Nothing /\ old.pc = "trigger" /\ old.todo = {} /\ At(c, "trigger")
  BY DEF Trigger, At
<1>2. CASE Rollback(c)  BY <1>2, RollbackKeeps
<1>3. CASE ~Rollback(c)
  <2>1. /\ table[old.in] = NoRow \/ OwnersOf(old.in, View(c)) # {}
        /\ locks' = Taken(c) /\ calls' = [calls EXCEPT ![c] = call] /\ UNCHANGED <<table, draft>>
    BY <1>3 DEF Trigger, Goes
  <2>2. /\ old \in CallRecord /\ RouteOK(table, dr, old) /\ old.op = "route"
    BY <1>1, OpFacts
    DEF CallRecord, SignUpOK, JoinOK, AdminOK, DropOK, EraseOK, Administers
  <2>3. /\ old.member \in Membership /\ old.in \in Workspace
        /\ table[old.member] # NoRow /\ table[old.member].of = old.in
        /\ \A m \in Membership : dr[m] # Untouched => m = old.member
    BY <1>1, <2>2 DEF RouteOK, CallRecord
  <2>4. DrOK(dr) /\ RowsHeld(table, dr, old, my) /\ OthersHeldBy(dr, old)
    BY <1>1, CallFacts DEF CallOK
  <2>5. Keeps(Seen(table, dr), old.in)
    <3>1. table[old.in] # NoRow  BY <2>3 DEF IInv, ForeignKeys
    <3>2. OwnersOf(old.in, View(c)) # {}  BY <2>1, <3>1
    <3>3. View(c) = Seen(table, dr)  BY DEF View, Seen
    <3> QED  BY <3>2, <3>3 DEF OwnersOf, MembersOf, Keeps, IsOwner
  <2>6. /\ LocksAgree' /\ \A d \in Caller : d # c => LocksOf(d)' = LocksOf(d)
        /\ locks' \subseteq [by : Caller, on : Key \cup {RoleLock}, how : Some]
        /\ LocksOf(c)' = my \cup {[by |-> c, on |-> old.in, how |-> "write"]}
    <3>1. "write" \in Some /\ old.in \in Key \cup {RoleLock}  BY <2>3, <1>k DEF Some
    <3>2. Wanted(old) = {[on |-> old.in, how |-> "write"]}  BY <1>1 DEF Wanted
    <3> QED  BY <1>1, <2>1, <3>1, <3>2, TakenAt
  <2>7. Holds(LocksOf(c)', old.in, {"write", "update"})
    <3> DEFINE lock == [by |-> c, on |-> old.in, how |-> "write"]
    <3>1. lock \in LocksOf(c)' /\ lock.on = old.in /\ lock.how = "write"  BY <2>6
    <3> HIDE DEF lock
    <3> QED  BY <3>1 DEF Holds
  <2>8. \A k, hows : Holds(my, k, hows) => Holds(LocksOf(c)', k, hows)
    <3> SUFFICES ASSUME NEW k, NEW hows, Holds(my, k, hows) PROVE Holds(LocksOf(c)', k, hows)
      OBVIOUS
    <3> QED  BY <2>6 DEF Holds
  <2>9. /\ call \in CallRecord /\ call.op = "route" /\ call.pc = "commit" /\ call.in = old.in
        /\ call.member = old.member /\ call.who = old.who /\ call.role = old.role
        /\ call.old = old.old /\ call.todo = {}
    BY <1>1, <2>2 DEF CallRecord
  <2> HIDE DEF call
  <2>10. call # Nothing  BY <2>9, Nulls
  <2>11. RowsHeld(table, dr, call, LocksOf(c)')
    <3> SUFFICES ASSUME dr[old.member] # Untouched
                 PROVE  /\ Holds(LocksOf(c)', old.member, {"update"})
                        /\ dr[old.member] # NoRow => /\ dr[old.member].of = table[old.member].of
                                                     /\ dr[old.member].who = table[old.member].who
      BY <2>3 DEF RowsHeld
    <3>1. Holds(my, old.member, {"update"})  BY <2>3, <2>4 DEF RowsHeld
    <3>2. Holds(LocksOf(c)', old.member, {"update"})  BY <3>1, <2>8
    <3> QED  BY <2>3, <2>4, <3>2 DEF RowsHeld
  <2>12. OthersHeldBy(dr, call)  BY <2>2, <2>4, <2>9, <2>10 DEF OthersHeldBy
  <2>13. Idle(dr, call, LocksOf(c)')  BY <2>9, <2>10 DEF Idle, Early
  <2>14. RouteOK(table, dr, call)  BY <2>2, <2>9 DEF RouteOK
  <2>15. /\ SignUpOK(table, dr, call) /\ JoinOK(dr, call) /\ AdminOK(table, call, LocksOf(c)')
         /\ DropOK(table, dr, call, LocksOf(c)') /\ EraseOK(table, dr, call, LocksOf(c)')
    BY <2>9 DEF SignUpOK, JoinOK, AdminOK, DropOK, EraseOK, Administers
  <2>16. Sure(table, dr, call, LocksOf(c)')
    <3>1. \A w \in Losses(table, dr) : w = old.in  BY <2>3 DEF Losses, IsOwner
    <3> QED  BY <2>5, <2>7, <3>1 DEF Sure
  <2>17. CallOK(table, dr, call, LocksOf(c)')
    BY <2>11, <2>12, <2>13, <2>14, <2>15, <2>16 DEF CallOK
  <2>18. /\ CallT(call) /\ draft'[c] = dr /\ DOMAIN draft' = Caller /\ UNCHANGED table
         /\ \A d \in Caller : draft'[d] = draft[d]
    BY <2>1, <2>9 DEF CallT, IInv, Types
  <2>19. call.op # "signUp" /\ \A m \in Membership : m \in call.old \cup call.todo => m \in old.old
    BY <2>9
  <2> QED  BY <1>1, <2>1, <2>4, <2>6, <2>17, <2>18, <2>19, Stepped
<1> QED  BY <1>2, <1>3

LEMMA DeleteKeeps ==
    ASSUME IInv, NEW c \in Caller, Delete(c)
    PROVE  IInv'
<1> DEFINE old == calls[c]
           my == LocksOf(c)
           dr == draft[c]
           rows == MembersOf(old.in, table)
           new == [dr EXCEPT ![old.in] = NoRow]
           call == Running(old, "erase", rows, "commit")
<1>k. Key = Membership \cup Workspace \cup Account  BY DEF Key
<1>1. /\ old # Nothing /\ old.pc = "delete" /\ old.todo = {} /\ At(c, "delete")
      /\ locks' = Taken(c) /\ draft' = [draft EXCEPT ![c] = new]
      /\ calls' = [calls EXCEPT ![c] = call] /\ UNCHANGED table
  BY DEF Delete, At, Run
<1>2. /\ old \in CallRecord /\ DropOK(table, dr, old, my) /\ old.op = "drop"
      /\ DrOK(dr) /\ \A k \in Key : dr[k] = Untouched
  BY <1>1, OpFacts, CallFacts
  DEF CallRecord, SignUpOK, RouteOK, JoinOK, AdminOK, DropOK, EraseOK, Administers, Early
<1>3. old.in \in Workspace  BY <1>2 DEF DropOK
<1>4. /\ LocksAgree' /\ \A d \in Caller : d # c => LocksOf(d)' = LocksOf(d)
      /\ locks' \subseteq [by : Caller, on : Key \cup {RoleLock}, how : Some]
      /\ LocksOf(c)' = my \cup {[by |-> c, on |-> old.in, how |-> "update"]}
  <2>1. "update" \in Some /\ old.in \in Key \cup {RoleLock}  BY <1>3, <1>k DEF Some
  <2>2. Wanted(old) = {[on |-> old.in, how |-> "update"]}  BY <1>1 DEF Wanted
  <2> QED  BY <1>1, <2>1, <2>2, TakenAt
<1>5. Holds(LocksOf(c)', old.in, {"update"})  BY <1>4, MoreIsHeld
<1>6. /\ call \in CallRecord /\ call.op = "drop" /\ call.pc = "commit" /\ call.in = old.in
      /\ call.who = old.who /\ call.old = old.old /\ call.todo = rows /\ call.does = "erase"
  BY ZenonT(60), <1>2 DEF CallRecord, Running, MembersOf
<1>7. \A m \in Membership : m \in rows <=> table[m] # NoRow /\ table[m].of = old.in
  BY DEF MembersOf
<1>8. rows \subseteq Membership  BY DEF MembersOf
<1>9. new[old.in] = NoRow /\ DOMAIN new = Key /\ \A k \in Key : k # old.in => new[k] = Untouched
  BY <1>2, <1>3, <1>k DEF DrOK
<1>10. draft'[c] = new /\ DOMAIN draft' = Caller /\ \A d \in Caller : d # c => draft'[d] = draft[d]
  BY <1>1 DEF IInv, Types
<1> HIDE DEF call, new, rows
<1>11. DrOK(new)  BY <1>9 DEF DrOK, RowsAt
<1>12. /\ \A m \in Membership : new[m] = Untouched
       /\ \A w \in Workspace : new[w] # Untouched => w = old.in
       /\ \A a \in Account : new[a] = Untouched
  BY <1>3, <1>9, <1>k, KeyAssumption
<1>13. call # Nothing  BY <1>6, Nulls
<1>14. RowsHeld(table, new, call, LocksOf(c)') /\ OthersHeldBy(new, call)
  BY <1>6, <1>9, <1>12, <1>13 DEF RowsHeld, OthersHeldBy
<1>15. Idle(new, call, LocksOf(c)')  BY <1>6, <1>13 DEF Idle, Early
<1>16. DropOK(table, new, call, LocksOf(c)')
  BY <1>3, <1>5, <1>6, <1>7, <1>8, <1>9, <1>12 DEF DropOK
<1>17. /\ SignUpOK(table, new, call) /\ RouteOK(table, new, call) /\ JoinOK(new, call)
       /\ AdminOK(table, call, LocksOf(c)') /\ EraseOK(table, new, call, LocksOf(c)')
  BY <1>6 DEF SignUpOK, RouteOK, JoinOK, AdminOK, EraseOK, Administers
<1>18. Losses(table, new) = {}  BY <1>12 DEF Losses
<1>19. CallOK(table, new, call, LocksOf(c)')
  BY <1>14, <1>15, <1>16, <1>17, <1>18 DEF CallOK, Sure
<1>20. CallT(call) /\ call.op # "signUp"  BY <1>6 DEF CallT
<1>21. \A m \in Membership : m \in call.old \cup call.todo => table[m] # NoRow \/ m \in old.old
  BY <1>6, <1>7
<1> QED  BY <1>1, <1>4, <1>6, <1>10, <1>11, <1>12, <1>19, <1>20, <1>21, Stepped

LEMMA EraseAccountKeeps ==
    ASSUME IInv, NEW c \in Caller, EraseAccount(c)
    PROVE  IInv'
<1> DEFINE old == calls[c]
           my == LocksOf(c)
           dr == draft[c]
           rows == MembershipsOf(old.who, table)
           new == [dr EXCEPT ![old.who] = NoRow]
           call == Running(old, "erase", rows, "erased")
<1>k. Key = Membership \cup Workspace \cup Account  BY DEF Key
<1>1. old # Nothing /\ old.pc = "sole" /\ old.todo = {}
  BY DEF EraseAccount, At
<1>2. CASE Rollback(c)  BY <1>2, RollbackKeeps
<1>3. CASE ~Rollback(c)
  <2>1. /\ OwnedAlone(old.who) = {} /\ draft' = [draft EXCEPT ![c] = new]
        /\ calls' = [calls EXCEPT ![c] = call] /\ UNCHANGED <<table, locks>>
    BY <1>3 DEF EraseAccount, Run
  <2>2. /\ old \in CallRecord /\ EraseOK(table, dr, old, my) /\ old.op = "erase"
        /\ DrOK(dr) /\ \A k \in Key : dr[k] = Untouched
    BY <1>1, OpFacts, CallFacts
    DEF CallRecord, SignUpOK, RouteOK, JoinOK, AdminOK, DropOK, EraseOK, Administers, Early
  <2>3. /\ old.who \in Account /\ old.by \in Account /\ old.by # old.who
        /\ Holds(my, old.who, {"update"}) /\ Holds(my, RoleLock, {"update"}) /\ table[old.who] # NoRow
        /\ table[old.by] # NoRow /\ table[old.by].admin /\ ~table[old.by].banned
        /\ \A m \in Membership : table[m] # NoRow /\ table[m].who = old.who =>
                Holds(my, m, {"update"}) /\ Holds(my, table[m].of, {"update"})
    BY <1>1, <2>2 DEF EraseOK
  <2>4. OwnedAloneIn(table, old.who) = {}
    <3> SUFFICES ASSUME NEW w \in OwnedAloneIn(table, old.who) PROVE w \in OwnedAlone(old.who)
      BY <2>1
    <3> QED  BY DEF OwnedAloneIn, OwnedAlone, Keeps, IsOwner, OwnersOf, MembersOf, MembershipsOf
  <2>5. /\ call \in CallRecord /\ call.op = "erase" /\ call.pc = "erased" /\ call.by = old.by
        /\ call.who = old.who /\ call.old = old.old /\ call.todo = rows /\ call.does = "erase"
    BY <2>2 DEF CallRecord, Running, MembershipsOf
  <2>6. \A m \in Membership : m \in rows <=> table[m] # NoRow /\ table[m].who = old.who
    BY DEF MembershipsOf
  <2>7. rows \subseteq Membership  BY DEF MembershipsOf
  <2>8. new[old.who] = NoRow /\ DOMAIN new = Key /\ \A k \in Key : k # old.who => new[k] = Untouched
    BY <2>2, <2>3, <1>k DEF DrOK
  <2>9. draft'[c] = new /\ DOMAIN draft' = Caller /\ \A d \in Caller : d # c => draft'[d] = draft[d]
    BY <2>1 DEF IInv, Types
  <2> HIDE DEF call, new, rows
  <2>10. DrOK(new)  BY <2>8 DEF DrOK, RowsAt
  <2>11. /\ \A m \in Membership : new[m] = Untouched
         /\ \A w \in Workspace : new[w] = Untouched
         /\ \A a \in Account : new[a] # Untouched => a = old.who
    BY <2>3, <2>8, <1>k, KeyAssumption
  <2>12. call # Nothing  BY <2>5, Nulls
  <2>13. RowsHeld(table, new, call, my) /\ OthersHeldBy(new, call)
    BY <2>5, <2>8, <2>11, <2>12 DEF RowsHeld, OthersHeldBy
  <2>14. Idle(new, call, my)  BY <2>5, <2>12 DEF Idle, Early
  <2>15. EraseOK(table, new, call, my)
    BY <2>3, <2>4, <2>5, <2>6, <2>7, <2>8, <2>11 DEF EraseOK
  <2>16. /\ SignUpOK(table, new, call) /\ RouteOK(table, new, call) /\ JoinOK(new, call)
         /\ AdminOK(table, call, my) /\ DropOK(table, new, call, my)
    BY <2>5 DEF SignUpOK, RouteOK, JoinOK, AdminOK, DropOK, Administers
  <2>17. CallOK(table, new, call, my)
    BY <2>5, <2>13, <2>14, <2>15, <2>16 DEF CallOK, Sure
  <2>18. \A m \in Membership : m \in call.todo => table[m] # NoRow \/ m \in old.todo
    BY <2>5, <2>6
  <2> QED  BY <1>1, <2>1, <2>2, <2>5, <2>9, <2>10, <2>11, <2>17, <2>18, SteppedUnlocked
<1> QED  BY <1>2, <1>3

LEMMA EraseMembershipsKeeps ==
    ASSUME IInv, NEW c \in Caller, EraseMemberships(c)
    PROVE  IInv'
<1> DEFINE old == calls[c]
           my == LocksOf(c)
           dr == draft[c]
           call == [old EXCEPT !.pc = "commit"]
<1>1. old # Nothing /\ old.pc = "erased" /\ old.todo = {}
  BY DEF EraseMemberships, At
<1>2. CASE Rollback(c)  BY <1>2, RollbackKeeps
<1>3. CASE ~Rollback(c)
  <2>1. calls' = [calls EXCEPT ![c] = call] /\ UNCHANGED <<table, draft, locks>>
    BY <1>3 DEF EraseMemberships, Goes
  <2>2. /\ old \in CallRecord /\ EraseOK(table, dr, old, my) /\ old.op = "erase"
    BY <1>1, OpFacts
    DEF CallRecord, SignUpOK, RouteOK, JoinOK, AdminOK, DropOK, EraseOK, Administers
  <2>3. DrOK(dr) /\ RowsHeld(table, dr, old, my) /\ OthersHeldBy(dr, old)
    BY <1>1, CallFacts DEF CallOK
  <2>4. /\ call \in CallRecord /\ call.op = "erase" /\ call.pc = "commit" /\ call.by = old.by
        /\ call.who = old.who /\ call.old = old.old /\ call.todo = {} /\ call.does = old.does
    BY <1>1, <2>2 DEF CallRecord
  <2> HIDE DEF call
  <2>5. call # Nothing  BY <2>4, Nulls
  <2>6. EraseOK(table, dr, call, my)  BY <1>1, <2>2, <2>4 DEF EraseOK
  <2>7. RowsHeld(table, dr, call, my)
    <3>1. \A m \in Membership : dr[m] \in {Untouched, NoRow}  BY <2>2 DEF EraseOK
    <3> QED  BY <2>3, <3>1 DEF RowsHeld
  <2>8. OthersHeldBy(dr, call)  BY <2>2, <2>3, <2>4, <2>5 DEF OthersHeldBy
  <2>9. Idle(dr, call, my)  BY <2>4, <2>5 DEF Idle, Early
  <2>10. /\ SignUpOK(table, dr, call) /\ RouteOK(table, dr, call) /\ JoinOK(dr, call)
         /\ AdminOK(table, call, my) /\ DropOK(table, dr, call, my)
    BY <2>4 DEF SignUpOK, RouteOK, JoinOK, AdminOK, DropOK, Administers
  <2>11. CallOK(table, dr, call, my)
    BY <2>4, <2>6, <2>7, <2>8, <2>9, <2>10 DEF CallOK, Sure
  <2>12. /\ draft'[c] = dr /\ DOMAIN draft' = Caller /\ \A d \in Caller : draft'[d] = draft[d]
         /\ \A m \in Membership : m \notin call.todo
    BY <2>1, <2>4 DEF IInv, Types
  <2> QED  BY <1>1, <2>1, <2>2, <2>3, <2>4, <2>11, <2>12, SteppedUnlocked
<1> QED  BY <1>2, <1>3

LEMMA AddMemberKeeps ==
    ASSUME IInv, NEW c \in Caller, AddMember(c)
    PROVE  IInv'
<1> DEFINE old == calls[c]
           my == LocksOf(c)
           dr == draft[c]
           call == [old EXCEPT !.pc = "names"]
<1>k. Key = Membership \cup Workspace \cup Account  BY DEF Key
<1>1. old # Nothing /\ old.pc = "add" /\ old.todo = {}
  BY DEF AddMember, At
<1>2. CASE Rollback(c)  BY <1>2, RollbackKeeps
<1>3. CASE ~Rollback(c)
  <2>1. PICK m \in Membership : New(m) /\ draft' = [draft EXCEPT ![c][m] = Row(old)]
    BY <1>3 DEF AddMember
  <2> DEFINE row == Row(old)
             new == [dr EXCEPT ![m] = row]
  <2>2. /\ draft' = [draft EXCEPT ![c] = new] /\ calls' = [calls EXCEPT ![c] = call]
        /\ UNCHANGED <<table, locks>>
    BY <1>3, <2>1 DEF AddMember, Goes
  <2>3. /\ old \in CallRecord /\ AdminOK(table, old, my) /\ old.op = "add"
        /\ DrOK(dr) /\ \A k \in Key : dr[k] = Untouched
    BY <1>1, OpFacts, CallFacts
    DEF CallRecord, SignUpOK, RouteOK, JoinOK, AdminOK, DropOK, EraseOK, Administers, Early
  <2>4. /\ old.in \in Workspace /\ old.who \in Account /\ old.role \in Role
        /\ Holds(my, old.in, {"update"}) /\ table[old.in] # NoRow
    BY <1>1, <2>3 DEF AdminOK, Administers
  <2>5. row \in MemberRow /\ row.of = old.in /\ row.who = old.who /\ row.role = old.role
    BY <2>4 DEF Row, MemberRow
  <2>6. /\ call \in CallRecord /\ call.op = "add" /\ call.pc = "names" /\ call.in = old.in
        /\ call.who = old.who /\ call.role = old.role /\ call.old = old.old /\ call.todo = {}
    BY <1>1, <2>3 DEF CallRecord
  <2>7. new[m] = row /\ DOMAIN new = Key /\ \A k \in Key : k # m => new[k] = Untouched
    BY <2>3, <1>k DEF DrOK
  <2>8. draft'[c] = new /\ DOMAIN draft' = Caller /\ \A d \in Caller : d # c => draft'[d] = draft[d]
    BY <2>2 DEF IInv, Types
  <2> HIDE DEF call, new, row
  <2>9. DrOK(new)
    <3>1. RowsAt(m) = {NoRow} \cup MemberRow  BY DEF RowsAt
    <3> QED  BY <2>5, <2>7, <3>1 DEF DrOK
  <2>10. /\ \A n \in Membership : new[n] # Untouched => n = m
         /\ \A w \in Workspace : new[w] = Untouched
         /\ \A a \in Account : new[a] = Untouched
    BY <2>7, <1>k, KeyAssumption
  <2>11. call # Nothing /\ table[m] = NoRow /\ row # NoRow  BY <2>1, <2>5, <2>6, Nulls DEF New
  <2>12. NewRow(table, new, call, my, m)
    <3>1. Holds(my, old.in, Some)  BY <2>4 DEF Holds, Some
    <3>2. Seen(table, new)[old.in] # NoRow  BY <2>4, <2>10, <1>k DEF Seen
    <3> QED  BY <2>5, <2>6, <2>7, <2>11, <3>1, <3>2 DEF NewRow
  <2>13. RowsHeld(table, new, call, my)  BY <2>7, <2>10, <2>11, <2>12 DEF RowsHeld
  <2>14. OthersHeldBy(new, call)  BY <2>10 DEF OthersHeldBy
  <2>15. Idle(new, call, my)  BY <2>6, <2>11 DEF Idle, Early
  <2>16. AdminOK(table, call, my)  BY <2>4, <2>6 DEF AdminOK, Administers
  <2>17. /\ SignUpOK(table, new, call) /\ RouteOK(table, new, call) /\ JoinOK(new, call)
         /\ DropOK(table, new, call, my) /\ EraseOK(table, new, call, my)
    BY <2>6 DEF SignUpOK, RouteOK, JoinOK, DropOK, EraseOK
  <2>18. Losses(table, new) = {}  BY <2>10, <2>11 DEF Losses, IsOwner
  <2>19. CallOK(table, new, call, my)
    BY <2>13, <2>14, <2>15, <2>16, <2>17, <2>18 DEF CallOK, Sure
  <2>20. /\ \A n \in Membership : n \in call.todo => table[n] # NoRow \/ n \in old.todo
         /\ \A n \in Membership : new[n] # Untouched => New(n)
    BY <2>1, <2>6, <2>10
  <2> QED  BY <1>1, <2>2, <2>3, <2>6, <2>8, <2>9, <2>19, <2>20, SteppedUnlocked
<1> QED  BY <1>2, <1>3

LEMMA InsertMemberKeeps ==
    ASSUME IInv, NEW c \in Caller, InsertMember(c)
    PROVE  IInv'
<1> DEFINE old == calls[c]
           call == [old EXCEPT !.pc = "in"]
<1>1. old # Nothing /\ old.pc = "insert" /\ old.todo = {} /\ old.op \in {"join", "create"}
  BY DEF InsertMember, At
<1>2. CASE Rollback(c)  BY <1>2, RollbackKeeps
<1>3. CASE ~Rollback(c)
  <2>1. calls' = [calls EXCEPT ![c] = call] /\ UNCHANGED <<table, draft, locks>>
    BY <1>3 DEF InsertMember, Goes
  <2>2. old \in CallRecord /\ JoinOK(draft[c], old) /\ old.does = "hold"
    BY <1>1, OpFacts, CallFacts DEF CallOK, Idle, Early
  <2>3. /\ call \in CallRecord /\ call.op = old.op /\ call.pc = "in" /\ call.in = old.in
        /\ call.who = old.who /\ call.role = old.role /\ call.old = old.old /\ call.todo = {}
        /\ call.does = "hold"
    BY <1>1, <2>2 DEF CallRecord
  <2> HIDE DEF call
  <2>4. JoinOK(draft[c], call)  BY <1>1, <2>2, <2>3 DEF JoinOK
  <2>5. /\ SignUpOK(table, draft[c], call) /\ RouteOK(table, draft[c], call)
        /\ AdminOK(table, call, LocksOf(c)') /\ DropOK(table, draft[c], call, LocksOf(c)')
        /\ EraseOK(table, draft[c], call, LocksOf(c)')
    BY <1>1, <2>3 DEF SignUpOK, RouteOK, AdminOK, DropOK, EraseOK, Administers
  <2>6. /\ LocksAgree' /\ \A d \in Caller : LocksOf(d)' = LocksOf(d)
        /\ locks' \subseteq [by : Caller, on : Key \cup {RoleLock}, how : Some]
    BY <2>1, LocksKept DEF IInv, Types
  <2>7. old.pc \in Early /\ call.pc \in Early /\ call.op # "signUp"
    BY <1>1, <2>3 DEF Early
  <2> QED  BY <1>1, <2>1, <2>3, <2>4, <2>5, <2>6, <2>7, EarlyKeeps
<1> QED  BY <1>2, <1>3

LEMMA NameWorkspaceKeeps ==
    ASSUME IInv, NEW c \in Caller, NameWorkspace(c)
    PROVE  IInv'
<1> DEFINE old == calls[c]
           my == LocksOf(c)
           dr == draft[c]
           call == [old EXCEPT !.pc = "names"]
<1>k. Key = Membership \cup Workspace \cup Account  BY DEF Key
<1>1. old # Nothing /\ old.pc = "in" /\ old.todo = {} /\ At(c, "in")
  BY DEF NameWorkspace, At
<1>0. old.op \in {"join", "create"}
  BY <1>1, OpFacts DEF SignUpOK, RouteOK, JoinOK, AdminOK, DropOK, EraseOK, Administers, CallRecord
<1>2. CASE Rollback(c)  BY <1>2, RollbackKeeps
<1>3. CASE ~Rollback(c)
  <2>1. PICK m \in Membership :
            /\ New(m)
            /\ draft' = [draft EXCEPT ![c] = WithMember(c, m)]
    BY <1>3 DEF NameWorkspace
  <2>2. /\ old.op = "join" => table[old.in] # NoRow
        /\ locks' = Taken(c) /\ calls' = [calls EXCEPT ![c] = call] /\ UNCHANGED table
    BY <1>3 DEF NameWorkspace, Goes
  <2>3. /\ old \in CallRecord /\ JoinOK(dr, old) /\ DrOK(dr) /\ \A k \in Key : dr[k] = Untouched
    BY <1>1, OpFacts, CallFacts DEF Early
  <2>4. /\ old.in \in Workspace /\ old.who \in Account /\ old.role \in Role
        /\ old.op = "create" => old.role = "owner"
    BY <1>0, <1>1, <2>3 DEF JoinOK
  <2>5. PICK row : row = Row(old)  OBVIOUS
  <2>6. row \in MemberRow /\ row.of = old.in /\ row.who = old.who /\ row.role = old.role
    BY <2>4, <2>5 DEF Row, MemberRow
  <2>7. /\ LocksAgree' /\ \A d \in Caller : d # c => LocksOf(d)' = LocksOf(d)
        /\ locks' \subseteq [by : Caller, on : Key \cup {RoleLock}, how : Some]
        /\ LocksOf(c)' = my \cup {[by |-> c, on |-> old.in, how |-> "share"]}
    <3>1. "share" \in Some /\ old.in \in Key \cup {RoleLock}  BY <2>4, <1>k DEF Some
    <3>2. Wanted(old) = {[on |-> old.in, how |-> "share"]}  BY <1>1 DEF Wanted
    <3> QED  BY <1>1, <2>2, <3>1, <3>2, TakenAt
  <2>8. Holds(LocksOf(c)', old.in, Some)
    <3> DEFINE lock == [by |-> c, on |-> old.in, how |-> "share"]
    <3>1. lock \in LocksOf(c)' /\ lock.on = old.in /\ lock.how \in Some  BY <2>7 DEF Some
    <3> HIDE DEF lock
    <3> QED  BY <3>1 DEF Holds
  <2>9. /\ call \in CallRecord /\ call.op = old.op /\ call.pc = "names" /\ call.in = old.in
        /\ call.who = old.who /\ call.role = old.role /\ call.old = old.old /\ call.todo = {}
    BY <1>1, <2>3 DEF CallRecord
  <2>10. PICK new : new = WithMember(c, m)  OBVIOUS
  <2>11. m # old.in /\ m \in Key /\ old.in \in Key  BY <2>4, <1>k, KeyAssumption
  <2>12. /\ new[m] = row /\ DOMAIN new = Key
         /\ new[old.in] = IF old.op = "create" THEN "workspace" ELSE Untouched
         /\ \A k \in Key : k # m /\ k # old.in => new[k] = Untouched
    BY <2>3, <2>5, <2>10, <2>11 DEF WithMember
  <2>13. draft'[c] = new /\ DOMAIN draft' = Caller /\ \A d \in Caller : d # c => draft'[d] = draft[d]
    BY <2>1, <2>5, <2>10 DEF IInv, Types
  <2> HIDE DEF call
  <2>14. /\ \A n \in Membership : new[n] # Untouched => n = m
         /\ \A w \in Workspace : new[w] # Untouched => w = old.in /\ old.op = "create" /\ new[w] = "workspace"
         /\ \A a \in Account : new[a] = Untouched
    BY <2>4, <2>11, <2>12, <1>k, KeyAssumption
  <2>15. DrOK(new)
    <3>1. RowsAt(m) = {NoRow} \cup MemberRow  BY DEF RowsAt
    <3>2. "workspace" \in RowsAt(old.in)  BY <2>4, KeyAssumption DEF RowsAt
    <3> QED  BY <2>6, <2>12, <3>1, <3>2 DEF DrOK
  <2>16. call # Nothing /\ table[m] = NoRow /\ row # NoRow /\ row # Untouched
    BY <2>1, <2>6, <2>9, Nulls DEF New
  <2>17. NewRow(table, new, call, LocksOf(c)', m)
    <3>1. Seen(table, new)[old.in] # NoRow
      BY <1>0, <1>1, <2>2, <2>11, <2>12, Nulls DEF Seen
    <3> QED  BY <2>6, <2>8, <2>9, <2>12, <2>16, <3>1 DEF NewRow
  <2>18. RowsHeld(table, new, call, LocksOf(c)')
    BY <2>12, <2>14, <2>16, <2>17 DEF RowsHeld
  <2>19. OthersHeldBy(new, call)  BY <2>9, <2>14, <2>16 DEF OthersHeldBy
  <2>20. Idle(new, call, LocksOf(c)')  BY <2>9, <2>16 DEF Idle, Early
  <2>21. JoinOK(new, call)
    <3>1. old.op = "create" => IsOwner(new[m], old.in)  BY <2>4, <2>6, <2>12, <2>16 DEF IsOwner
    <3> QED  BY <1>0, <1>1, <2>4, <2>9, <2>12, <2>16, <3>1 DEF JoinOK
  <2>22. /\ SignUpOK(table, new, call) /\ RouteOK(table, new, call) /\ AdminOK(table, call, LocksOf(c)')
         /\ DropOK(table, new, call, LocksOf(c)') /\ EraseOK(table, new, call, LocksOf(c)')
    BY <1>0, <1>1, <2>9 DEF SignUpOK, RouteOK, AdminOK, DropOK, EraseOK, Administers
  <2>23. Losses(table, new) = {}  BY <2>14, <2>16 DEF Losses, IsOwner
  <2>24. CallOK(table, new, call, LocksOf(c)')
    BY <2>18, <2>19, <2>20, <2>21, <2>22, <2>23 DEF CallOK, Sure
  <2>25. CallT(call) /\ call.op # "signUp"  BY <1>0, <1>1, <2>9 DEF CallT
  <2>26. /\ \A n \in Membership : n \in call.old \cup call.todo => n \in old.old
         /\ \A n \in Membership : new[n] # Untouched => New(n)
    BY <2>1, <2>9, <2>14
  <2> QED  BY <1>1, <2>2, <2>7, <2>9, <2>13, <2>15, <2>24, <2>25, <2>26, Stepped
<1> QED  BY <1>2, <1>3

LEMMA ChangeRoleKeeps ==
    ASSUME IInv, NEW c \in Caller, ChangeRole(c)
    PROVE  IInv'
<1> DEFINE old == calls[c]
           my == LocksOf(c)
           dr == draft[c]
           rows == RowsOf(old, {old.who})
           new == Given(c, rows, old.role)
           call == [old EXCEPT !.pc = "commit"]
<1>k. Key = Membership \cup Workspace \cup Account  BY DEF Key
<1>1. old # Nothing /\ old.pc = "change" /\ old.todo = {}
  BY DEF ChangeRole, At
<1>2. CASE Rollback(c)  BY <1>2, RollbackKeeps
<1>3. CASE ~Rollback(c)
  <2>1. /\ \E held \in rows : ~NoOwnerIsLeft(c, rows, old.role)
        /\ draft' = [draft EXCEPT ![c] = new] /\ calls' = [calls EXCEPT ![c] = call]
        /\ UNCHANGED <<table, locks>>
    BY <1>3 DEF ChangeRole, Goes
  <2>2. /\ old \in CallRecord /\ AdminOK(table, old, my) /\ old.op = "setRole"
        /\ DrOK(dr) /\ \A k \in Key : dr[k] = Untouched
    BY <1>1, OpFacts, CallFacts
    DEF CallRecord, SignUpOK, RouteOK, JoinOK, AdminOK, DropOK, EraseOK, Administers, Early
  <2>3. /\ old.in \in Workspace /\ old.who \in Account /\ old.role \in Role
        /\ Holds(my, old.in, {"update"}) /\ table[old.in] # NoRow
        /\ \A m \in Membership : table[m] # NoRow /\ table[m].of = old.in /\ table[m].who = old.who =>
                Holds(my, m, {"update"})
    BY <1>1, <2>2 DEF AdminOK, Administers
  <2>4. \A m \in Membership : m \in rows <=>
            table[m] # NoRow /\ table[m].of = old.in /\ table[m].who = old.who
    BY DEF RowsOf, MembersOf
  <2>5. rows \subseteq Membership  BY DEF RowsOf, MembersOf
  <2>6. /\ DOMAIN new = Key
        /\ \A m \in rows : new[m] = [table[m] EXCEPT !.role = old.role]
        /\ \A k \in Key : k \notin rows => new[k] = Untouched
    BY <2>2, <2>5, <1>k DEF Given
  <2>7. \A m \in rows : /\ new[m] \in MemberRow /\ new[m] # NoRow /\ new[m] # Untouched
                        /\ new[m].of = table[m].of /\ new[m].who = table[m].who
                        /\ new[m].role = old.role
    <3> SUFFICES ASSUME NEW m \in rows
                 PROVE  /\ new[m] \in MemberRow /\ new[m] # NoRow /\ new[m] # Untouched
                        /\ new[m].of = table[m].of /\ new[m].who = table[m].who
                        /\ new[m].role = old.role
      OBVIOUS
    <3>1. table[m] \in MemberRow  BY <2>4, <2>5, <1>k DEF IInv, Types, TabOK, RowsAt
    <3>2. new[m] = [table[m] EXCEPT !.role = old.role]  BY <2>6
    <3> HIDE DEF new
    <3> QED  BY <2>3, <3>1, <3>2, Nulls DEF MemberRow
  <2>8. /\ call \in CallRecord /\ call.op = "setRole" /\ call.pc = "commit" /\ call.in = old.in
        /\ call.who = old.who /\ call.role = old.role /\ call.old = old.old /\ call.todo = {}
    BY <1>1, <2>2 DEF CallRecord
  <2>9. draft'[c] = new /\ DOMAIN draft' = Caller /\ \A d \in Caller : d # c => draft'[d] = draft[d]
    BY <2>1 DEF IInv, Types
  <2>10. (\E n \in Membership : IsOwner(table[n], old.in) /\ n \notin rows) \/ old.role = "owner"
    BY <2>1 DEF NoOwnerIsLeft, OwnersOf, MembersOf, IsOwner
  <2>11. PICK held : held \in rows  BY <2>1
  <2> HIDE DEF call, new, rows
  <2>12. /\ \A m \in Membership : new[m] # Untouched => m \in rows
         /\ \A w \in Workspace : new[w] = Untouched
         /\ \A a \in Account : new[a] = Untouched
    BY <2>5, <2>6, <1>k, KeyAssumption
  <2>13. DrOK(new)  BY <2>5, <2>6, <2>7 DEF DrOK, RowsAt
  <2>14. call # Nothing  BY <2>8, Nulls
  <2>15. RowsHeld(table, new, call, my)  BY <2>3, <2>4, <2>7, <2>12 DEF RowsHeld
  <2>16. OthersHeldBy(new, call)  BY <2>12 DEF OthersHeldBy
  <2>17. Idle(new, call, my)  BY <2>8, <2>14 DEF Idle, Early
  <2>18. AdminOK(table, call, my)  BY <2>3, <2>8 DEF AdminOK, Administers
  <2>19. /\ SignUpOK(table, new, call) /\ RouteOK(table, new, call) /\ JoinOK(new, call)
         /\ DropOK(table, new, call, my) /\ EraseOK(table, new, call, my)
    BY <2>8 DEF SignUpOK, RouteOK, JoinOK, DropOK, EraseOK
  <2>20. Keeps(Seen(table, new), old.in)
    <3>1. CASE old.role = "owner"
      <4>1. IsOwner(new[held], old.in)  BY <2>4, <2>5, <2>7, <2>11, <3>1 DEF IsOwner
      <4>2. Seen(table, new)[held] = new[held]  BY <2>5, <2>7, <2>11, <1>k DEF Seen
      <4> QED  BY <4>1, <4>2, <2>5, <2>11 DEF Keeps
    <3>2. CASE old.role # "owner"
      <4>1. PICK n \in Membership : IsOwner(table[n], old.in) /\ n \notin rows  BY <2>10, <3>2
      <4>2. Seen(table, new)[n] = table[n]  BY <2>12, <4>1, <1>k DEF Seen
      <4> QED  BY <4>1, <4>2 DEF Keeps
    <3> QED  BY <3>1, <3>2
  <2>21. Sure(table, new, call, my)
    <3>1. \A w \in Losses(table, new) : w = old.in  BY <2>4, <2>12 DEF Losses, IsOwner
    <3>2. Holds(my, old.in, {"write", "update"})  BY <2>3 DEF Holds
    <3> QED  BY <2>20, <3>1, <3>2 DEF Sure
  <2>22. CallOK(table, new, call, my)
    BY <2>15, <2>16, <2>17, <2>18, <2>19, <2>21 DEF CallOK
  <2>23. /\ \A m \in Membership : m \in call.todo => table[m] # NoRow \/ m \in old.todo
         /\ \A m \in Membership : new[m] # Untouched => table[m] # NoRow
    BY <2>4, <2>8, <2>12
  <2> QED  BY <1>1, <2>1, <2>2, <2>8, <2>9, <2>13, <2>22, <2>23, SteppedUnlocked
<1> QED  BY <1>2, <1>3

LEMMA GiveOwnerKeeps ==
    ASSUME IInv, NEW c \in Caller, GiveOwner(c)
    PROVE  IInv'
<1> DEFINE old == calls[c]
           my == LocksOf(c)
           dr == draft[c]
           rows == RowsOf(old, {old.who})
           others == RowsOf(old, OthersHeld(c))
           demoted == Given(c, others, "other")
           named == [k \in Key |-> IF k \in rows THEN [table[k] EXCEPT !.role = "owner"] ELSE demoted[k]]
<1>k. Key = Membership \cup Workspace \cup Account  BY DEF Key
<1>1. /\ old # Nothing /\ old.pc = "give" /\ old.todo = {} /\ UNCHANGED <<table, locks>>
  BY DEF GiveOwner, At
<1>2. /\ old \in CallRecord /\ AdminOK(table, old, my) /\ old.op = "setOwner"
      /\ DrOK(dr) /\ \A k \in Key : dr[k] = Untouched
  BY <1>1, OpFacts, CallFacts
  DEF CallRecord, SignUpOK, RouteOK, JoinOK, AdminOK, DropOK, EraseOK, Administers, Early
<1>3. /\ old.in \in Workspace /\ old.who \in Account /\ old.role = "owner"
      /\ Holds(my, old.in, {"update"}) /\ table[old.in] # NoRow
  BY <1>1, <1>2 DEF AdminOK, Administers
<1>4. \A m \in Membership : table[m] # NoRow /\ table[m].of = old.in
            /\ table[m].who \in OthersHeld(c) \cup {old.who} => Holds(my, m, {"update"})
  BY <1>1, <1>2, FormerOwners DEF AdminOK, Administers
<1>5. /\ \A m \in Membership : m \in rows <=>
            table[m] # NoRow /\ table[m].of = old.in /\ table[m].who = old.who
      /\ \A m \in Membership : m \in others =>
            table[m] # NoRow /\ table[m].of = old.in /\ table[m].who \in OthersHeld(c)
      /\ rows \subseteq Membership /\ others \subseteq Membership /\ rows \cap others = {}
  BY DEF RowsOf, MembersOf, OthersHeld
<1>6. \A k \in Key : demoted[k] = IF k \in others THEN [table[k] EXCEPT !.role = "other"] ELSE Untouched
  BY <1>2 DEF Given
<1>7. \A k \in Key : named[k] = IF k \in rows THEN [table[k] EXCEPT !.role = "owner"] ELSE demoted[k]
  OBVIOUS
<1>8. DOMAIN demoted = Key /\ DOMAIN named = Key  BY DEF Given
<1>9. ASSUME NEW m \in rows \cup others, NEW role \in Role, NEW row, row = [table[m] EXCEPT !.role = role]
      PROVE  /\ row \in MemberRow /\ row # NoRow /\ row # Untouched
             /\ row.of = old.in /\ row.of = table[m].of /\ row.who = table[m].who /\ row.role = role
  <2>1. table[m] \in MemberRow /\ table[m].of = old.in
    BY <1>5, <1>k DEF IInv, Types, TabOK, RowsAt
  <2> QED  BY <1>9, <2>1, Nulls DEF MemberRow
<1>10. "owner" \in Role /\ "other" \in Role  BY DEF Role
<1>11. \A m \in others : /\ demoted[m] \in MemberRow /\ demoted[m] # NoRow /\ demoted[m] # Untouched
                         /\ demoted[m].of = old.in /\ demoted[m].of = table[m].of
                         /\ demoted[m].who = table[m].who
  <2> SUFFICES ASSUME NEW m \in others
               PROVE  /\ demoted[m] \in MemberRow /\ demoted[m] # NoRow /\ demoted[m] # Untouched
                      /\ demoted[m].of = old.in /\ demoted[m].of = table[m].of
                      /\ demoted[m].who = table[m].who
    OBVIOUS
  <2>1. demoted[m] = [table[m] EXCEPT !.role = "other"]  BY <1>5, <1>6, <1>k
  <2> HIDE DEF demoted, others, rows
  <2> QED  BY <1>9, <1>10, <2>1
<1>12. \A m \in rows : /\ named[m] \in MemberRow /\ named[m] # NoRow /\ named[m] # Untouched
                       /\ named[m].of = old.in /\ named[m].of = table[m].of
                       /\ named[m].who = table[m].who /\ named[m].role = "owner"
  <2> SUFFICES ASSUME NEW m \in rows
               PROVE  /\ named[m] \in MemberRow /\ named[m] # NoRow /\ named[m] # Untouched
                      /\ named[m].of = old.in /\ named[m].of = table[m].of
                      /\ named[m].who = table[m].who /\ named[m].role = "owner"
    OBVIOUS
  <2>1. named[m] = [table[m] EXCEPT !.role = "owner"]  BY <1>5, <1>7, <1>k
  <2> HIDE DEF demoted, others, rows, named
  <2> QED  BY <1>9, <1>10, <2>1
\* What is left to show, for what is written (new) and the step that comes next.
<1>13. ASSUME NEW pc \in {"commit", "names"}, NEW new, DrOK(new),
              draft' = [draft EXCEPT ![c] = new],
              NEW call, call = [old EXCEPT !.pc = pc], calls' = [calls EXCEPT ![c] = call],
              \A k \in Workspace \cup Account : new[k] = Untouched,
              \A m \in Membership : new[m] # Untouched =>
                    /\ new[m] # NoRow
                    /\ new[m].of = old.in
                    /\ \/ m \in rows \cup others /\ new[m].who = table[m].who
                       \/ New(m) /\ pc = "names" /\ new[m].who = old.who,
              Keeps(Seen(table, new), old.in)
       PROVE  IInv'
  <2>1. draft'[c] = new /\ DOMAIN draft' = Caller /\ \A d \in Caller : d # c => draft'[d] = draft[d]
    BY <1>13 DEF IInv, Types
  <2>2. /\ call \in CallRecord /\ call.op = "setOwner" /\ call.pc = pc /\ call.in = old.in
        /\ call.who = old.who /\ call.role = "owner" /\ call.old = old.old /\ call.todo = {}
    BY <1>1, <1>2, <1>3, <1>13 DEF CallRecord
  <2>3. call # Nothing  BY <2>2, Nulls
  <2>4. \A m \in rows \cup others : table[m] # NoRow /\ table[m].of = old.in /\ Holds(my, m, {"update"})
    BY <1>4, <1>5
  <2> HIDE DEF rows, others, demoted, named
  <2>5. RowsHeld(table, new, call, my)
    <3> SUFFICES ASSUME NEW m \in Membership, new[m] # Untouched
                 PROVE  /\ table[m] # NoRow => /\ Holds(my, m, {"update"})
                                               /\ new[m].of = table[m].of /\ new[m].who = table[m].who
                        /\ table[m] = NoRow => NewRow(table, new, call, my, m)
                        /\ new[m] # NoRow
      BY DEF RowsHeld
    <3>1. CASE m \in rows \cup others  BY <1>13, <2>4, <3>1 DEF New
    <3>2. CASE m \notin rows \cup others
      <4>1. table[m] = NoRow /\ pc = "names" /\ new[m].of = old.in /\ new[m].who = old.who /\ new[m] # NoRow
        BY <1>13, <3>2 DEF New
      <4>2. Holds(my, old.in, Some)  BY <1>3 DEF Holds, Some
      <4>3. Seen(table, new)[old.in] # NoRow  BY <1>3, <1>13, <1>k DEF Seen
      <4> QED  BY <2>2, <2>3, <4>1, <4>2, <4>3 DEF NewRow
    <3> QED  BY <1>13, <3>1, <3>2
  <2>6. OthersHeldBy(new, call)  BY <1>13 DEF OthersHeldBy
  <2>7. Idle(new, call, my)  BY <1>13, <2>2, <2>3 DEF Idle, Early
  <2>8. AdminOK(table, call, my)  BY <1>3, <1>10, <1>13, <2>2 DEF AdminOK, Administers
  <2>9. /\ SignUpOK(table, new, call) /\ RouteOK(table, new, call) /\ JoinOK(new, call)
        /\ DropOK(table, new, call, my) /\ EraseOK(table, new, call, my)
    BY <2>2 DEF SignUpOK, RouteOK, JoinOK, DropOK, EraseOK
  <2>10. Sure(table, new, call, my)
    <3>1. \A w \in Losses(table, new) : w = old.in  BY <1>13, <2>4 DEF Losses, IsOwner, New
    <3>2. Holds(my, old.in, {"write", "update"})  BY <1>3 DEF Holds
    <3> QED  BY <1>13, <3>1, <3>2 DEF Sure
  <2>11. CallOK(table, new, call, my)
    BY <2>5, <2>6, <2>7, <2>8, <2>9, <2>10 DEF CallOK
  <2>12. /\ \A m \in Membership : m \in call.todo => table[m] # NoRow \/ m \in old.todo
         /\ \A m \in Membership : new[m] # Untouched => table[m] # NoRow \/ New(m)
    BY <1>13, <2>2, <2>4
  <2>13. /\ call \in CallRecord /\ call.op = old.op /\ call.who = old.who /\ call.old = old.old
         /\ calls' = [calls EXCEPT ![c] = call] /\ DrOK(new)
    BY <1>2, <1>13, <2>2
  <2> QED  BY <1>1, <2>1, <2>11, <2>12, <2>13, SteppedUnlocked
<1>14. DrOK(demoted) /\ DrOK(named)
  <2> HIDE DEF rows, others, demoted, named
  <2> QED  BY <1>5, <1>6, <1>7, <1>8, <1>11, <1>12, <1>k DEF DrOK, RowsAt
<1>15. \A k \in Workspace \cup Account : demoted[k] = Untouched /\ named[k] = Untouched
  <2> HIDE DEF rows, others, demoted, named
  <2> QED  BY <1>5, <1>6, <1>7, <1>k, KeyAssumption
<1>16. CASE \E held \in rows :
                /\ draft' = [draft EXCEPT ![c] = IF table[held].role = "owner" THEN demoted ELSE named]
                /\ Goes(c, "commit")
  <2>1. PICK held \in rows :
                /\ draft' = [draft EXCEPT ![c] = IF table[held].role = "owner" THEN demoted ELSE named]
                /\ Goes(c, "commit")
    BY <1>16
  <2>2. PICK call : call = [old EXCEPT !.pc = "commit"]  OBVIOUS
  <2>3. calls' = [calls EXCEPT ![c] = call]  BY <2>1, <2>2 DEF Goes
  <2>4. held \in Membership /\ table[held] # NoRow /\ table[held].of = old.in  BY <1>5
  <2> HIDE DEF rows, others, demoted, named
  <2>5. CASE table[held].role = "owner"
    <3>1. draft' = [draft EXCEPT ![c] = demoted]  BY <2>1, <2>5
    <3>2. \A m \in Membership : demoted[m] # Untouched => m \in others  BY <1>6, <1>k
    <3>3. Keeps(Seen(table, demoted), old.in)
      <4>1. Seen(table, demoted)[held] = table[held]  BY <1>5, <2>4, <3>2, <1>k DEF Seen
      <4> QED  BY <2>4, <2>5, <4>1 DEF Keeps, IsOwner
    <3>4. \A m \in Membership : demoted[m] # Untouched =>
            /\ demoted[m] # NoRow /\ demoted[m].of = old.in
            /\ m \in rows \cup others /\ demoted[m].who = table[m].who
      BY <1>11, <3>2
    <3> QED  BY ZenonT(60), <1>13, <1>14, <1>15, <2>2, <2>3, <3>1, <3>3, <3>4
  <2>6. CASE table[held].role # "owner"
    <3>1. draft' = [draft EXCEPT ![c] = named]  BY <2>1, <2>6
    <3>2. \A m \in Membership : named[m] # Untouched =>
            \/ m \in rows
            \/ m \in others /\ named[m] = demoted[m]
      BY <1>6, <1>7, <1>k
    <3>3. Keeps(Seen(table, named), old.in)
      <4>1. Seen(table, named)[held] = named[held]  BY <1>12, <2>4, <1>k DEF Seen
      <4> QED  BY <1>12, <2>4, <4>1 DEF Keeps, IsOwner
    <3>4. \A m \in Membership : named[m] # Untouched =>
            /\ named[m] # NoRow /\ named[m].of = old.in
            /\ m \in rows \cup others /\ named[m].who = table[m].who
      BY <1>11, <1>12, <3>2
    <3> QED  BY ZenonT(60), <1>13, <1>14, <1>15, <2>2, <2>3, <3>1, <3>3, <3>4
  <2> QED  BY <2>5, <2>6
<1>17. CASE /\ \E m \in Membership :
                    New(m) /\ draft' = [draft EXCEPT ![c] = [demoted EXCEPT ![m] = Row(old)]]
            /\ Goes(c, "names")
  <2>1. PICK m \in Membership :
                New(m) /\ draft' = [draft EXCEPT ![c] = [demoted EXCEPT ![m] = Row(old)]]
    BY <1>17
  <2>2. PICK call : call = [old EXCEPT !.pc = "names"]  OBVIOUS
  <2>3. calls' = [calls EXCEPT ![c] = call]  BY <1>17, <2>2 DEF Goes
  <2>4. PICK row : row = Row(old)  OBVIOUS
  <2>5. row \in MemberRow /\ row.of = old.in /\ row.who = old.who /\ row.role = "owner"
        /\ row # NoRow /\ row # Untouched
    BY <1>3, <1>10, <2>4, Nulls DEF Row, MemberRow
  <2> HIDE DEF rows, others, demoted, named
  <2>6. PICK new : new = [demoted EXCEPT ![m] = row]  OBVIOUS
  <2>7. new[m] = row /\ DOMAIN new = Key /\ \A k \in Key : k # m => new[k] = demoted[k]
    BY <1>8, <1>k, <2>6
  <2>8. draft' = [draft EXCEPT ![c] = new]  BY <2>1, <2>4, <2>6
  <2>9. DrOK(new)
    <3>1. RowsAt(m) = {NoRow} \cup MemberRow  BY DEF RowsAt
    <3> QED  BY <1>14, <2>5, <2>7, <3>1 DEF DrOK
  <2>10. \A k \in Workspace \cup Account : new[k] = Untouched
    BY <1>15, <2>7, <1>k, KeyAssumption
  <2>11. \A n \in Membership : new[n] # Untouched =>
            /\ new[n] # NoRow /\ new[n].of = old.in
            /\ \/ n \in rows \cup others /\ new[n].who = table[n].who
               \/ New(n) /\ new[n].who = old.who
    BY <1>6, <1>11, <2>1, <2>5, <2>7, <1>k
  <2>12. Keeps(Seen(table, new), old.in)
    <3>1. Seen(table, new)[m] = row  BY <2>5, <2>7, <1>k DEF Seen
    <3> QED  BY <2>5, <3>1 DEF Keeps, IsOwner
  <2> QED  BY <1>13, <2>2, <2>3, <2>8, <2>9, <2>10, <2>11, <2>12
<1> QED  BY <1>16, <1>17 DEF GiveOwner

-----------------------------------------------------------------------------
(* The administrators of the instance change, while nobody holds their lock.  *)

LEMMA AccountChanged ==
    ASSUME IInv, NEW a \in Account, NEW row \in AccountRow, table[a] # NoRow,
           \A l \in locks : l.on # RoleLock,
           table' = [table EXCEPT ![a] = row], UNCHANGED <<draft, locks, calls>>,
           \E by \in Account : table'[by] # NoRow /\ table'[by].admin /\ ~table'[by].banned
    PROVE  IInv'
<1>k. Key = Membership \cup Workspace \cup Account  BY DEF Key
<1>1. TabOK(table) /\ DOMAIN table' = Key  BY DEF IInv, Types, TabOK
<1>2. /\ \A m \in Membership : table'[m] = table[m]
      /\ \A w \in Workspace : table'[w] = table[w]
      /\ \A b \in Account : table'[b] # NoRow <=> table[b] # NoRow
      /\ table'[a] = row /\ \A k \in Key : k # a => table'[k] = table[k]
  BY <1>1, <1>k, KeyAssumption, Nulls DEF TabOK
<1>3. TabOK(table')
  <2>1. RowsAt(a) = {NoRow} \cup AccountRow  BY KeyAssumption DEF RowsAt
  <2> QED  BY <1>1, <1>2, <2>1 DEF TabOK
<1>4. LocksAgree' /\ \A d \in Caller : LocksOf(d)' = LocksOf(d)  BY LocksKept DEF IInv
<1>5. Types'  BY <1>3 DEF IInv, Types
<1>6. \A m \in Membership : table[m] # NoRow => table[m].of \in Workspace /\ table[m].who \in Account
  BY <1>1, <1>k DEF TabOK, RowsAt, MemberRow
<1>7. ForeignKeys'  BY <1>2, <1>6 DEF IInv, ForeignKeys
<1>8. SomebodyIsInCharge'
  <2>1. Admins(table') # {}  BY DEF Admins, Accounts
  <2>2. \A w \in Workspace : OwnersOf(w, table') = OwnersOf(w, table)  BY <1>2 DEF OwnersOf, MembersOf
  <2> QED  BY <1>2, <2>1, <2>2 DEF IInv, SomebodyIsInCharge
<1>9. ASSUME NEW d \in Caller PROVE CallOK(table', draft[d], calls[d], LocksOf(d))
  <2> DEFINE dr == draft[d]
             call == calls[d]
             my == LocksOf(d)
  <2>1. CallOK(table, dr, call, my) /\ DrOK(dr) /\ CallT(call)  BY DEF IInv, CallsOK, Types, CallT
  <2>2. ~Holds(my, RoleLock, {"update"})  BY DEF Holds, LocksOf
  <2>3. /\ \A m \in Membership : Seen(table', dr)[m] = Seen(table, dr)[m]
        /\ \A w \in Workspace : Seen(table', dr)[w] = Seen(table, dr)[w]
    BY <1>2, <1>k DEF Seen
  <2> HIDE DEF dr, call, my
  <2>4. RowsHeld(table', dr, call, my)
    <3> SUFFICES ASSUME NEW m \in Membership, dr[m] # Untouched, dr[m] # NoRow,
                        NewRow(table, dr, call, my, m)
                 PROVE  NewRow(table', dr, call, my, m)
      BY <1>2, <2>1 DEF CallOK, RowsHeld
    <3>1. dr[m] \in MemberRow  BY <2>1, <1>k DEF DrOK, RowsAt
    <3>2. call.in \in Workspace /\ call.who \in Account  BY <3>1 DEF NewRow, MemberRow
    <3> QED  BY <1>2, <2>3, <3>2 DEF NewRow
  <2>5. call # Nothing => SignUpOK(table', dr, call)  BY <1>2, <2>1 DEF CallOK, SignUpOK
  <2>6. call # Nothing => RouteOK(table', dr, call)
    <3>1. call # Nothing /\ call.op = "route" => call.member \in Membership
      BY <2>1 DEF CallOK, RouteOK, CallT, CallRecord
    <3> QED  BY <1>2, <2>1, <3>1 DEF CallOK, RouteOK
  <2>7. call # Nothing => AdminOK(table', call, my)
    <3>1. Former(table', call, my) = Former(table, call, my)  BY <1>2 DEF Former
    <3>2. call # Nothing => AdminOK(table, call, my)  BY <2>1 DEF CallOK
    <3> QED  BY <1>2, <3>1, <3>2 DEF AdminOK
  <2>8. call # Nothing => DropOK(table', dr, call, my)  BY <1>2, <2>1 DEF CallOK, DropOK
  <2>9. call # Nothing => EraseOK(table', dr, call, my)  BY <2>1, <2>2 DEF CallOK, EraseOK
  <2>10. call # Nothing => Sure(table', dr, call, my)
    <3>1. Losses(table', dr) = Losses(table, dr)  BY <1>2 DEF Losses
    <3>2. \A w \in Workspace : Keeps(Seen(table', dr), w) <=> Keeps(Seen(table, dr), w)
      BY <2>3 DEF Keeps
    <3>3. Losses(table, dr) \subseteq Workspace  BY DEF Losses
    <3>4. call # Nothing => Sure(table, dr, call, my)  BY <2>1 DEF CallOK
    <3> QED  BY <3>1, <3>2, <3>3, <3>4 DEF Sure
  <2>11. CallOK(table', dr, call, my)
    BY <2>1, <2>4, <2>5, <2>6, <2>7, <2>8, <2>9, <2>10 DEF CallOK
  <2> QED  BY <2>11 DEF dr, call, my
<1>10. CallsOK'
  <2> SUFFICES ASSUME NEW d \in Caller PROVE CallOK(table', draft'[d], calls'[d], LocksOf(d)')
    BY DEF CallsOK
  <2> QED  BY <1>4, <1>9
<1>11. AllApart'
  <2> SUFFICES ASSUME NEW d \in Caller, NEW e \in Caller, d # e
               PROVE  Apart(table', draft[d], calls[d], draft[e], calls[e])
    BY DEF AllApart
  <2>1. Apart(table, draft[d], calls[d], draft[e], calls[e])  BY DEF IInv, AllApart
  <2> QED  BY <2>1 DEF Apart
<1>12. AllFresh'
  <2> SUFFICES ASSUME NEW d \in Caller, NEW e \in Caller PROVE Fresh(table', draft[d], calls[e])
    BY DEF AllFresh
  <2>1. Fresh(table, draft[d], calls[e])  BY DEF IInv, AllFresh
  <2> QED  BY <1>2, <2>1 DEF Fresh
<1> QED  BY <1>4, <1>5, <1>7, <1>8, <1>10, <1>11, <1>12 DEF IInv

LEMMA AdministratorsKeep ==
    ASSUME IInv, NEW by \in Account, NEW a \in Account, NEW given \in BOOLEAN,
           SetInstanceAdmin(by, a, given) \/ SetSuspended(by, a, given)
    PROVE  IInv'
<1>k. Key = Membership \cup Workspace \cup Account  BY DEF Key
<1>1. /\ \A l \in locks : l.on # RoleLock
      /\ table[by] # NoRow /\ table[by].admin /\ ~table[by].banned /\ table[a] # NoRow
      /\ UNCHANGED <<draft, locks, calls>>
  BY DEF SetInstanceAdmin, SetSuspended, MayChange, Admins, Accounts
<1>2. table[a] \in AccountRow /\ DOMAIN table = Key
  BY <1>1, <1>k, KeyAssumption DEF IInv, Types, TabOK, RowsAt
<1>3. CASE SetInstanceAdmin(by, a, given)
  <2>1. PICK row : row = [table[a] EXCEPT !.admin = given]  OBVIOUS
  <2>2. row \in AccountRow /\ row.admin = given /\ row.banned = table[a].banned  BY <1>2, <2>1 DEF AccountRow
  <2>3. table' = [table EXCEPT ![a] = row]  BY <1>3, <2>1 DEF SetInstanceAdmin
  <2>4. given \/ a # by  BY <1>3 DEF SetInstanceAdmin, MayLose
  <2>5. table'[by] # NoRow /\ table'[by].admin /\ ~table'[by].banned
    BY <1>1, <1>2, <1>k, <2>2, <2>3, <2>4, Nulls
  <2> QED  BY <1>1, <2>2, <2>3, <2>5, AccountChanged
<1>4. CASE SetSuspended(by, a, given)
  <2>1. PICK row : row = [table[a] EXCEPT !.banned = given]  OBVIOUS
  <2>2. row \in AccountRow /\ row.banned = given /\ row.admin = table[a].admin  BY <1>2, <2>1 DEF AccountRow
  <2>3. table' = [table EXCEPT ![a] = row]  BY <1>4, <2>1 DEF SetSuspended
  <2>4. ~given \/ a # by  BY <1>4 DEF SetSuspended, MayLose
  <2>5. table'[by] # NoRow /\ table'[by].admin /\ ~table'[by].banned
    BY <1>1, <1>2, <1>k, <2>2, <2>3, <2>4, Nulls
  <2> QED  BY <1>1, <2>2, <2>3, <2>5, AccountChanged
<1> QED  BY <1>3, <1>4

-----------------------------------------------------------------------------
(* The invariant, and what follows from it.                                *)

LEMMA StartsRight == Init => IInv
<1> SUFFICES ASSUME Init PROVE IInv
  OBVIOUS
<1> USE DEF Init
<1>k. Key = Membership \cup Workspace \cup Account  BY DEF Key
<1>1. \A k \in Key : table[k] = NoRow  OBVIOUS
<1>2. \A c \in Caller : /\ calls[c] = Nothing
                        /\ DOMAIN draft[c] = Key
                        /\ \A k \in Key : draft[c][k] = Untouched
  OBVIOUS
<1>3. Types
  <2>1. TabOK(table)  BY <1>1 DEF TabOK, RowsAt
  <2>2. \A c \in Caller : DrOK(draft[c])  BY <1>2 DEF DrOK
  <2> QED  BY <2>1, <2>2 DEF Types
<1>4. LocksAgree  BY DEF LocksAgree
<1>5. ForeignKeys  BY <1>1, <1>k DEF ForeignKeys
<1>6. SomebodyIsInCharge
  BY <1>1, <1>k DEF SomebodyIsInCharge, Accounts
<1>7. CallsOK
  BY <1>2, <1>k DEF CallsOK, CallOK, Idle, RowsHeld, OthersHeldBy, LocksOf
<1>8. AllApart  BY <1>2, <1>k DEF AllApart, Apart
<1>9. AllFresh  BY <1>2 DEF AllFresh, Fresh
<1> QED  BY <1>3, <1>4, <1>5, <1>6, <1>7, <1>8, <1>9 DEF IInv

LEMMA StatementKeeps ==
    ASSUME IInv, NEW c \in Caller, Statement(c)
    PROVE  IInv'
<1>1. CASE HoldRole(c)  BY <1>1, HoldRoleKeeps
<1>2. CASE InsertAccount(c)  BY <1>2, InsertAccountKeeps
<1>3. CASE InsertMember(c)  BY <1>3, InsertMemberKeeps
<1>4. CASE NameWorkspace(c)  BY <1>4, NameWorkspaceKeeps
<1>5. CASE NameAccount(c)  BY <1>5, NameAccountKeeps
<1>6. CASE Write(c)  BY <1>6, WriteKeeps
<1>7. CASE Trigger(c)  BY <1>7, TriggerKeeps
<1>8. CASE HoldWorkspace(c)  BY <1>8, HoldWorkspaceKeeps
<1>9. CASE Delete(c)  BY <1>9, DeleteKeeps
<1>10. CASE ChangeRole(c)  BY <1>10, ChangeRoleKeeps
<1>11. CASE AddMember(c)  BY <1>11, AddMemberKeeps
<1>12. CASE HoldGiven(c)  BY <1>12, HoldGivenKeeps
<1>13. CASE GiveOwner(c)  BY <1>13, GiveOwnerKeeps
<1>14. CASE HoldAccount(c)  BY <1>14, HoldAccountKeeps
<1>15. CASE HoldWorkspaces(c)  BY <1>15, HoldWorkspacesKeeps
<1>16. CASE EraseAccount(c)  BY <1>16, EraseAccountKeeps
<1>17. CASE EraseMemberships(c)  BY <1>17, EraseMembershipsKeeps
<1>18. CASE Commit(c)  BY <1>18, CommitKeeps
<1> QED
  BY <1>1, <1>2, <1>3, <1>4, <1>5, <1>6, <1>7, <1>8, <1>9, <1>10, <1>11, <1>12, <1>13, <1>14,
     <1>15, <1>16, <1>17, <1>18 DEF Statement

LEMMA EveryStepKeeps == IInv /\ [Next]_vars => IInv'
<1> SUFFICES ASSUME IInv, [Next]_vars PROVE IInv'
  OBVIOUS
<1>1. ASSUME NEW c \in Caller, Called(c) PROVE IInv'  BY <1>1, CalledKeeps
<1>2. ASSUME NEW c \in Caller, Statement(c) PROVE IInv'  BY <1>2, StatementKeeps
<1>3. ASSUME NEW c \in Caller, Visit(c) PROVE IInv'  BY <1>3, VisitKeeps
<1>4. ASSUME NEW by \in Account, NEW a \in Account, NEW given \in BOOLEAN,
             SetInstanceAdmin(by, a, given) \/ SetSuspended(by, a, given)
      PROVE  IInv'
  BY <1>4, AdministratorsKeep
<1>5. ASSUME NEW c \in Caller, Victim(c) \/ Lost(c) PROVE IInv'
  <2>1. Rollback(c)  BY <1>5 DEF Victim, Lost
  <2> QED  BY <2>1, RollbackKeeps
<1>6. CASE UNCHANGED vars
  <2>1. table' = table /\ draft' = draft /\ locks' = locks /\ calls' = calls  BY <1>6 DEF vars
  <2>2. Types' /\ LocksAgree' /\ ForeignKeys'
    BY <2>1 DEF IInv, Types, LocksAgree, ForeignKeys
  <2>3. SomebodyIsInCharge'
    BY <2>1 DEF IInv, SomebodyIsInCharge, Accounts, Admins, OwnersOf, MembersOf
  <2>4. CallsOK' /\ AllApart' /\ AllFresh'
    BY <2>1 DEF IInv, CallsOK, AllApart, AllFresh, LocksOf
  <2> QED  BY <2>2, <2>3, <2>4 DEF IInv
<1> QED  BY <1>1, <1>2, <1>3, <1>4, <1>5, <1>6 DEF Next

\* IInv holds in every state, whatever the callers do, together or alone, and
\* whoever of them is lost or ended by PostgreSQL.
THEOREM Invariance == Spec => []IInv
<1>1. Init => IInv  BY StartsRight
<1>2. IInv /\ [Next]_vars => IInv'  BY EveryStepKeeps
<1> QED  BY <1>1, <1>2, PTL DEF Spec

\* Every workspace keeps an owner, and an instance with accounts an administrator
\* who is not suspended, however the transactions of the console, the routes of
\* better-auth and the triggers come between each other.
THEOREM SomebodyIsAlwaysInCharge == Spec => []SomebodyIsInCharge
<1>1. IInv => SomebodyIsInCharge  BY DEF IInv
<1> QED  BY <1>1, Invariance, PTL

\* The count of the owners that deleteAccount makes holds until it commits: what it
\* holds is enough.
THEOREM TheCountAlwaysHolds == Spec => []TheCountHolds
<1>1. IInv => TheCountHolds
  <2> SUFFICES ASSUME IInv, NEW c \in Caller, calls[c] # Nothing, calls[c].op = "erase",
                      calls[c].pc \in {"erased", "commit"}
               PROVE  OwnedAlone(calls[c].who) = {}
    BY DEF TheCountHolds
  <2> DEFINE a == calls[c].who
  <2>1. OwnedAloneIn(table, a) = {}
    BY DEF IInv, CallsOK, CallOK, EraseOK
  <2>2. ASSUME NEW w \in OwnedAlone(a) PROVE w \in OwnedAloneIn(table, a)
    <3>1. w \in Workspace /\ OwnersOf(w, table) # {}
          /\ OwnersOf(w, table) \subseteq MembershipsOf(a, table)
      BY <2>2 DEF OwnedAlone
    <3>2. \A m \in Membership : IsOwner(table[m], w) <=> m \in OwnersOf(w, table)
      BY DEF IsOwner, OwnersOf, MembersOf
    <3>3. Keeps(table, w)  BY <3>1, <3>2 DEF Keeps, OwnersOf, MembersOf
    <3>4. \A m \in Membership : IsOwner(table[m], w) => table[m].who = a
      BY <3>1, <3>2 DEF MembershipsOf
    <3> QED  BY <3>1, <3>3, <3>4 DEF OwnedAloneIn
  <2> QED  BY <2>1, <2>2
<1> QED  BY <1>1, Invariance, PTL

\* The rows, what waits, and the locks keep their types; a member is of a workspace
\* and of an account that exist; and a call that ended left nothing behind.
THEOREM TypeCorrect == Spec => []TypeOK
<1>1. IInv => TypeOK
  <2> SUFFICES ASSUME IInv PROVE TypeOK
    OBVIOUS
  <2>1. /\ DOMAIN table = Key
        /\ \A k \in Key : table[k] \in RowsAt(k)
        /\ \A c \in Caller, k \in Key : draft[c][k] \in RowsAt(k) \cup {Untouched}
        /\ locks \subseteq [by : Caller, on : Key \cup {RoleLock}, how : {"share", "write", "update"}]
        /\ calls \in [Caller -> {Nothing} \cup CallRecord]
    BY DEF IInv, Types, TabOK, DrOK, Some
  <2>2. \A m \in Membership :
            table[m] # NoRow => table[table[m].of] # NoRow /\ table[table[m].who] # NoRow
    BY DEF IInv, ForeignKeys
  <2>3. ASSUME NEW c \in Caller, calls[c] = Nothing
        PROVE  /\ \A l \in locks : l.by # c
               /\ \A k \in Key : draft[c][k] = Untouched
    BY <2>3 DEF IInv, CallsOK, CallOK, Idle, LocksOf
  <2> QED  BY <2>1, <2>2, <2>3 DEF TypeOK
<1> QED  BY <1>1, Invariance, PTL

-----------------------------------------------------------------------------
(* What a call holds while it waits: a strengthening of IInv for circles   *)
(* of waits.                                                               *)

HoldsNone(my, keys) == \A k \in keys : ~Holds(my, k, Some)

SignUpWaits(call, my) ==
    call.op = "signUp" =>
        /\ HoldsNone(my, Key)
        /\ call.pc = "role" => HoldsNone(my, {RoleLock})

RouteWaits(tab, call, my) ==
    call.op = "route" =>
        /\ call.pc = "write" => HoldsNone(my, Membership)
        /\ HoldsNone(my, Account \cup {RoleLock})
        /\ \A w \in Workspace : Holds(my, w, Some) => call.pc = "commit" /\ w = call.in
        /\ \A m \in Membership : Holds(my, m, Some) => tab[m] # NoRow

JoinWaits(call, my) ==
    call.op \in {"join", "create"} =>
        /\ call.pc = "role" => HoldsNone(my, Key \cup {RoleLock})
        /\ HoldsNone(my, Membership)
        /\ \A w \in Workspace : Holds(my, w, Some) => w = call.in
        /\ \A a \in Account : Holds(my, a, Some) =>
                call.pc = "commit" /\ ~Holds(my, a, {"write", "update"})

\* The calls that hold the members of a workspace, and then the workspace.
Manages == Administers \cup {"drop", "dropAsAdmin"}

TakesMembers(call, my) == call.pc = "workspace" /\ ~Holds(my, call.in, Some)

ManageWaits(tab, call, my) ==
    call.op \in Manages =>
        /\ call.pc = "role" => HoldsNone(my, Key \cup {RoleLock}) /\ call.todo = {}
        /\ call.op # "drop" /\ call.pc # "role" => Holds(my, RoleLock, {"update"})
        /\ call.pc = "delete" => call.todo = {} /\ Holds(my, call.in, {"write", "update"})
        /\ \A a \in Account : Holds(my, a, Some) =>
                call.pc = "commit" /\ call.todo = {} /\ ~Holds(my, a, {"write", "update"})
        /\ \A w \in Workspace : Holds(my, w, Some) =>
                /\ w = call.in /\ Holds(my, w, {"write", "update"})
                /\ call.pc = "workspace" => call.op = "drop" /\ Holds(my, w, {"update"})
        /\ \A m \in Membership : Holds(my, m, Some) => tab[m] # NoRow
        /\ \A m \in call.todo : m \in Membership /\ (tab[m] # NoRow => tab[m].of = call.in)
        \* The members of before are held, or are about to be, before the workspace is ...
        /\ call.pc # "role" =>
            \A m \in call.old : tab[m] # NoRow /\ tab[m].of = call.in =>
                Holds(my, m, {"update"}) \/ (m \in call.todo /\ TakesMembers(call, my))
        \* ... in the order of their ids.
        /\ TakesMembers(call, my) =>
            \A m \in Membership, k \in call.todo : Holds(my, m, Some) => m < k

EraseWaits(tab, call, my) ==
    call.op = "erase" =>
        /\ call.pc = "role" => HoldsNone(my, Key \cup {RoleLock})
        /\ call.pc = "user" => HoldsNone(my, Key)
        /\ \A w \in Workspace : Holds(my, w, Some) =>
                call.pc # "workspaces" /\ Holds(my, w, {"write", "update"})
        /\ \A m \in Membership : Holds(my, m, Some) => tab[m] # NoRow
        /\ call.pc # "sole" =>
            \A m \in call.todo : m \in Membership /\ (tab[m] # NoRow => tab[m].who = call.who)
        /\ call.pc = "sole" =>
            \A w \in call.todo :
                /\ w \in Workspace
                /\ \E m \in Membership :
                        Holds(my, m, {"update"}) /\ tab[m] # NoRow /\ tab[m].of = w
        /\ call.pc \notin {"role", "user"} =>
            \A m \in call.old : tab[m] # NoRow /\ tab[m].who = call.who =>
                Holds(my, m, {"update"}) \/ (m \in call.todo /\ call.pc = "workspaces")
        /\ call.pc = "workspaces" =>
            \A m \in Membership, k \in call.todo : Holds(my, m, Some) => m < k

WaitOK(tab, call, my) ==
    call # Nothing =>
        /\ SignUpWaits(call, my) /\ RouteWaits(tab, call, my) /\ JoinWaits(call, my)
        /\ ManageWaits(tab, call, my) /\ EraseWaits(tab, call, my)

\* A workspace that is being made is named by no other call.
NamesNew(call, other) ==
    call # Nothing /\ call.op = "create" =>
        /\ table[call.in] = NoRow
        /\ other # Nothing /\ other.op \notin {"signUp", "erase"} => other.in # call.in

WaitInv ==
    /\ \A c \in Caller : WaitOK(table, calls[c], LocksOf(c))
    /\ \A c, d \in Caller : c # d => NamesNew(calls[c], calls[d])

-----------------------------------------------------------------------------
(* A circle of waits.                                                      *)

\* c wants what d holds.
Blocks(d, c, want) ==
    /\ c # d /\ want \in Wanted(calls[c])
    /\ Holds(LocksOf(d), want.on, Some)
    /\ want.how = "share" => Holds(LocksOf(d), want.on, {"update"})

LEMMA WaitFacts ==
    ASSUME IInv, WaitInv, NEW c \in Caller, calls[c] # Nothing
    PROVE  /\ SignUpWaits(calls[c], LocksOf(c)) /\ RouteWaits(table, calls[c], LocksOf(c))
           /\ JoinWaits(calls[c], LocksOf(c))
           /\ ManageWaits(table, calls[c], LocksOf(c)) /\ EraseWaits(table, calls[c], LocksOf(c))
BY DEF WaitInv, WaitOK

\* An insertion waits for nobody but an acceptance, unless it is one.
LEMMA InsertionsWaitForJoins ==
    ASSUME IInv, WaitInv, NEW c \in Caller, Inserts(calls[c]), calls[c].op # "join",
           NEW d \in InTheWay(c)
    PROVE  calls[d].op = "join"
<1> DEFINE call == calls[c]
           other == calls[d]
<1>k. Key = Membership \cup Workspace \cup Account  BY DEF Key
<1>1. d \in Caller /\ d # c /\ other # Nothing /\ call # Nothing  BY DEF InTheWay, Inserts
<1>2. \/ call.op = "create"
      \/ /\ call.op \in {"add", "setOwner"} /\ call.who \in Account
         /\ RowsOf(call, {call.who}) = {} /\ Holds(LocksOf(c), call.in, {"update"})
  <2>1. call \in CallRecord /\ JoinOK(draft[c], call) /\ AdminOK(table, call, LocksOf(c))
        /\ SignUpOK(table, draft[c], call) /\ RouteOK(table, draft[c], call)
        /\ DropOK(table, draft[c], call, LocksOf(c)) /\ EraseOK(table, draft[c], call, LocksOf(c))
    BY <1>1, OpFacts
  <2>2. CASE call.pc = "insert"
    BY <2>1, <2>2, <1>1 DEF CallRecord, SignUpOK, RouteOK, AdminOK, DropOK, EraseOK, Administers, Inserts
  <2>3. CASE call.pc \in {"add", "give"}
    BY <2>1, <2>3 DEF CallRecord, SignUpOK, RouteOK, JoinOK, AdminOK, DropOK, EraseOK, Administers,
                      Inserts
  <2> QED  BY <2>2, <2>3 DEF Inserts
<1>3. /\ NamesNew(call, other) /\ NamesNew(other, call)  BY <1>1 DEF WaitInv
<1>4. ASSUME other.pc = "in", other.in = call.in PROVE other.op = "join"
  <2>1. other.op \in {"join", "create"}
    BY <1>1, <1>4, OpFacts
       DEF CallRecord, SignUpOK, RouteOK, AdminOK, DropOK, EraseOK, Administers
  <2> QED  BY <2>1, <1>1, <1>2, <1>3, <1>4 DEF NamesNew
<1>5. ASSUME NEW m \in Membership, draft[d][m] # Untouched,
             NEW row \in {table[m], draft[d][m]} \ {NoRow}, row.of = call.in, row.who = call.who
      PROVE  FALSE
  <2>1. RowsHeld(table, draft[d], other, LocksOf(d))  BY <1>1, CallFacts DEF CallOK
  <2>2. CASE table[m] # NoRow
    <3>1. table[m].of = call.in /\ table[m].who = call.who  BY <1>5, <2>1, <2>2 DEF RowsHeld
    <3>2. table[call.in] # NoRow  BY <2>2, <3>1 DEF IInv, ForeignKeys
    <3>3. call.op # "create"  BY <1>1, <1>3, <3>2 DEF NamesNew
    <3>4. m \in RowsOf(call, {call.who})  BY <2>2, <3>1 DEF RowsOf, MembersOf
    <3> QED  BY <1>2, <3>3, <3>4
  <2>3. CASE table[m] = NoRow
    <3>1. NewRow(table, draft[d], other, LocksOf(d), m) /\ row = draft[d][m]
      BY <1>5, <2>1, <2>3 DEF RowsHeld
    <3>2. other.in = call.in /\ Holds(LocksOf(d), call.in, Some)  BY <1>5, <3>1 DEF NewRow
    <3>3. other.op \notin {"signUp", "erase"}
      <4>1. SignUpOK(table, draft[d], other) /\ EraseOK(table, draft[d], other, LocksOf(d))
        BY <1>1, OpFacts
      <4> QED  BY <4>1, <1>5, <3>1 DEF SignUpOK, EraseOK
    <3>4. call.op # "create"  BY <1>1, <1>3, <3>2, <3>3 DEF NamesNew
    <3>5. Holds(LocksOf(c), call.in, {"update"})  BY <1>2, <3>4
    <3> QED  BY <1>1, <3>2, <3>5, HoldsTogether DEF IInv, Types
  <2> QED  BY <2>2, <2>3
<1> QED  BY <1>4, <1>5 DEF InTheWay

LEMMA WaitsAreForLocks ==
    ASSUME IInv, WaitInv, NEW c \in Caller, NEW d \in Caller, WaitsFor(c, d),
           calls[c].op # "join", calls[d].op # "join"
    PROVE  calls[c] # Nothing /\ \E want \in Wanted(calls[c]) : Blocks(d, c, want)
<1>1. ~(Inserts(calls[c]) /\ d \in InTheWay(c))  BY InsertionsWaitForJoins
<1>2. PICK want \in Wanted(calls[c]), l \in locks :
        l.by = d /\ d # c /\ l.on = want.on /\ ~Compatible(l.how, want.how)
  BY <1>1 DEF WaitsFor
<1>3. calls[c] # Nothing  BY <1>2 DEF Wanted
<1>4. l \in LocksOf(d) /\ l.how \in Some  BY <1>2 DEF LocksOf, IInv, Types
<1>5. Holds(LocksOf(d), want.on, Some)  BY <1>2, <1>4 DEF Holds
<1>6. want.how = "share" => Holds(LocksOf(d), want.on, {"update"})
  BY <1>2, <1>4 DEF Holds, Some, Compatible
<1> QED  BY <1>2, <1>3, <1>5, <1>6 DEF Blocks

\* What a call waits for, by what the lock is on.
LEMMA WantedFacts ==
    ASSUME IInv, WaitInv, NEW c \in Caller, calls[c] # Nothing, NEW want \in Wanted(calls[c])
    PROVE  /\ want.on \in Key \cup {RoleLock}
           /\ want.on = RoleLock => calls[c].pc = "role"
           /\ want.on \in Account =>
                /\ calls[c].todo = {}
                /\ \/ calls[c].pc = "names" /\ want.how = "share"
                   \/ calls[c].pc = "user"
           /\ want.on \in Workspace =>
                \/ /\ calls[c].op \notin {"signUp", "erase"} /\ want.on = calls[c].in
                   /\ calls[c].op \in Manages => calls[c].pc \in {"workspace", "delete"}
                \/ calls[c].op = "erase" /\ calls[c].pc = "sole" /\ want.on \in calls[c].todo
           /\ want.on \in Membership =>
                \/ /\ want.on \in calls[c].todo
                   /\ calls[c].does = "hold" => want.on = Min(calls[c].todo)
                \/ calls[c].op = "route" /\ calls[c].pc = "write"
<1> DEFINE call == calls[c]
<1>k. /\ Key = Membership \cup Workspace \cup Account
      /\ Membership \cap Workspace = {} /\ Account \cap (Membership \cup Workspace) = {}
      /\ RoleLock \notin Key
  BY KeyAssumption DEF Key
<1>1. call \in CallRecord /\ JoinOK(draft[c], call) /\ AdminOK(table, call, LocksOf(c))
      /\ SignUpOK(table, draft[c], call) /\ RouteOK(table, draft[c], call)
      /\ DropOK(table, draft[c], call, LocksOf(c)) /\ EraseOK(table, draft[c], call, LocksOf(c))
  BY OpFacts
<1>2. CASE call.todo # {}
  <2>1. want.on \in call.todo /\ (call.does = "hold" => want.on = Min(call.todo))
        /\ call.todo \subseteq Membership \cup Workspace
    <3>1. PICK k \in NextRows(call) : want = [on |-> k, how |-> "update"]  BY <1>2 DEF Wanted
    <3>2. want.on = k  BY <3>1
    <3>3. k \in call.todo /\ call.todo \subseteq Membership \cup Workspace  BY <3>1, NextIsInTodo
    <3>4. call.does = "hold" => k = Min(call.todo)  BY <1>2, <3>1 DEF NextRows
    <3> QED  BY <3>2, <3>3, <3>4
  <2>2. want.on \in Workspace => call.op = "erase" /\ call.pc = "sole"
    <3>1. call.op \in Manages \cup {"erase"}
      BY <1>1, <1>2 DEF CallRecord, SignUpOK, RouteOK, JoinOK, Manages, Administers
    <3>2. ManageWaits(table, call, LocksOf(c)) /\ EraseWaits(table, call, LocksOf(c))  BY WaitFacts
    <3> QED  BY <2>1, <3>1, <3>2, <1>k DEF ManageWaits, EraseWaits
  <2> QED  BY <2>1, <2>2, <1>k
<1>3. CASE call.todo = {}
  <2>1. CASE call.pc = "role"
    <3>1. want.on = RoleLock  BY <1>3, <2>1 DEF Wanted
    <3> QED  BY <3>1, <2>1, <1>k
  <2>2. CASE call.pc = "write"
    <3>1. call.op = "route"
      BY <1>1, <2>2 DEF CallRecord, SignUpOK, JoinOK, AdminOK, DropOK, EraseOK, Administers
    <3>2. want.on = call.member /\ call.member \in Membership
      BY <1>1, <1>3, <2>2, <3>1 DEF Wanted, RouteOK, CallRecord
    <3> QED  BY <3>1, <3>2, <2>2, <1>k
  <2>3. CASE call.pc \in {"trigger", "workspace", "delete", "in"}
    <3>1. want.on = call.in  BY <1>3, <2>3 DEF Wanted
    <3>2. call.op \notin {"signUp", "erase"} /\ call.in \in Workspace
          /\ (call.op \in Manages => call.pc \in {"workspace", "delete"})
      BY <1>1, <2>3
         DEF CallRecord, SignUpOK, RouteOK, JoinOK, AdminOK, DropOK, EraseOK, Manages, Administers
    <3> QED  BY <3>1, <3>2, <1>k
  <2>4. CASE call.pc \in {"names", "user"}
    <3>1. want.on = call.who /\ (call.pc = "names" => want.how = "share")  BY <1>3, <2>4 DEF Wanted
    <3>2. call.who \in Account
      BY <1>1, <2>4
         DEF CallRecord, SignUpOK, RouteOK, JoinOK, AdminOK, DropOK, EraseOK, Administers
    <3> QED  BY <3>1, <3>2, <2>4, <1>3, <1>k
  <2>5. CASE call.pc \notin {"role", "write", "trigger", "workspace", "delete", "in", "names", "user"}
    BY <1>3, <2>5 DEF Wanted
  <2> QED  BY <2>1, <2>2, <2>3, <2>4, <2>5
<1> QED  BY <1>2, <1>3

\* Who waits for a member of before has not held the members of before.
LEMMA MemberWaits ==
    ASSUME IInv, WaitInv, NEW c \in Caller, NEW d \in Caller, calls[c] # Nothing, calls[d] # Nothing,
           NEW want, Blocks(d, c, want), want.on \in Membership \cap calls[c].old
    PROVE  \/ calls[c].op = "route" /\ calls[c].pc = "write"
           \/ /\ want.on = Min(calls[c].todo) /\ want.on \in calls[c].todo
              /\ \/ calls[c].op \in Manages /\ TakesMembers(calls[c], LocksOf(c))
                 \/ calls[c].op = "erase" /\ calls[c].pc = "workspaces"
<1> DEFINE call == calls[c]
           m == want.on
<1>1. /\ SignUpWaits(calls[d], LocksOf(d)) /\ RouteWaits(table, calls[d], LocksOf(d))
      /\ JoinWaits(calls[d], LocksOf(d))
      /\ ManageWaits(table, calls[d], LocksOf(d)) /\ EraseWaits(table, calls[d], LocksOf(d))
  BY WaitFacts
<1>2. table[m] # NoRow
  <2>1. Holds(LocksOf(d), m, Some) /\ m \in Key  BY DEF Blocks, Key
  <2>2. calls[d] \in CallRecord  BY CallFacts
  <2> QED
    BY <1>1, <2>1, <2>2
       DEF SignUpWaits, RouteWaits, JoinWaits, ManageWaits, EraseWaits, HoldsNone, CallRecord, Manages,
           Administers
<1>3. ~Holds(LocksOf(c), m, {"update"})
  BY HoldsTogether DEF Blocks, IInv, Types
<1>4. CASE call.op = "route" /\ call.pc = "write"  BY <1>4
<1>5. CASE ~(call.op = "route" /\ call.pc = "write")
  <2>1. m \in call.todo /\ (call.does = "hold" => m = Min(call.todo))
    BY <1>5, WantedFacts DEF Blocks
  <2>2. call \in CallRecord /\ SignUpOK(table, draft[c], call) /\ RouteOK(table, draft[c], call)
        /\ JoinOK(draft[c], call) /\ EraseOK(table, draft[c], call, LocksOf(c))
        /\ AdminOK(table, call, LocksOf(c)) /\ DropOK(table, draft[c], call, LocksOf(c))
    BY OpFacts
  <2>3. call.op \in Manages \cup {"erase"}
    BY <2>1, <2>2 DEF CallRecord, SignUpOK, RouteOK, JoinOK, Manages, Administers
  <2>4. ManageWaits(table, call, LocksOf(c)) /\ EraseWaits(table, call, LocksOf(c))  BY WaitFacts
  <2>5. call.pc \in Early => call.does = "hold"  BY CallFacts DEF CallOK, Idle
  <2>6. CASE call.op \in Manages
    <3>1. call.pc # "role" /\ table[m].of = call.in  BY <1>2, <2>1, <2>4, <2>6 DEF ManageWaits
    <3>2. TakesMembers(call, LocksOf(c))  BY <1>2, <1>3, <2>4, <2>6, <3>1 DEF ManageWaits
    <3> QED  BY <2>1, <2>5, <2>6, <3>2 DEF TakesMembers, Early
  <2>7. CASE call.op = "erase"
    <3>1. call.pc # "sole"  BY <2>1, <2>4, <2>7, KeyAssumption DEF EraseWaits
    <3>2. table[m].who = call.who /\ call.pc \notin {"role", "user"}
      BY <1>2, <2>1, <2>2, <2>4, <2>7, <3>1 DEF EraseWaits, EraseOK
    <3>3. call.pc = "workspaces"  BY <1>2, <1>3, <2>4, <2>7, <3>2 DEF EraseWaits
    <3> QED  BY <2>1, <2>5, <2>7, <3>3 DEF Early
  <2> QED  BY <2>3, <2>6, <2>7
<1> QED  BY <1>4, <1>5

\* Everybody in the circle waits for an old member and holds one: there is no smallest.
LEMMA NoCircleOfOldMembers ==
    ASSUME IInv, WaitInv, NEW circle \in SUBSET Caller, circle # {},
           \A c \in circle :
                /\ calls[c] # Nothing /\ calls[c].op # "join"
                /\ \A want \in Wanted(calls[c]) : want.on \in Membership => want.on \in calls[c].old
                /\ \E d \in circle, want \in Wanted(calls[c]) : Blocks(d, c, want)
                /\ \E b \in circle : \E want \in Wanted(calls[b]) : Blocks(c, b, want)
    PROVE  FALSE
<1>k. /\ Key = Membership \cup Workspace \cup Account
      /\ Membership \cap Workspace = {} /\ Account \cap (Membership \cup Workspace) = {}
      /\ RoleLock \notin Key
  BY KeyAssumption DEF Key
<1>o. ASSUME NEW c \in circle
      PROVE  /\ calls[c] \in CallRecord /\ JoinOK(draft[c], calls[c])
             /\ AdminOK(table, calls[c], LocksOf(c))
             /\ SignUpOK(table, draft[c], calls[c]) /\ RouteOK(table, draft[c], calls[c])
             /\ DropOK(table, draft[c], calls[c], LocksOf(c))
             /\ EraseOK(table, draft[c], calls[c], LocksOf(c))
             /\ SignUpWaits(calls[c], LocksOf(c)) /\ RouteWaits(table, calls[c], LocksOf(c))
             /\ JoinWaits(calls[c], LocksOf(c))
             /\ ManageWaits(table, calls[c], LocksOf(c)) /\ EraseWaits(table, calls[c], LocksOf(c))
  BY OpFacts, WaitFacts
<1>h. ASSUME NEW c \in circle, NEW d \in circle, NEW want, Blocks(d, c, want)
      PROVE  /\ c # d /\ want \in Wanted(calls[c]) /\ want.on \in Key \cup {RoleLock}
             /\ Holds(LocksOf(d), want.on, Some)
  BY <1>h, WantedFacts DEF Blocks
\* A call that waits for the role holds nothing that anybody waits for, so nobody does.
<1>1. ASSUME NEW c \in circle PROVE calls[c].pc # "role"
  <2> SUFFICES ASSUME calls[c].pc = "role" PROVE FALSE  OBVIOUS
  <2>1. HoldsNone(LocksOf(c), Key \cup {RoleLock})
    BY ZenonT(60), <1>o
       DEF CallRecord, SignUpWaits, RouteOK, JoinWaits, ManageWaits, EraseWaits, HoldsNone, Manages,
           Administers
  <2>2. PICK b \in circle : \E want \in Wanted(calls[b]) : Blocks(c, b, want)  OBVIOUS
  <2>3. PICK want : Blocks(c, b, want)  BY <2>2
  <2> QED  BY <2>1, <2>3, <1>h DEF HoldsNone
<1>2. ASSUME NEW c \in circle, NEW d \in circle, NEW want, Blocks(d, c, want)
      PROVE  want.on # RoleLock
  BY <1>2, <1>1, WantedFacts DEF Blocks
\* Who has all its locks waits for nothing.
<1>3. ASSUME NEW c \in circle, calls[c].pc = "commit", calls[c].todo = {} PROVE FALSE
  <2>1. Wanted(calls[c]) = {}  BY <1>3 DEF Wanted
  <2> QED  BY <2>1
<1>4. ASSUME NEW c \in circle PROVE calls[c].op \notin {"signUp", "create"}
  <2> SUFFICES ASSUME calls[c].op \in {"signUp", "create"} PROVE FALSE  OBVIOUS
  <2>1. PICK b \in circle : \E want \in Wanted(calls[b]) : Blocks(c, b, want)  OBVIOUS
  <2>2. PICK want : Blocks(c, b, want)  BY <2>1
  <2>3. b # c /\ want.on \in Key /\ Holds(LocksOf(c), want.on, Some)  BY <2>2, <1>h, <1>2
  <2>4. calls[c].op = "create"  BY <2>3, <1>o DEF SignUpWaits, HoldsNone
  <2>5. want.on \in Workspace /\ want.on = calls[c].in
    BY <2>3, <2>4, <1>o, <1>k, <1>3 DEF JoinWaits, HoldsNone, JoinOK
  <2>6. NamesNew(calls[c], calls[b])  BY <2>3 DEF WaitInv
  <2>7. calls[b].op = "erase" /\ calls[b].pc = "sole" /\ want.on \in calls[b].todo
    BY <2>2, <2>4, <2>5, <2>6, WantedFacts DEF NamesNew, Blocks
  <2>8. table[want.on] # NoRow
    <3>1. EraseWaits(table, calls[b], LocksOf(b))  BY <1>o
    <3>2. PICK m \in Membership : table[m] # NoRow /\ table[m].of = want.on
      BY <2>7, <3>1 DEF EraseWaits
    <3> QED  BY <3>2 DEF IInv, ForeignKeys
  <2> QED  BY <2>4, <2>5, <2>6, <2>8 DEF NamesNew
\* An account is held by a deletion alone, which waits for no other holder of the role.
<1>5. ASSUME NEW c \in circle, NEW d \in circle, NEW want, Blocks(d, c, want)
      PROVE  want.on \notin Account
  <2> SUFFICES ASSUME want.on \in Account PROVE FALSE  OBVIOUS
  <2>1. /\ c # d /\ Holds(LocksOf(d), want.on, Some)
        /\ calls[c].pc \in {"names", "user"}
    BY <1>5, WantedFacts DEF Blocks
  <2>2. calls[c].op \in {"add", "setOwner", "erase"}
    BY <2>1, <1>o, <1>4
       DEF CallRecord, RouteOK, AdminOK, DropOK, EraseOK, Administers
  <2>3. Holds(LocksOf(c), RoleLock, {"update"})
    BY <2>1, <2>2, <1>o DEF ManageWaits, EraseOK, Manages, Administers
  <2>4. calls[d].op = "erase"
    <3>1. calls[d].op \in Manages \cup {"route", "erase"}
      BY <1>o, <1>4 DEF CallRecord, Manages, Administers
    <3>2. calls[d].op # "route"  BY <2>1, <1>o DEF RouteWaits, HoldsNone
    <3>3. calls[d].op \notin Manages  BY <2>1, <1>o, <1>3 DEF ManageWaits
    <3> QED  BY <3>1, <3>2, <3>3
  <2>5. Holds(LocksOf(d), RoleLock, {"update"})  BY <2>4, <1>o, <1>1 DEF EraseOK
  <2>6. Holds(LocksOf(d), RoleLock, Some)  BY <2>5 DEF Holds, Some
  <2> QED  BY <2>1, <2>3, <2>6, HoldsTogether DEF IInv, Types
<1>6. ASSUME NEW c \in circle, NEW d \in circle, NEW want, Blocks(d, c, want), want.on \in Membership
      PROVE  \/ calls[c].op = "route" /\ calls[c].pc = "write"
             \/ /\ want.on = Min(calls[c].todo) /\ want.on \in calls[c].todo
                /\ \/ calls[c].op \in Manages /\ TakesMembers(calls[c], LocksOf(c))
                   \/ calls[c].op = "erase" /\ calls[c].pc = "workspaces"
  <2>1. want.on \in Membership \cap calls[c].old  BY <1>6, <1>h
  <2> QED  BY <1>6, <2>1, MemberWaits
\* Who waits for a workspace waits for a deletion of an account that waits for another.
<1>7. ASSUME NEW c \in circle, NEW d \in circle, NEW want, Blocks(d, c, want), want.on \in Workspace
      PROVE  /\ calls[d].op = "erase" /\ calls[d].pc # "role"
             /\ \E e \in circle : \E other : Blocks(e, d, other) /\ other.on \in Workspace
  <2>1. Holds(LocksOf(d), want.on, Some)  BY <1>7, <1>h
  <2>2. PICK e \in circle, other \in Wanted(calls[d]) : Blocks(e, d, other)  OBVIOUS
  <2>3. /\ d # e /\ Holds(LocksOf(e), other.on, Some)
        /\ other.on \in Membership \/ other.on \in Workspace
    BY <2>2, <1>h, <1>2, <1>5, <1>k
  <2>4. calls[d].op \in Manages \cup {"route", "erase"} /\ calls[e].op \in Manages \cup {"route", "erase"}
    BY <1>o, <1>4 DEF CallRecord, Manages, Administers
  <2>5. calls[d].op # "route"
    BY <1>7, <2>1, <1>o, <1>3 DEF RouteWaits, RouteOK
  <2>6. calls[d].op \notin Manages
    <3> SUFFICES ASSUME calls[d].op \in Manages PROVE FALSE  OBVIOUS
    <3>1. /\ want.on = calls[d].in /\ Holds(LocksOf(d), want.on, {"write", "update"})
          /\ calls[d].pc = "workspace" => Holds(LocksOf(d), want.on, {"update"})
      BY <1>7, <2>1, <1>o DEF ManageWaits
    <3>2. ~TakesMembers(calls[d], LocksOf(d))  BY <2>1, <3>1 DEF TakesMembers
    <3>3. other.on \notin Membership
      BY <3>2, <2>2, <1>6 DEF Manages, Administers
    <3>4. other.on = want.on /\ calls[d].pc \in {"workspace", "delete"}
      BY <2>3, <2>2, <3>1, <3>3, WantedFacts DEF Manages, Administers
    <3>5. ~Holds(LocksOf(e), want.on, {"write", "update"})
      BY <2>3, <3>1, HoldsTogether DEF IInv, Types
    <3>6. calls[e].op = "route"
      BY <1>7, <2>3, <2>4, <3>4, <3>5, <1>o DEF ManageWaits, EraseWaits
    <3> QED  BY <1>7, <2>3, <3>4, <3>6, <1>o, <1>3 DEF RouteWaits, RouteOK
  <2>7. calls[d].op = "erase" /\ calls[d].pc # "workspaces"
    BY <1>7, <2>1, <2>4, <2>5, <2>6, <1>o DEF EraseWaits
  <2>8. other.on \notin Membership  BY <2>7, <2>2, <1>6 DEF Manages, Administers
  <2> QED  BY <2>2, <2>3, <2>7, <2>8, <1>1
<1>8. ASSUME NEW c \in circle, NEW d \in circle, NEW want, Blocks(d, c, want)
      PROVE  want.on \in Membership
  <2> SUFFICES ASSUME want.on \in Workspace PROVE FALSE  BY <1>8, <1>h, <1>2, <1>5, <1>k
  <2>1. calls[d].op = "erase" /\ calls[d].pc # "role"  BY <1>8, <1>7
  <2>2. PICK e \in circle : \E other : Blocks(e, d, other) /\ other.on \in Workspace  BY <1>8, <1>7
  <2>3. calls[e].op = "erase" /\ calls[e].pc # "role" /\ d # e  BY <2>2, <1>7, <1>h
  <2>4. Holds(LocksOf(d), RoleLock, {"update"}) /\ Holds(LocksOf(e), RoleLock, {"update"})
    BY <2>1, <2>3, <1>o DEF EraseOK
  <2>5. Holds(LocksOf(e), RoleLock, Some)  BY <2>4 DEF Holds, Some
  <2> QED  BY <2>3, <2>4, <2>5, HoldsTogether DEF IInv, Types
\* So everybody takes members in order, the smallest that is left, and holds smaller ones.
<1>9. ASSUME NEW c \in circle
      PROVE  /\ Min(calls[c].todo) \in Membership
             /\ \A m \in Membership : Holds(LocksOf(c), m, Some) => m < Min(calls[c].todo)
  <2>1. PICK d \in circle, want \in Wanted(calls[c]) : Blocks(d, c, want)  OBVIOUS
  <2>2. PICK b \in circle : \E mine \in Wanted(calls[b]) : Blocks(c, b, mine)  OBVIOUS
  <2>3. PICK mine : Blocks(c, b, mine)  BY <2>2
  <2>4. mine.on \in Membership /\ Holds(LocksOf(c), mine.on, Some)  BY <2>3, <1>8, <1>h
  <2>5. ~(calls[c].op = "route" /\ calls[c].pc = "write")
    BY <2>4, <1>o DEF RouteWaits, HoldsNone
  <2>6. /\ want.on \in Membership /\ want.on = Min(calls[c].todo) /\ want.on \in calls[c].todo
        /\ \/ calls[c].op \in Manages /\ TakesMembers(calls[c], LocksOf(c))
           \/ calls[c].op = "erase" /\ calls[c].pc = "workspaces"
    BY <2>1, <2>5, <1>6, <1>8
  <2>7. \A m \in Membership, k \in calls[c].todo : Holds(LocksOf(c), m, Some) => m < k
    BY <2>6, <1>o DEF ManageWaits, EraseWaits
  <2> QED  BY <2>6, <2>7
<1>10. ASSUME NEW c \in circle
       PROVE  \E b \in circle : Min(calls[b].todo) < Min(calls[c].todo)
  <2>1. PICK b \in circle : \E mine \in Wanted(calls[b]) : Blocks(c, b, mine)  OBVIOUS
  <2>2. PICK mine : Blocks(c, b, mine)  BY <2>1
  <2>3. mine.on \in Membership /\ Holds(LocksOf(c), mine.on, Some)  BY <2>2, <1>8, <1>h
  <2>4. PICK a \in circle : \E yours \in Wanted(calls[a]) : Blocks(b, a, yours)  OBVIOUS
  <2>5. PICK yours : Blocks(b, a, yours)  BY <2>4
  <2>6. yours.on \in Membership /\ Holds(LocksOf(b), yours.on, Some)  BY <2>5, <1>8, <1>h
  <2>7. ~(calls[b].op = "route" /\ calls[b].pc = "write")
    BY <2>6, <1>o DEF RouteWaits, HoldsNone
  <2>8. mine.on = Min(calls[b].todo)  BY <2>2, <2>3, <2>7, <1>6
  <2> QED  BY <2>3, <2>8, <1>9
<1> DEFINE firsts == {Min(calls[c].todo) : c \in circle}
<1>11. firsts \in SUBSET Nat /\ firsts # {}  BY <1>9, IdAssumption
<1>12. Min(firsts) \in firsts /\ \A y \in firsts : Min(firsts) <= y
  <2> HIDE DEF firsts
  <2> QED  BY <1>11, SmallestIs
<1>13. PICK c \in circle : Min(firsts) = Min(calls[c].todo)  BY <1>12
<1>14. PICK b \in circle : Min(calls[b].todo) < Min(calls[c].todo)  BY <1>10
<1>15. Min(firsts) <= Min(calls[b].todo) /\ Min(calls[b].todo) \in Nat /\ Min(calls[c].todo) \in Nat
  BY <1>11, <1>12
<1> HIDE DEF firsts
<1> QED  BY <1>13, <1>14, <1>15

LEMMA CirclesAreAllRight == IInv /\ WaitInv => CirclesAreAboutNewcomers
<1> SUFFICES ASSUME IInv, WaitInv, NEW circle \in SUBSET Caller, Deadlocked(circle),
                    \A c \in circle : ~IsAboutANewcomer(c)
             PROVE  FALSE
  BY DEF CirclesAreAboutNewcomers
<1>1. \A c \in circle : calls[c].op # "join"  BY DEF IsAboutANewcomer
<1>2. \A c \in circle, d \in circle : WaitsFor(c, d) =>
            calls[c] # Nothing /\ \E want \in Wanted(calls[c]) : Blocks(d, c, want)
  BY <1>1, WaitsAreForLocks
<1>3. ASSUME NEW c \in circle
      PROVE  /\ calls[c] # Nothing /\ calls[c].op # "join"
             /\ \A want \in Wanted(calls[c]) : want.on \in Membership => want.on \in calls[c].old
             /\ \E d \in circle, want \in Wanted(calls[c]) : Blocks(d, c, want)
             /\ \E b \in circle : \E want \in Wanted(calls[b]) : Blocks(c, b, want)
  <2>1. PICK d \in circle : WaitsFor(c, d)  BY DEF Deadlocked
  <2>2. PICK b \in circle : WaitsFor(b, c)  BY DEF Deadlocked
  <2>3. \A want \in Wanted(calls[c]) : want.on \in Membership => want.on \in calls[c].old
    BY DEF IsAboutANewcomer
  <2> QED  BY <2>1, <2>2, <2>3, <1>1, <1>2
<1>4. circle # {}  BY DEF Deadlocked
<1> QED  BY <1>3, <1>4, NoCircleOfOldMembers

-----------------------------------------------------------------------------
(* Every step leaves what calls wait for as it should be.                  *)

\* A call goes on, and the committed rows stay.
LEMMA WaitStepped ==
    ASSUME IInv, WaitInv, NEW c \in Caller, UNCHANGED table, calls[c] # Nothing,
           NEW call, call # Nothing, calls' = [calls EXCEPT ![c] = call], call.in = calls[c].in,
           call.op = calls[c].op \/ (calls[c].op = "dropAsAdmin" /\ call.op = "drop"),
           \A d \in Caller : d # c => LocksOf(d)' = LocksOf(d),
           WaitOK(table, call, LocksOf(c)')
    PROVE  WaitInv'
<1>1. calls'[c] = call /\ \A d \in Caller : d # c => calls'[d] = calls[d]
  BY DEF IInv, Types
<1>2. ASSUME NEW d \in Caller PROVE WaitOK(table, calls'[d], LocksOf(d)')
  <2>1. CASE d = c  BY <2>1, <1>1
  <2>2. CASE d # c
    <3>1. WaitOK(table, calls[d], LocksOf(d))  BY DEF WaitInv
    <3> QED  BY <2>2, <3>1, <1>1
  <2> QED  BY <2>1, <2>2
<1>3. ASSUME NEW d \in Caller, NEW e \in Caller, d # e PROVE NamesNew(calls[d], calls[e])'
  <2>1. NamesNew(calls[d], calls[e])  BY <1>3 DEF WaitInv
  <2>2. CASE d = c  BY <2>1, <2>2, <1>1, <1>3 DEF NamesNew
  <2>3. CASE e = c  BY <2>1, <2>3, <1>1, <1>3 DEF NamesNew
  <2>4. CASE d # c /\ e # c  BY <2>1, <2>4, <1>1 DEF NamesNew
  <2> QED  BY <2>2, <2>3, <2>4
<1> QED  BY <1>2, <1>3 DEF WaitInv

LEMMA WaitEnds ==
    ASSUME IInv, WaitInv, NEW c \in Caller, Rollback(c)
    PROVE  WaitInv'
<1>1. /\ \A d \in Caller : d # c => calls'[d] = calls[d] /\ LocksOf(d)' = LocksOf(d)
      /\ calls'[c] = Nothing /\ UNCHANGED table
  BY LocksFreed DEF IInv, Types, Rollback
<1>2. ASSUME NEW d \in Caller PROVE WaitOK(table, calls'[d], LocksOf(d)')
  <2>1. CASE d = c  BY <2>1, <1>1 DEF WaitOK
  <2>2. CASE d # c
    <3>1. WaitOK(table, calls[d], LocksOf(d))  BY DEF WaitInv
    <3> QED  BY <2>2, <3>1, <1>1
  <2> QED  BY <2>1, <2>2
<1>3. ASSUME NEW d \in Caller, NEW e \in Caller, d # e PROVE NamesNew(calls[d], calls[e])'
  <2>1. NamesNew(calls[d], calls[e])  BY <1>3 DEF WaitInv
  <2>2. CASE d = c  BY <2>2, <1>1 DEF NamesNew
  <2>3. CASE d # c /\ e = c  BY <2>1, <2>3, <1>1 DEF NamesNew
  <2>4. CASE d # c /\ e # c  BY <2>1, <2>4, <1>1 DEF NamesNew
  <2> QED  BY <2>2, <2>3, <2>4
<1> QED  BY <1>1, <1>2, <1>3 DEF WaitInv

\* A call starts: the workspace it names is there, or nobody names it.
LEMMA WaitStarts ==
    ASSUME IInv, WaitInv, NEW c \in Caller, NEW call \in CallRecord,
           calls[c] = Nothing, calls' = [calls EXCEPT ![c] = call], UNCHANGED <<table, draft, locks>>,
           call.op = "create" => Unnamed(call.in),
           call.op \notin {"signUp", "create", "erase"} => table[call.in] # NoRow,
           WaitOK(table, call, {})
    PROVE  WaitInv'
<1>1. LocksOf(c) = {} /\ \A d \in Caller : LocksOf(d)' = LocksOf(d)
  BY LocksKept DEF IInv, CallsOK, CallOK, Idle
<1>2. calls'[c] = call /\ \A d \in Caller : d # c => calls'[d] = calls[d]
  BY DEF IInv, Types
<1>3. ASSUME NEW d \in Caller PROVE WaitOK(table, calls'[d], LocksOf(d)')
  <2>1. CASE d = c  BY <2>1, <1>1, <1>2
  <2>2. CASE d # c
    <3>1. WaitOK(table, calls[d], LocksOf(d))  BY DEF WaitInv
    <3> QED  BY <2>2, <3>1, <1>1, <1>2
  <2> QED  BY <2>1, <2>2
<1>4. ASSUME NEW d \in Caller, NEW e \in Caller, d # e PROVE NamesNew(calls[d], calls[e])'
  <2>1. NamesNew(calls[d], calls[e])  BY <1>4 DEF WaitInv
  <2>2. CASE d = c  BY <2>2, <1>2, <1>4 DEF NamesNew, Unnamed
  <2>3. CASE e = c /\ call.op = "create"  BY <2>1, <2>3, <1>2, <1>4 DEF NamesNew, Unnamed
  <2>4. CASE e = c /\ call.op # "create"  BY <2>1, <2>4, <1>2, <1>4 DEF NamesNew
  <2>5. CASE d # c /\ e # c  BY <2>1, <2>5, <1>2 DEF NamesNew
  <2> QED  BY <2>2, <2>3, <2>4, <2>5
<1> QED  BY <1>3, <1>4 DEF WaitInv

\* The committed rows change under a call.
LEMMA WaitLeft ==
    ASSUME NEW tab, NEW dr, NEW call, NEW my, NEW dd, NEW cd, NEW md,
           Commits(tab, dr, call, my, dd, cd, md),
           NEW tab2, tab2 = Seen(tab, dd), WaitOK(tab, call, my)
    PROVE  WaitOK(tab2, call, my)
<1> SUFFICES ASSUME call # Nothing PROVE WaitOK(tab2, call, my)  BY DEF WaitOK
<1>1. call \in CallRecord  BY DEF Commits, CallT
<1>2. \A m \in Membership : Holds(my, m, {"update"}) /\ tab[m] # NoRow => tab2[m] = tab[m]
  BY CommitFacts
<1>3. \A m \in Membership : tab2[m] # NoRow /\ tab[m] # NoRow =>
            tab2[m].of = tab[m].of /\ tab2[m].who = tab[m].who
  BY CommitFacts
<1>4. \A m \in Membership : tab2[m] # NoRow /\ tab[m] = NoRow => m \notin call.old \cup call.todo
  BY CommitFacts
<1>5. \A m \in Membership : Holds(my, m, Some) /\ tab[m] # NoRow => tab2[m] # NoRow
  <2> SUFFICES ASSUME NEW m \in Membership, Holds(my, m, Some), tab[m] # NoRow, tab2[m] = NoRow
               PROVE  FALSE
    OBVIOUS
  <2>1. dd[m] # Untouched  BY CommitFacts DEF Seen, Key
  <2>2. Holds(md, m, {"update"})  BY <2>1 DEF Commits, CallOK, RowsHeld
  <2> QED  BY <2>2 DEF Commits, Together
<1>6. call.old \subseteq Membership /\ call.todo \subseteq Membership \cup Workspace
  BY <1>1 DEF CallRecord
<1>7. SignUpWaits(call, my) /\ JoinWaits(call, my)  BY DEF WaitOK
<1>8. RouteWaits(tab2, call, my)  BY <1>5 DEF WaitOK, RouteWaits
<1>9. ManageWaits(tab2, call, my)
  <2> SUFFICES ASSUME call.op \in Manages PROVE ManageWaits(tab2, call, my)  BY DEF ManageWaits
  <2>1. ManageWaits(tab, call, my)  BY DEF WaitOK
  <2>2. \A m \in Membership : Holds(my, m, Some) => tab2[m] # NoRow  BY <2>1, <1>5 DEF ManageWaits
  <2>3. \A m \in call.todo : m \in Membership /\ (tab2[m] # NoRow => tab2[m].of = call.in)
    BY <2>1, <1>3, <1>4 DEF ManageWaits
  <2>4. call.pc # "role" =>
            \A m \in call.old : tab2[m] # NoRow /\ tab2[m].of = call.in =>
                Holds(my, m, {"update"}) \/ (m \in call.todo /\ TakesMembers(call, my))
    BY <2>1, <1>3, <1>4, <1>6 DEF ManageWaits
  <2> QED  BY <2>1, <2>2, <2>3, <2>4 DEF ManageWaits
<1>10. EraseWaits(tab2, call, my)
  <2> SUFFICES ASSUME call.op = "erase" PROVE EraseWaits(tab2, call, my)  BY DEF EraseWaits
  <2>1. EraseWaits(tab, call, my)  BY DEF WaitOK
  <2>2. \A m \in Membership : Holds(my, m, Some) => tab2[m] # NoRow  BY <2>1, <1>5 DEF EraseWaits
  <2>3. call.pc # "sole" =>
            \A m \in call.todo : m \in Membership /\ (tab2[m] # NoRow => tab2[m].who = call.who)
    BY <2>1, <1>3, <1>4 DEF EraseWaits
  <2>4. call.pc \notin {"role", "user"} =>
            \A m \in call.old : tab2[m] # NoRow /\ tab2[m].who = call.who =>
                Holds(my, m, {"update"}) \/ (m \in call.todo /\ call.pc = "workspaces")
    BY <2>1, <1>3, <1>4, <1>6 DEF EraseWaits
  <2>5. call.pc = "sole" =>
            \A w \in call.todo :
                /\ w \in Workspace
                /\ \E m \in Membership :
                        Holds(my, m, {"update"}) /\ tab2[m] # NoRow /\ tab2[m].of = w
    <3> SUFFICES ASSUME call.pc = "sole", NEW w \in call.todo
                 PROVE  /\ w \in Workspace
                        /\ \E m \in Membership :
                                Holds(my, m, {"update"}) /\ tab2[m] # NoRow /\ tab2[m].of = w
      OBVIOUS
    <3>1. PICK m \in Membership : Holds(my, m, {"update"}) /\ tab[m] # NoRow /\ tab[m].of = w
      BY <2>1 DEF EraseWaits
    <3>2. tab2[m] = tab[m]  BY <3>1, <1>2
    <3>3. w \in Workspace  BY <2>1 DEF EraseWaits
    <3> QED  BY <3>1, <3>2, <3>3
  <2> QED  BY <2>1, <2>2, <2>3, <2>4, <2>5 DEF EraseWaits
<1> QED  BY <1>7, <1>8, <1>9, <1>10 DEF WaitOK

LEMMA WaitCommitted ==
    ASSUME IInv, WaitInv, NEW c \in Caller, Commit(c)
    PROVE  WaitInv'
<1> DEFINE cd == calls[c]
           dd == draft[c]
           md == LocksOf(c)
<1>k. Key = Membership \cup Workspace \cup Account  BY DEF Key
<1>1. /\ cd # Nothing /\ cd.pc = "commit" /\ cd.todo = {}
      /\ table' = Seen(table, dd) /\ locks' = Unlocked(c)
      /\ calls' = [calls EXCEPT ![c] = Nothing]
  BY DEF Commit, At, View, Seen
<1>2. /\ \A d \in Caller : d # c => calls'[d] = calls[d] /\ LocksOf(d)' = LocksOf(d)
      /\ calls'[c] = Nothing
  BY <1>1, LocksFreed DEF IInv, Types
<1>3. \A d \in Caller : CallT(calls[d]) /\ DrOK(draft[d]) /\ CallOK(table, draft[d], calls[d], LocksOf(d))
  BY DEF IInv, Types, CallsOK, CallT
<1>4. Owned(table) /\ LinksOK(table) /\ TabOK(table)
  BY InCharge DEF IInv, ForeignKeys, LinksOK, Types
<1>5. ASSUME NEW d \in Caller PROVE WaitOK(table', calls'[d], LocksOf(d)')
  <2>1. CASE d = c  BY <2>1, <1>2 DEF WaitOK
  <2>2. CASE d # c
    <3>1. Together(LocksOf(d), md)  BY <2>2, HoldsTogether DEF Together, IInv, Types
    <3>2. Apart(table, draft[d], calls[d], dd, cd) /\ Fresh(table, dd, calls[d])
      BY <2>2 DEF IInv, AllApart, AllFresh
    <3>3. Commits(table, draft[d], calls[d], LocksOf(d), dd, cd, md)
      BY <3>1, <3>2, <1>1, <1>3, <1>4 DEF Commits
    <3>4. WaitOK(table, calls[d], LocksOf(d))  BY DEF WaitInv
    <3>5. WaitOK(table', calls[d], LocksOf(d))  BY <3>3, <3>4, <1>1, WaitLeft
    <3> QED  BY <3>5, <2>2, <1>2
  <2> QED  BY <2>1, <2>2
<1>6. ASSUME NEW d \in Caller, NEW e \in Caller, d # e PROVE NamesNew(calls[d], calls[e])'
  <2>1. NamesNew(calls[d], calls[e])  BY <1>6 DEF WaitInv
  <2>2. CASE d = c  BY <2>2, <1>2 DEF NamesNew
  <2>3. CASE d # c
    <3> SUFFICES ASSUME calls[d] # Nothing, calls[d].op = "create"
                 PROVE  table'[calls[d].in] = NoRow
      BY <2>1, <2>3, <1>2 DEF NamesNew
    <3>1. NamesNew(calls[d], cd)  BY <2>3 DEF WaitInv
    <3>2. calls[d].in \in Workspace  BY OpFacts DEF JoinOK
    <3>3. dd[calls[d].in] = Untouched
      BY <1>1, <1>3, <3>1, <3>2 DEF NamesNew, CallOK, OthersHeldBy
    <3> QED  BY <1>1, <1>k, <3>1, <3>2, <3>3 DEF NamesNew, Seen
  <2> QED  BY <2>2, <2>3
<1> QED  BY <1>5, <1>6 DEF WaitInv

LEMMA WaitCalled ==
    ASSUME IInv, WaitInv, NEW c \in Caller, Called(c)
    PROVE  WaitInv'
<1>0. \A k : ~Holds({}, k, Some)  BY DEF Holds
<1>1. ASSUME NEW a \in Account, SignUpCalled(c, a) PROVE WaitInv'
  <2> DEFINE pc == IF Accounts(table) = {} THEN "role" ELSE "insert"
             call == [Call("signUp", pc) EXCEPT !.who = a]
  <2>1. /\ calls[c] = Nothing /\ calls' = [calls EXCEPT ![c] = call] /\ UNCHANGED <<table, draft, locks>>
    BY <1>1 DEF SignUpCalled, Starts
  <2>2. call \in CallRecord /\ call.op = "signUp"  BY DEF Call, CallRecord
  <2> HIDE DEF call
  <2>3. WaitOK(table, call, {})
    BY <2>2, <1>0
       DEF WaitOK, SignUpWaits, RouteWaits, JoinWaits, ManageWaits, EraseWaits, HoldsNone, Manages,
           Administers
  <2> QED  BY <2>1, <2>2, <2>3, WaitStarts
<1>2. ASSUME NEW m \in Membership, NEW role \in Role \cup {"gone"}, RouteCalled(c, m, role)
      PROVE  WaitInv'
  <2> DEFINE call == [Call("route", "write") EXCEPT !.member = m, !.in = table[m].of, !.role = role]
  <2>1. /\ calls[c] = Nothing /\ calls' = [calls EXCEPT ![c] = call] /\ UNCHANGED <<table, draft, locks>>
        /\ table[m] # NoRow
    BY <1>2 DEF RouteCalled, Starts
  <2>2. table[m].of \in Workspace /\ table[table[m].of] # NoRow
    BY <2>1 DEF IInv, ForeignKeys, Types, TabOK, RowsAt, MemberRow, Key
  <2>3. call \in CallRecord /\ call.op = "route" /\ call.in = table[m].of
    BY <2>2 DEF Call, CallRecord
  <2> HIDE DEF call
  <2>4. WaitOK(table, call, {})
    BY <2>3, <1>0
       DEF WaitOK, SignUpWaits, RouteWaits, JoinWaits, ManageWaits, EraseWaits, HoldsNone, Manages,
           Administers
  <2> QED  BY <2>1, <2>2, <2>3, <2>4, WaitStarts
<1>3. ASSUME NEW call \in CallRecord, call.op \in {"join", "create"},
             call.op = "create" => Unnamed(call.in), call.op = "join" => table[call.in] # NoRow,
             calls[c] = Nothing, UNCHANGED <<table, draft, locks>>, calls' = [calls EXCEPT ![c] = call]
      PROVE  WaitInv'
  <2>1. WaitOK(table, call, {})
    BY <1>3, <1>0
       DEF WaitOK, SignUpWaits, RouteWaits, JoinWaits, ManageWaits, EraseWaits, HoldsNone, Manages,
           Administers
  <2> QED  BY <1>3, <2>1, WaitStarts
<1>4. ASSUME NEW w \in Workspace, NEW a \in Account, NEW role \in Role, JoinCalled(c, w, a, role)
      PROVE  WaitInv'
  <2> DEFINE call == [Call("join", "insert") EXCEPT !.in = w, !.who = a, !.role = role]
  <2>1. /\ calls[c] = Nothing /\ UNCHANGED <<table, draft, locks>> /\ table[w] # NoRow
        /\ calls' = [calls EXCEPT ![c] = call]
    BY <1>4 DEF JoinCalled, Starts
  <2>2. call \in CallRecord /\ call.op = "join" /\ call.in = w  BY DEF Call, CallRecord
  <2> HIDE DEF call
  <2> QED  BY <2>1, <2>2, <1>3
<1>5. ASSUME NEW w \in Workspace, NEW a \in Account, NEW by \in Admins(table) \cup {Nothing},
             CreateCalled(c, w, a, by)
      PROVE  WaitInv'
  <2> DEFINE call == [Call("create", IF by = Nothing THEN "insert" ELSE "role")
                        EXCEPT !.in = w, !.who = a, !.by = by, !.role = "owner"]
  <2>1. /\ calls[c] = Nothing /\ UNCHANGED <<table, draft, locks>> /\ Unnamed(w)
        /\ calls' = [calls EXCEPT ![c] = call]
    BY <1>5 DEF CreateCalled, Starts
  <2>2. call \in CallRecord /\ call.op = "create" /\ call.in = w
    BY DEF Call, CallRecord, Role, Admins, Accounts
  <2> HIDE DEF call
  <2> QED  BY <2>1, <2>2, <1>3
<1>6. ASSUME NEW w \in Workspace, DropCalled(c, w) PROVE WaitInv'
  <2> DEFINE call == HoldingMembers([Call("drop", "workspace") EXCEPT !.in = w])
  <2>1. /\ calls[c] = Nothing /\ calls' = [calls EXCEPT ![c] = call] /\ UNCHANGED <<table, draft, locks>>
        /\ table[w] # NoRow
    BY <1>6 DEF DropCalled, Starts
  <2>2. /\ call.op = "drop" /\ call.pc = "workspace" /\ call.in = w
        /\ call.todo = MembersOf(w, table)
        /\ call.old = {m \in Membership : table[m] # NoRow}
    BY DEF Call, HoldingMembers, Running
  <2>3. call \in CallRecord  BY DEF Call, CallRecord, HoldingMembers, Running, MembersOf
  <2> HIDE DEF call
  <2>4. ManageWaits(table, call, {})
    BY <2>2, <1>0 DEF ManageWaits, TakesMembers, HoldsNone, MembersOf
  <2>5. WaitOK(table, call, {})
    BY <2>2, <2>4 DEF WaitOK, SignUpWaits, RouteWaits, JoinWaits, EraseWaits
  <2> QED  BY <2>1, <2>2, <2>3, <2>5, WaitStarts
<1>7. ASSUME NEW w \in Workspace, NEW by \in Admins(table), NEW op, NEW a, NEW role,
             AdminCalled(c, op, by, w, a, role),
             \/ op \in {"setRole", "add"} /\ a \in Account /\ role \in Role
             \/ op = "setOwner" /\ a \in Account /\ role = "owner"
             \/ op = "dropAsAdmin" /\ a = Nothing /\ role = Nothing
      PROVE  WaitInv'
  <2> DEFINE call == [Call(op, "role") EXCEPT !.by = by, !.in = w, !.who = a, !.role = role]
  <2>1. /\ calls[c] = Nothing /\ calls' = [calls EXCEPT ![c] = call] /\ UNCHANGED <<table, draft, locks>>
        /\ table[w] # NoRow
    BY <1>7 DEF AdminCalled, Starts
  <2>2. call.op = op /\ call.pc = "role" /\ call.in = w /\ call.todo = {}
    BY DEF Call
  <2>3. call \in CallRecord  BY <1>7 DEF Call, CallRecord, Role, Admins, Accounts
  <2> HIDE DEF call
  <2>4. ManageWaits(table, call, {})
    BY <2>2, <1>0 DEF ManageWaits, TakesMembers, HoldsNone
  <2>5. WaitOK(table, call, {})
    BY <1>7, <2>2, <2>4 DEF WaitOK, SignUpWaits, RouteWaits, JoinWaits, EraseWaits
  <2>6. call.op \notin {"signUp", "create", "erase"}  BY <1>7, <2>2
  <2> QED  BY <2>1, <2>2, <2>3, <2>5, <2>6, WaitStarts
<1>8. ASSUME NEW by \in Admins(table), NEW a \in Account, EraseCalled(c, by, a) PROVE WaitInv'
  <2> DEFINE call == [Call("erase", "role") EXCEPT !.by = by, !.who = a]
  <2>1. /\ calls[c] = Nothing /\ calls' = [calls EXCEPT ![c] = call] /\ UNCHANGED <<table, draft, locks>>
    BY <1>8 DEF EraseCalled, Starts
  <2>2. call.op = "erase" /\ call.pc = "role" /\ call.todo = {}  BY DEF Call
  <2>3. call \in CallRecord  BY DEF Call, CallRecord, Admins, Accounts
  <2> HIDE DEF call
  <2>4. WaitOK(table, call, {})
    BY <2>2, <1>0
       DEF WaitOK, SignUpWaits, RouteWaits, JoinWaits, ManageWaits, EraseWaits, HoldsNone, Manages,
           Administers
  <2> QED  BY <2>1, <2>2, <2>3, <2>4, WaitStarts
<1>9. ASSUME NEW w \in Workspace, NEW by \in Admins(table), NEW a \in Account,
             \/ \E role \in Role, op \in {"setRole", "add"} : AdminCalled(c, op, by, w, a, role)
             \/ AdminCalled(c, "setOwner", by, w, a, "owner")
      PROVE  WaitInv'
  BY <1>7, <1>9
<1>10. ASSUME NEW w \in Workspace, NEW by \in Admins(table),
              AdminCalled(c, "dropAsAdmin", by, w, Nothing, Nothing)
       PROVE  WaitInv'
  BY <1>7, <1>10
<1> QED  BY <1>1, <1>2, <1>4, <1>5, <1>6, <1>8, <1>9, <1>10 DEF Called

\* What a lock is of, it is of in more than one way.
LEMMA SomeHeld ==
    ASSUME NEW my, NEW k
    PROVE  /\ Holds(my, k, {"update"}) => Holds(my, k, {"write", "update"})
           /\ Holds(my, k, {"write", "update"}) => Holds(my, k, Some)
BY DEF Holds, Some

\* A step that takes one lock.
LEMMA LockGained ==
    ASSUME IInv, NEW c \in Caller, NEW pc, At(c, pc),
           NEW on \in Key \cup {RoleLock}, NEW how \in Some,
           Wanted(calls[c]) = {[on |-> on, how |-> how]}, locks' = Taken(c)
    PROVE  /\ \A k, hows : Holds(LocksOf(c)', k, hows) <=>
                                (Holds(LocksOf(c), k, hows) \/ (k = on /\ how \in hows))
           /\ \A d \in Caller : d # c => LocksOf(d)' = LocksOf(d)
<1> DEFINE lock == [by |-> c, on |-> on, how |-> how]
<1>1. /\ LocksOf(c)' = LocksOf(c) \cup {lock}
      /\ \A d \in Caller : d # c => LocksOf(d)' = LocksOf(d)
  BY TakenAt
<1>2. lock.on = on /\ lock.how = how  OBVIOUS
<1> HIDE DEF lock
<1> QED  BY <1>1, <1>2 DEF Holds

\* A step of a call that goes on as another.
LEMMA WaitGoesOn ==
    ASSUME IInv, WaitInv, NEW c \in Caller, calls[c] # Nothing, UNCHANGED table,
           NEW call \in CallRecord, calls' = [calls EXCEPT ![c] = call], call.in = calls[c].in,
           call.op = calls[c].op \/ (calls[c].op = "dropAsAdmin" /\ call.op = "drop"),
           \A d \in Caller : d # c => LocksOf(d)' = LocksOf(d),
           WaitOK(table, call, LocksOf(c)')
    PROVE  WaitInv'
BY Nulls, WaitStepped

\* A step that takes none.
LEMMA WaitSame ==
    ASSUME IInv, WaitInv, NEW c \in Caller, calls[c] # Nothing, UNCHANGED <<table, locks>>,
           NEW call \in CallRecord, calls' = [calls EXCEPT ![c] = call], call.in = calls[c].in,
           call.op = calls[c].op, WaitOK(table, call, LocksOf(c))
    PROVE  WaitInv'
<1>1. \A d \in Caller : LocksOf(d)' = LocksOf(d)  BY LocksKept DEF IInv
<1>2. call # Nothing /\ WaitOK(table, call, LocksOf(c)')  BY <1>1, Nulls
<1> QED  BY <1>1, <1>2, WaitStepped

LEMMA WaitHoldRole ==
    ASSUME IInv, WaitInv, NEW c \in Caller, HoldRole(c)
    PROVE  WaitInv'
<1> DEFINE old == calls[c]
           my == LocksOf(c)
<1>k. /\ Key = Membership \cup Workspace \cup Account /\ RoleLock \notin Key
      /\ "update" \in Some
  BY KeyAssumption DEF Key, Some
<1>1. /\ old # Nothing /\ old.pc = "role" /\ old.todo = {} /\ At(c, "role")
      /\ locks' = Taken(c) /\ UNCHANGED table
      /\ Wanted(old) = {[on |-> RoleLock, how |-> "update"]}
  BY DEF HoldRole, At, Wanted
<1>2. old \in CallRecord /\ DropOK(table, draft[c], old, my) /\ RouteOK(table, draft[c], old)
      /\ JoinOK(draft[c], old)
  BY <1>1, OpFacts
<1>3. old.op \in {"signUp", "create", "erase"} \cup (Manages \ {"drop"})
  BY <1>1, <1>2 DEF CallRecord, RouteOK, JoinOK, DropOK, Manages, Administers
<1>4. HoldsNone(my, Key)
  <2>1. /\ SignUpWaits(old, my) /\ JoinWaits(old, my) /\ ManageWaits(table, old, my)
        /\ EraseWaits(table, old, my)
    BY <1>1, WaitFacts
  <2> QED
    BY <1>1, <1>3, <2>1 DEF SignUpWaits, JoinWaits, ManageWaits, EraseWaits, HoldsNone, Manages, Administers
<1>5. ASSUME NEW mine, \A k, hows : Holds(mine, k, hows) <=>
                            (Holds(my, k, hows) \/ (k = RoleLock /\ "update" \in hows))
      PROVE  HoldsNone(mine, Key) /\ Holds(mine, RoleLock, {"update"})
  BY <1>4, <1>5, <1>k DEF HoldsNone
<1>l. /\ HoldsNone(LocksOf(c)', Key) /\ Holds(LocksOf(c)', RoleLock, {"update"})
      /\ \A d \in Caller : d # c => LocksOf(d)' = LocksOf(d)
  <2>1. /\ \A k, hows : Holds(LocksOf(c)', k, hows) <=>
                                (Holds(my, k, hows) \/ (k = RoleLock /\ "update" \in hows))
        /\ \A d \in Caller : d # c => LocksOf(d)' = LocksOf(d)
    BY <1>1, <1>k, LockGained
  <2> QED  BY <2>1, <1>5
<1>6. CASE old.op \in {"erase", "signUp", "create"}
  <2> DEFINE call == [old EXCEPT !.pc = IF old.op = "erase" THEN "user" ELSE "insert"]
  <2>1. call \in CallRecord  BY <1>2 DEF CallRecord
  <2>2. /\ call.op = old.op /\ call.in = old.in /\ call.todo = {}
        /\ call.pc = IF old.op = "erase" THEN "user" ELSE "insert"
    BY <1>1, <1>2 DEF CallRecord
  <2>3. calls' = [calls EXCEPT ![c] = call]  BY <1>6 DEF HoldRole
  <2> HIDE DEF call
  <2>4. ASSUME NEW mine, HoldsNone(mine, Key) PROVE WaitOK(table, call, mine)
    BY <2>2, <2>4, <1>6, <1>k
       DEF WaitOK, SignUpWaits, RouteWaits, JoinWaits, ManageWaits, EraseWaits, HoldsNone, Manages,
           Administers
  <2>5. WaitOK(table, call, LocksOf(c)')  BY <1>l, <2>4
  <2> QED  BY <1>1, <1>l, <2>1, <2>2, <2>3, <2>5, WaitGoesOn
<1>7. CASE old.op \notin {"erase", "signUp", "create"}
  <2> DEFINE call == HoldingMembers(old)
  <2>1. call \in CallRecord  BY <1>2 DEF HoldingMembers, Running, MembersOf, CallRecord
  <2>2. /\ call.op = old.op /\ call.in = old.in /\ call.todo = MembersOf(old.in, table)
        /\ call.pc = "workspace" /\ call.old \subseteq Membership
    BY <1>2 DEF CallRecord, HoldingMembers, Running
  <2>3. calls' = [calls EXCEPT ![c] = call]  BY <1>7 DEF HoldRole
  <2> HIDE DEF call
  <2>4. call.in \in Workspace
    BY <1>2, <1>3, <1>7, <2>2, OpFacts, <1>1 DEF AdminOK, DropOK, Manages
  <2>5. ASSUME NEW mine, HoldsNone(mine, Key), Holds(mine, RoleLock, {"update"})
        PROVE  WaitOK(table, call, mine)
    <3>1. ManageWaits(table, call, mine)
      BY <2>2, <2>4, <2>5, <1>k DEF ManageWaits, TakesMembers, HoldsNone, MembersOf
    <3> QED
      BY <3>1, <2>2, <1>3, <1>7
         DEF WaitOK, SignUpWaits, RouteWaits, JoinWaits, EraseWaits, Manages, Administers
  <2>6. WaitOK(table, call, LocksOf(c)')  BY <1>l, <2>5
  <2> QED  BY <1>1, <1>l, <2>1, <2>2, <2>3, <2>6, WaitGoesOn
<1> QED  BY <1>6, <1>7

LEMMA WaitInsertAccount ==
    ASSUME IInv, WaitInv, NEW c \in Caller, InsertAccount(c)
    PROVE  WaitInv'
<1> DEFINE old == calls[c]
           call == [old EXCEPT !.pc = "commit"]
<1>1. /\ old # Nothing /\ old.op = "signUp" /\ UNCHANGED <<table, locks>>
      /\ calls' = [calls EXCEPT ![c] = call]
  BY DEF InsertAccount, At, Goes
<1>2. call \in CallRecord /\ call.op = "signUp" /\ call.in = old.in /\ call.pc = "commit"
  BY <1>1, OpFacts DEF CallRecord
<1> HIDE DEF call
<1>3. WaitOK(table, call, LocksOf(c))
  BY <1>1, <1>2, WaitFacts
     DEF WaitOK, SignUpWaits, RouteWaits, JoinWaits, ManageWaits, EraseWaits, Manages, Administers
<1> QED  BY <1>1, <1>2, <1>3, WaitSame

LEMMA WaitInsertMember ==
    ASSUME IInv, WaitInv, NEW c \in Caller, InsertMember(c)
    PROVE  WaitInv'
<1> DEFINE old == calls[c]
           call == [old EXCEPT !.pc = "in"]
<1>1. old # Nothing /\ old.pc = "insert" /\ old.op \in {"join", "create"}
  BY DEF InsertMember, At
<1>2. CASE Rollback(c)  BY <1>2, WaitEnds
<1>3. CASE ~Rollback(c)
  <2>1. calls' = [calls EXCEPT ![c] = call] /\ UNCHANGED <<table, locks>>
    BY <1>3 DEF InsertMember, Goes
  <2>2. call \in CallRecord /\ call.op = old.op /\ call.in = old.in /\ call.pc = "in"
    BY <1>1, OpFacts DEF CallRecord
  <2> HIDE DEF call
  <2>3. WaitOK(table, call, LocksOf(c))
    BY <1>1, <2>2, WaitFacts
       DEF WaitOK, SignUpWaits, RouteWaits, JoinWaits, ManageWaits, EraseWaits, Manages, Administers
  <2> QED  BY <1>1, <2>1, <2>2, <2>3, WaitSame
<1> QED  BY <1>2, <1>3

LEMMA WaitNameWorkspace ==
    ASSUME IInv, WaitInv, NEW c \in Caller, NameWorkspace(c)
    PROVE  WaitInv'
<1> DEFINE old == calls[c]
           my == LocksOf(c)
           call == [old EXCEPT !.pc = "names"]
<1>k. /\ Key = Membership \cup Workspace \cup Account /\ RoleLock \notin Key
      /\ Membership \cap Workspace = {} /\ Account \cap (Membership \cup Workspace) = {}
      /\ "share" \in Some
  BY KeyAssumption DEF Key, Some
<1>1. /\ old # Nothing /\ old.pc = "in" /\ old.todo = {} /\ At(c, "in")
      /\ Wanted(old) = {[on |-> old.in, how |-> "share"]}
  BY DEF NameWorkspace, At, Wanted
<1>2. old.op \in {"join", "create"} /\ old \in CallRecord /\ old.in \in Workspace
  BY <1>1, OpFacts DEF SignUpOK, RouteOK, JoinOK, AdminOK, DropOK, EraseOK, Administers, CallRecord
<1>3. CASE Rollback(c)  BY <1>3, WaitEnds
<1>4. CASE ~Rollback(c)
  <2>1. locks' = Taken(c) /\ calls' = [calls EXCEPT ![c] = call] /\ UNCHANGED table
    BY <1>4 DEF NameWorkspace, Goes
  <2>2. call \in CallRecord /\ call.op = old.op /\ call.in = old.in /\ call.pc = "names"
    BY <1>2 DEF CallRecord
  <2> HIDE DEF call
  <2>3. JoinWaits(old, my)  BY <1>1, WaitFacts
  <2>4. ASSUME NEW mine, \A k, hows : Holds(mine, k, hows) <=>
                            (Holds(my, k, hows) \/ (k = old.in /\ "share" \in hows))
        PROVE  WaitOK(table, call, mine)
    <3>1. JoinWaits(call, mine)
      BY <2>2, <2>3, <2>4, <1>k, <1>1, <1>2 DEF JoinWaits, HoldsNone
    <3> QED
      BY <3>1, <2>2, <1>2
         DEF WaitOK, SignUpWaits, RouteWaits, ManageWaits, EraseWaits, Manages, Administers
  <2>l. /\ \A k, hows : Holds(LocksOf(c)', k, hows) <=>
                                (Holds(my, k, hows) \/ (k = old.in /\ "share" \in hows))
        /\ \A d \in Caller : d # c => LocksOf(d)' = LocksOf(d)
    BY <1>1, <1>2, <1>k, <2>1, LockGained
  <2>o. WaitOK(table, call, LocksOf(c)')  BY <2>4, <2>l
  <2> QED  BY <1>1, <1>2, <2>1, <2>2, <2>l, <2>o, WaitGoesOn
<1> QED  BY <1>3, <1>4

LEMMA WaitNameAccount ==
    ASSUME IInv, WaitInv, NEW c \in Caller, NameAccount(c)
    PROVE  WaitInv'
<1> DEFINE old == calls[c]
           my == LocksOf(c)
           call == [old EXCEPT !.pc = "commit"]
<1>k. /\ Key = Membership \cup Workspace \cup Account /\ RoleLock \notin Key
      /\ Membership \cap Workspace = {} /\ Account \cap (Membership \cup Workspace) = {}
      /\ "share" \in Some
  BY KeyAssumption DEF Key, Some
<1>1. /\ old # Nothing /\ old.pc = "names" /\ old.todo = {} /\ At(c, "names")
      /\ Wanted(old) = {[on |-> old.who, how |-> "share"]}
  BY DEF NameAccount, At, Wanted
<1>2. old.op \in {"join", "create", "add", "setOwner"} /\ old \in CallRecord /\ old.who \in Account
  BY <1>1, OpFacts DEF SignUpOK, RouteOK, JoinOK, AdminOK, DropOK, EraseOK, Administers, CallRecord
<1>3. CASE Rollback(c)  BY <1>3, WaitEnds
<1>4. CASE ~Rollback(c)
  <2>1. locks' = Taken(c) /\ calls' = [calls EXCEPT ![c] = call] /\ UNCHANGED table
    BY <1>4 DEF NameAccount, Goes
  <2>2. /\ call \in CallRecord /\ call.op = old.op /\ call.in = old.in /\ call.pc = "commit"
        /\ call.todo = {} /\ call.old = old.old
    BY <1>1, <1>2 DEF CallRecord
  <2> HIDE DEF call
  <2>3. JoinWaits(old, my) /\ ManageWaits(table, old, my)  BY <1>1, WaitFacts
  <2>4. \A a \in Account : ~Holds(my, a, Some) /\ ~Holds(my, a, {"write", "update"})
    BY <2>3, <1>1, <1>2, SomeHeld DEF JoinWaits, ManageWaits, Manages, Administers
  <2>5. ASSUME NEW mine, \A k, hows : Holds(mine, k, hows) <=>
                            (Holds(my, k, hows) \/ (k = old.who /\ "share" \in hows))
        PROVE  WaitOK(table, call, mine)
    <3>0. \A k : (k \notin Account \/ k # old.who) => \A hows : Holds(mine, k, hows) <=> Holds(my, k, hows)
      BY <2>5, <1>2
    <3>1. \A a \in Account : ~Holds(mine, a, {"write", "update"})  BY <2>4, <2>5
    <3>2. JoinWaits(call, mine)
      BY <2>2, <2>3, <3>0, <3>1, <1>k, <1>1, <1>2 DEF JoinWaits, HoldsNone
    <3>3. ManageWaits(table, call, mine)
      <4> SUFFICES ASSUME call.op \in Manages PROVE ManageWaits(table, call, mine)  BY DEF ManageWaits
      <4>1. \A k \in Membership \cup Workspace \cup {RoleLock} : \A hows :
                Holds(mine, k, hows) <=> Holds(my, k, hows)
        BY <3>0, <1>k
      <4>2. \A m \in old.old : m \in Membership  BY <1>2 DEF CallRecord
      <4> QED  BY <1>1, <2>2, <2>3, <3>1, <4>1, <4>2 DEF ManageWaits, TakesMembers
    <3> QED
      BY <3>2, <3>3, <2>2, <1>2 DEF WaitOK, SignUpWaits, RouteWaits, EraseWaits
  <2>l. /\ \A k, hows : Holds(LocksOf(c)', k, hows) <=>
                                (Holds(my, k, hows) \/ (k = old.who /\ "share" \in hows))
        /\ \A d \in Caller : d # c => LocksOf(d)' = LocksOf(d)
    BY <1>1, <1>2, <1>k, <2>1, LockGained
  <2>o. WaitOK(table, call, LocksOf(c)')  BY <2>5, <2>l
  <2> QED  BY <1>1, <1>2, <2>1, <2>2, <2>l, <2>o, WaitGoesOn
<1> QED  BY <1>3, <1>4

LEMMA WaitWrite ==
    ASSUME IInv, WaitInv, NEW c \in Caller, Write(c)
    PROVE  WaitInv'
<1> DEFINE old == calls[c]
           my == LocksOf(c)
           next == IF table[old.member].role = "owner" /\ old.role # "owner" THEN "trigger" ELSE "commit"
           call == [old EXCEPT !.pc = next]
<1>k. /\ Key = Membership \cup Workspace \cup Account /\ RoleLock \notin Key
      /\ Membership \cap Workspace = {} /\ Account \cap (Membership \cup Workspace) = {}
      /\ "update" \in Some
  BY KeyAssumption DEF Key, Some
<1>1. /\ old # Nothing /\ old.pc = "write" /\ old.todo = {} /\ At(c, "write")
      /\ Wanted(old) = {[on |-> old.member, how |-> "update"]}
  BY DEF Write, At, Wanted
<1>2. old.op = "route" /\ old \in CallRecord /\ old.member \in Membership
  BY <1>1, OpFacts DEF SignUpOK, RouteOK, JoinOK, AdminOK, DropOK, EraseOK, Administers, CallRecord
<1>3. CASE Rollback(c)  BY <1>3, WaitEnds
<1>4. CASE ~Rollback(c)
  <2>1. /\ locks' = Taken(c) /\ calls' = [calls EXCEPT ![c] = call] /\ UNCHANGED table
        /\ table[old.member] # NoRow
    BY <1>4 DEF Write, Goes
  <2>2. call \in CallRecord /\ call.op = "route" /\ call.in = old.in /\ call.pc \in {"trigger", "commit"}
    BY <1>2 DEF CallRecord
  <2> HIDE DEF call
  <2>3. RouteWaits(table, old, my)  BY <1>1, WaitFacts
  <2>4. ASSUME NEW mine, \A k, hows : Holds(mine, k, hows) <=>
                            (Holds(my, k, hows) \/ (k = old.member /\ "update" \in hows))
        PROVE  WaitOK(table, call, mine)
    <3>1. RouteWaits(table, call, mine)
      BY <2>1, <2>2, <2>3, <2>4, <1>k, <1>1, <1>2 DEF RouteWaits, HoldsNone
    <3> QED
      BY <3>1, <2>2
         DEF WaitOK, SignUpWaits, JoinWaits, ManageWaits, EraseWaits, Manages, Administers
  <2>l. /\ \A k, hows : Holds(LocksOf(c)', k, hows) <=>
                                (Holds(my, k, hows) \/ (k = old.member /\ "update" \in hows))
        /\ \A d \in Caller : d # c => LocksOf(d)' = LocksOf(d)
    BY <1>1, <1>2, <1>k, <2>1, LockGained
  <2>o. WaitOK(table, call, LocksOf(c)')  BY <2>4, <2>l
  <2> QED  BY <1>1, <1>2, <2>1, <2>2, <2>l, <2>o, WaitGoesOn
<1> QED  BY <1>3, <1>4

LEMMA WaitTrigger ==
    ASSUME IInv, WaitInv, NEW c \in Caller, Trigger(c)
    PROVE  WaitInv'
<1> DEFINE old == calls[c]
           my == LocksOf(c)
           call == [old EXCEPT !.pc = "commit"]
<1>k. /\ Key = Membership \cup Workspace \cup Account /\ RoleLock \notin Key
      /\ Membership \cap Workspace = {} /\ Account \cap (Membership \cup Workspace) = {}
      /\ "write" \in Some
  BY KeyAssumption DEF Key, Some
<1>1. /\ old # Nothing /\ old.pc = "trigger" /\ old.todo = {} /\ At(c, "trigger")
      /\ Wanted(old) = {[on |-> old.in, how |-> "write"]}
  BY DEF Trigger, At, Wanted
<1>2. old.op = "route" /\ old \in CallRecord /\ old.in \in Workspace
  BY <1>1, OpFacts DEF SignUpOK, RouteOK, JoinOK, AdminOK, DropOK, EraseOK, Administers, CallRecord
<1>3. CASE Rollback(c)  BY <1>3, WaitEnds
<1>4. CASE ~Rollback(c)
  <2>1. locks' = Taken(c) /\ calls' = [calls EXCEPT ![c] = call] /\ UNCHANGED table
    BY <1>4 DEF Trigger, Goes
  <2>2. call \in CallRecord /\ call.op = "route" /\ call.in = old.in /\ call.pc = "commit"
    BY <1>2 DEF CallRecord
  <2> HIDE DEF call
  <2>3. RouteWaits(table, old, my)  BY <1>1, WaitFacts
  <2>4. ASSUME NEW mine, \A k, hows : Holds(mine, k, hows) <=>
                            (Holds(my, k, hows) \/ (k = old.in /\ "write" \in hows))
        PROVE  WaitOK(table, call, mine)
    <3>1. RouteWaits(table, call, mine)
      BY <2>1, <2>2, <2>3, <2>4, <1>k, <1>1, <1>2 DEF RouteWaits, HoldsNone
    <3> QED
      BY <3>1, <2>2
         DEF WaitOK, SignUpWaits, JoinWaits, ManageWaits, EraseWaits, Manages, Administers
  <2>l. /\ \A k, hows : Holds(LocksOf(c)', k, hows) <=>
                                (Holds(my, k, hows) \/ (k = old.in /\ "write" \in hows))
        /\ \A d \in Caller : d # c => LocksOf(d)' = LocksOf(d)
    BY <1>1, <1>2, <1>k, <2>1, LockGained
  <2>o. WaitOK(table, call, LocksOf(c)')  BY <2>4, <2>l
  <2> QED  BY <1>1, <1>2, <2>1, <2>2, <2>l, <2>o, WaitGoesOn
<1> QED  BY <1>3, <1>4

LEMMA WaitHoldWorkspace ==
    ASSUME IInv, WaitInv, NEW c \in Caller, HoldWorkspace(c)
    PROVE  WaitInv'
<1> DEFINE old == calls[c]
           my == LocksOf(c)
           how == IF old.op = "drop" THEN "write" ELSE "update"
<1>k. /\ Key = Membership \cup Workspace \cup Account /\ RoleLock \notin Key
      /\ Membership \cap Workspace = {} /\ Account \cap (Membership \cup Workspace) = {}
  BY KeyAssumption DEF Key
<1>1. /\ old # Nothing /\ old.pc = "workspace" /\ old.todo = {} /\ At(c, "workspace")
      /\ Wanted(old) = {[on |-> old.in, how |-> how]}
  BY DEF HoldWorkspace, At, Wanted
<1>2. old.op \in Manages /\ old \in CallRecord /\ old.in \in Workspace
  BY <1>1, OpFacts DEF SignUpOK, RouteOK, JoinOK, AdminOK, DropOK, EraseOK, Manages, Administers, CallRecord
<1>3. CASE Rollback(c)  BY <1>3, WaitEnds
<1>4. CASE ~Rollback(c)
  <2>1. locks' = Taken(c) /\ UNCHANGED table
    BY <1>4 DEF HoldWorkspace
  <2>2. how \in Some /\ how \in {"write", "update"} /\ (old.op # "drop" => how = "update")
    BY DEF Some
  <2> HIDE DEF how
  <2>3. /\ \A k, hows : Holds(LocksOf(c)', k, hows) <=> (Holds(my, k, hows) \/ (k = old.in /\ how \in hows))
        /\ \A d \in Caller : d # c => LocksOf(d)' = LocksOf(d)
    BY <1>1, <1>2, <1>k, <2>1, <2>2, LockGained
  <2>4. ManageWaits(table, old, my)  BY <1>1, WaitFacts
  \* The members of before are held, and now the workspace is.
  <2>5. ASSUME NEW call \in CallRecord, call.op \in Manages, call.in = old.in, call.old = old.old,
               call.op = old.op \/ (old.op = "dropAsAdmin" /\ call.op = "drop"),
               \/ call.pc = "delete" /\ call.op = "drop" /\ call.todo = {}
               \/ call.pc \in {"add", "change", "others"} /\ call.op # "drop"
               \/ call.pc = "workspace" /\ call.op = "drop" /\ old.op # "drop",
               \A m \in call.todo : m \in Membership /\ table[m] # NoRow /\ table[m].of = old.in,
               calls' = [calls EXCEPT ![c] = call]
        PROVE  WaitInv'
    <3> DEFINE mine == LocksOf(c)'
    <3>0. \A k, hows : Holds(mine, k, hows) <=> (Holds(my, k, hows) \/ (k = old.in /\ how \in hows))
      BY <2>3
    <3> HIDE DEF mine
    <3>1. \A k : k # old.in => \A hows : Holds(mine, k, hows) <=> Holds(my, k, hows)  BY <3>0
    <3>2. Holds(mine, old.in, {"write", "update"}) /\ (old.op # "drop" => Holds(mine, old.in, {"update"}))
          /\ Holds(mine, old.in, Some)
      BY <3>0, <2>2
    <3>3. call.op # "drop" => Holds(mine, RoleLock, {"update"})
      BY <1>1, <1>2, <2>4, <2>5, <3>0 DEF ManageWaits
    <3>4. \A a \in Account : ~Holds(mine, a, Some)
      BY <1>1, <1>2, <1>k, <2>4, <3>1 DEF ManageWaits
    <3>5. \A w \in Workspace : Holds(mine, w, Some) => w = old.in
      BY <1>2, <2>4, <3>1 DEF ManageWaits
    <3>6. \A m \in Membership : Holds(mine, m, Some) => table[m] # NoRow
      BY <1>2, <1>k, <2>4, <3>1 DEF ManageWaits
    <3>7. \A m \in call.old : table[m] # NoRow /\ table[m].of = call.in => Holds(mine, m, {"update"})
      BY <1>1, <1>2, <2>4, <2>5, <3>0 DEF ManageWaits
    <3>8. ~TakesMembers(call, mine)  BY <2>5, <3>2 DEF TakesMembers
    <3>9. ManageWaits(table, call, mine)
      BY <2>5, <3>2, <3>3, <3>4, <3>5, <3>6, <3>7, <3>8 DEF ManageWaits
    <3>10. WaitOK(table, call, mine)
      BY <2>5, <3>9 DEF WaitOK, SignUpWaits, RouteWaits, JoinWaits, EraseWaits, Manages, Administers
    <3>11. WaitOK(table, call, LocksOf(c)')  BY <3>10 DEF mine
    <3> QED  BY <1>1, <2>1, <2>3, <2>5, <3>11, WaitGoesOn
  <2>6. CASE old.op = "drop"
    <3> DEFINE call == [old EXCEPT !.pc = "delete"]
    <3>1. /\ call \in CallRecord /\ call.op = "drop" /\ call.pc = "delete" /\ call.in = old.in
          /\ call.old = old.old /\ call.todo = {}
      BY <1>1, <1>2, <2>6 DEF CallRecord
    <3>2. calls' = [calls EXCEPT ![c] = call]  BY <1>4, <2>6 DEF HoldWorkspace
    <3> HIDE DEF call
    <3> QED  BY <2>5, <2>6, <3>1, <3>2 DEF Manages
  <2>7. CASE old.op = "dropAsAdmin"
    <3> DEFINE call == HoldingMembers([old EXCEPT !.op = "drop"])
    <3>1. /\ call \in CallRecord /\ call.op = "drop" /\ call.pc = "workspace" /\ call.in = old.in
          /\ call.old = old.old /\ call.todo = MembersOf(old.in, table)
      BY <1>2, <2>7 DEF CallRecord, HoldingMembers, Running, MembersOf
    <3>2. calls' = [calls EXCEPT ![c] = call]  BY <1>4, <2>7 DEF HoldWorkspace
    <3> HIDE DEF call
    <3>3. \A m \in call.todo : m \in Membership /\ table[m] # NoRow /\ table[m].of = old.in
      BY <3>1 DEF MembersOf
    <3> QED  BY <2>5, <2>7, <3>1, <3>2, <3>3 DEF Manages
  <2>8. CASE old.op = "add"
    <3> DEFINE call == [old EXCEPT !.pc = "add"]
    <3>1. /\ call \in CallRecord /\ call.op = "add" /\ call.pc = "add" /\ call.in = old.in
          /\ call.old = old.old /\ call.todo = {}
      BY <1>1, <1>2, <2>8 DEF CallRecord
    <3>2. calls' = [calls EXCEPT ![c] = call]  BY <1>4, <2>8 DEF HoldWorkspace
    <3> HIDE DEF call
    <3> QED  BY <2>5, <2>8, <3>1, <3>2 DEF Manages, Administers
  <2>9. CASE old.op = "setRole"
    <3> DEFINE call == Running(old, "hold", RowsOf(old, {old.who}), "change")
    <3>1. /\ call \in CallRecord /\ call.op = "setRole" /\ call.pc = "change" /\ call.in = old.in
          /\ call.old = old.old /\ call.todo = RowsOf(old, {old.who})
      BY <1>2, <2>9 DEF CallRecord, Running, RowsOf, MembersOf
    <3>2. calls' = [calls EXCEPT ![c] = call]  BY <1>4, <2>9 DEF HoldWorkspace
    <3> HIDE DEF call
    <3>3. \A m \in call.todo : m \in Membership /\ table[m] # NoRow /\ table[m].of = old.in
      BY <3>1 DEF RowsOf, MembersOf
    <3> QED  BY <2>5, <2>9, <3>1, <3>2, <3>3 DEF Manages, Administers
  <2>10. CASE old.op = "setOwner"
    <3> DEFINE call == Running(old, "hold", OwnersOf(old.in, table), "others")
    <3>1. /\ call \in CallRecord /\ call.op = "setOwner" /\ call.pc = "others" /\ call.in = old.in
          /\ call.old = old.old /\ call.todo = OwnersOf(old.in, table)
      BY <1>2, <2>10 DEF CallRecord, Running, OwnersOf, MembersOf
    <3>2. calls' = [calls EXCEPT ![c] = call]  BY <1>4, <2>10 DEF HoldWorkspace
    <3> HIDE DEF call
    <3>3. \A m \in call.todo : m \in Membership /\ table[m] # NoRow /\ table[m].of = old.in
      BY <3>1 DEF OwnersOf, MembersOf
    <3> QED  BY <2>5, <2>10, <3>1, <3>2, <3>3 DEF Manages, Administers
  <2> QED  BY <1>2, <2>6, <2>7, <2>8, <2>9, <2>10 DEF Manages, Administers
<1> QED  BY <1>3, <1>4

LEMMA WaitDelete ==
    ASSUME IInv, WaitInv, NEW c \in Caller, Delete(c)
    PROVE  WaitInv'
<1> DEFINE old == calls[c]
           my == LocksOf(c)
           call == Running(old, "erase", MembersOf(old.in, table), "commit")
<1>k. /\ Key = Membership \cup Workspace \cup Account /\ RoleLock \notin Key
      /\ Membership \cap Workspace = {} /\ Account \cap (Membership \cup Workspace) = {}
      /\ "update" \in Some
  BY KeyAssumption DEF Key, Some
<1>1. /\ old # Nothing /\ old.pc = "delete" /\ old.todo = {} /\ At(c, "delete")
      /\ Wanted(old) = {[on |-> old.in, how |-> "update"]}
      /\ locks' = Taken(c) /\ calls' = [calls EXCEPT ![c] = call] /\ UNCHANGED table
  BY DEF Delete, At, Run, Wanted
<1>2. old.op = "drop" /\ old \in CallRecord /\ old.in \in Workspace
  BY <1>1, OpFacts DEF SignUpOK, RouteOK, JoinOK, AdminOK, DropOK, EraseOK, Administers, CallRecord
<1>3. /\ call \in CallRecord /\ call.op = "drop" /\ call.pc = "commit" /\ call.in = old.in
      /\ call.old = old.old /\ call.todo = MembersOf(old.in, table)
  BY <1>2 DEF CallRecord, Running, MembersOf
<1> HIDE DEF call
<1>4. /\ \A k, hows : Holds(LocksOf(c)', k, hows) <=>
                            (Holds(my, k, hows) \/ (k = old.in /\ "update" \in hows))
      /\ \A d \in Caller : d # c => LocksOf(d)' = LocksOf(d)
  BY <1>1, <1>2, <1>k, LockGained
<1>5. ManageWaits(table, old, my)  BY <1>1, WaitFacts
<1>6. ASSUME NEW mine, \A k, hows : Holds(mine, k, hows) <=>
                            (Holds(my, k, hows) \/ (k = old.in /\ "update" \in hows))
      PROVE  WaitOK(table, call, mine)
  <2>1. \A k : k # old.in => \A hows : Holds(mine, k, hows) <=> Holds(my, k, hows)  BY <1>6
  <2>2. Holds(mine, old.in, {"write", "update"})  BY <1>6
  <2>3. \A a \in Account : ~Holds(mine, a, Some)
    BY <1>1, <1>2, <1>k, <1>5, <2>1 DEF ManageWaits, Manages
  <2>4. \A w \in Workspace : Holds(mine, w, Some) => w = old.in
    BY <1>2, <1>5, <2>1 DEF ManageWaits, Manages
  <2>5. \A m \in Membership : Holds(mine, m, Some) => table[m] # NoRow
    BY <1>2, <1>k, <1>5, <2>1 DEF ManageWaits, Manages
  <2>6. \A m \in call.old : table[m] # NoRow /\ table[m].of = call.in => Holds(mine, m, {"update"})
    BY <1>1, <1>2, <1>3, <1>5, <1>6 DEF ManageWaits, Manages
  <2>7. \A m \in call.todo : m \in Membership /\ (table[m] # NoRow => table[m].of = call.in)
    BY <1>3 DEF MembersOf
  <2>8. ManageWaits(table, call, mine)
    BY <1>3, <2>2, <2>3, <2>4, <2>5, <2>6, <2>7 DEF ManageWaits, TakesMembers
  <2> QED
    BY <1>3, <2>8 DEF WaitOK, SignUpWaits, RouteWaits, JoinWaits, EraseWaits
<1>7. WaitOK(table, call, LocksOf(c)')  BY <1>4, <1>6
<1> QED  BY <1>1, <1>2, <1>3, <1>4, <1>7, WaitGoesOn

\* A call of an administrator goes on, with the workspace held.
LEMMA WaitManaged ==
    ASSUME IInv, WaitInv, NEW c \in Caller, calls[c] # Nothing, UNCHANGED <<table, locks>>,
           calls[c].op \in Administers, calls[c].pc \in {"add", "change", "others", "give"},
           calls[c].todo = {}, NEW call \in CallRecord, call.op = calls[c].op,
           call.pc \in {"names", "commit", "give"}, call.in = calls[c].in, call.old = calls[c].old,
           \A m \in call.todo : m \in Membership /\ table[m] # NoRow /\ table[m].of = calls[c].in,
           calls' = [calls EXCEPT ![c] = call]
    PROVE  WaitInv'
<1> DEFINE old == calls[c]
           my == LocksOf(c)
<1>1. ManageWaits(table, old, my)  BY WaitFacts
<1>2. \A a \in Account : ~Holds(my, a, Some)  BY <1>1 DEF ManageWaits, Manages
<1>3. ManageWaits(table, call, my)
  BY <1>1, <1>2 DEF ManageWaits, TakesMembers, Manages, Administers
<1>4. WaitOK(table, call, my)
  BY <1>3 DEF WaitOK, SignUpWaits, RouteWaits, JoinWaits, EraseWaits, Administers
<1> QED  BY <1>4, WaitSame

LEMMA WaitChangeRole ==
    ASSUME IInv, WaitInv, NEW c \in Caller, ChangeRole(c)
    PROVE  WaitInv'
<1> DEFINE old == calls[c]
           call == [old EXCEPT !.pc = "commit"]
<1>1. old # Nothing /\ old.pc = "change" /\ old.todo = {}  BY DEF ChangeRole, At
<1>2. CASE Rollback(c)  BY <1>2, WaitEnds
<1>3. CASE ~Rollback(c)
  <2>1. calls' = [calls EXCEPT ![c] = call] /\ UNCHANGED <<table, locks>>
    BY <1>3 DEF ChangeRole, Goes
  <2>2. old.op \in Administers /\ old \in CallRecord
    BY <1>1, OpFacts DEF CallRecord, SignUpOK, RouteOK, JoinOK, AdminOK, DropOK, EraseOK, Administers
  <2>3. /\ call \in CallRecord /\ call.op = old.op /\ call.pc = "commit" /\ call.in = old.in
        /\ call.old = old.old /\ call.todo = {}
    BY <1>1, <2>2 DEF CallRecord
  <2> HIDE DEF call
  <2> QED  BY <1>1, <2>1, <2>2, <2>3, WaitManaged
<1> QED  BY <1>2, <1>3

LEMMA WaitAddMember ==
    ASSUME IInv, WaitInv, NEW c \in Caller, AddMember(c)
    PROVE  WaitInv'
<1> DEFINE old == calls[c]
           call == [old EXCEPT !.pc = "names"]
<1>1. old # Nothing /\ old.pc = "add" /\ old.todo = {}  BY DEF AddMember, At
<1>2. CASE Rollback(c)  BY <1>2, WaitEnds
<1>3. CASE ~Rollback(c)
  <2>1. calls' = [calls EXCEPT ![c] = call] /\ UNCHANGED <<table, locks>>
    BY <1>3 DEF AddMember, Goes
  <2>2. old.op \in Administers /\ old \in CallRecord
    BY <1>1, OpFacts DEF CallRecord, SignUpOK, RouteOK, JoinOK, AdminOK, DropOK, EraseOK, Administers
  <2>3. /\ call \in CallRecord /\ call.op = old.op /\ call.pc = "names" /\ call.in = old.in
        /\ call.old = old.old /\ call.todo = {}
    BY <1>1, <2>2 DEF CallRecord
  <2> HIDE DEF call
  <2> QED  BY <1>1, <2>1, <2>2, <2>3, WaitManaged
<1> QED  BY <1>2, <1>3

LEMMA WaitHoldGiven ==
    ASSUME IInv, WaitInv, NEW c \in Caller, HoldGiven(c)
    PROVE  WaitInv'
<1> DEFINE old == calls[c]
           rows == RowsOf(old, OthersHeld(c) \cup {old.who})
           call == Running(old, "hold", rows, "give")
<1>1. old # Nothing /\ old.pc = "others" /\ old.todo = {}  BY DEF HoldGiven, At
<1>2. CASE Rollback(c)  BY <1>2, WaitEnds
<1>3. CASE ~Rollback(c)
  <2>1. calls' = [calls EXCEPT ![c] = call] /\ UNCHANGED <<table, locks>>
    BY <1>3 DEF HoldGiven, Run
  <2>2. old.op \in Administers /\ old \in CallRecord
    BY <1>1, OpFacts DEF CallRecord, SignUpOK, RouteOK, JoinOK, AdminOK, DropOK, EraseOK, Administers
  <2>3. /\ call \in CallRecord /\ call.op = old.op /\ call.pc = "give" /\ call.in = old.in
        /\ call.old = old.old /\ call.todo = rows
    BY ZenonT(60), <2>2 DEF CallRecord, Running, RowsOf, MembersOf
  <2>4. \A m \in rows : m \in Membership /\ table[m] # NoRow /\ table[m].of = old.in
    BY DEF RowsOf, MembersOf
  <2> HIDE DEF call, rows
  <2> QED  BY <1>1, <2>1, <2>2, <2>3, <2>4, WaitManaged
<1> QED  BY <1>2, <1>3

LEMMA WaitGiveOwner ==
    ASSUME IInv, WaitInv, NEW c \in Caller, GiveOwner(c)
    PROVE  WaitInv'
<1> DEFINE old == calls[c]
<1>1. /\ old # Nothing /\ old.pc = "give" /\ old.todo = {} /\ UNCHANGED <<table, locks>>
  BY DEF GiveOwner, At
<1>2. old.op \in Administers /\ old \in CallRecord
  BY <1>1, OpFacts DEF CallRecord, SignUpOK, RouteOK, JoinOK, AdminOK, DropOK, EraseOK, Administers
<1>3. PICK pc \in {"names", "commit"} : calls' = [calls EXCEPT ![c] = [old EXCEPT !.pc = pc]]
  BY DEF GiveOwner, Goes
<1>4. PICK call : call = [old EXCEPT !.pc = pc]  OBVIOUS
<1>5. /\ call \in CallRecord /\ call.op = old.op /\ call.pc = pc /\ call.in = old.in
      /\ call.old = old.old /\ call.todo = {}
  BY <1>1, <1>2, <1>4 DEF CallRecord
<1> QED  BY <1>1, <1>2, <1>3, <1>4, <1>5, WaitManaged

LEMMA WaitHoldAccount ==
    ASSUME IInv, WaitInv, NEW c \in Caller, HoldAccount(c)
    PROVE  WaitInv'
<1> DEFINE old == calls[c]
           my == LocksOf(c)
           call == Running(old, "hold", MembershipsOf(old.who, table), "workspaces")
<1>k. /\ Key = Membership \cup Workspace \cup Account /\ RoleLock \notin Key
      /\ Membership \cap Workspace = {} /\ Account \cap (Membership \cup Workspace) = {}
      /\ "update" \in Some
  BY KeyAssumption DEF Key, Some
<1>1. /\ old # Nothing /\ old.pc = "user" /\ old.todo = {} /\ At(c, "user")
      /\ Wanted(old) = {[on |-> old.who, how |-> "update"]}
  BY DEF HoldAccount, At, Wanted
<1>2. old.op = "erase" /\ old \in CallRecord /\ old.who \in Account
  BY <1>1, OpFacts DEF SignUpOK, RouteOK, JoinOK, AdminOK, DropOK, EraseOK, Administers, CallRecord
<1>3. CASE Rollback(c)  BY <1>3, WaitEnds
<1>4. CASE ~Rollback(c)
  <2>1. locks' = Taken(c) /\ calls' = [calls EXCEPT ![c] = call] /\ UNCHANGED table
    BY <1>4 DEF HoldAccount, Run
  <2>2. /\ call \in CallRecord /\ call.op = "erase" /\ call.in = old.in /\ call.pc = "workspaces"
        /\ call.who = old.who /\ call.todo = MembershipsOf(old.who, table) /\ call.old \subseteq Membership
    BY <1>2 DEF CallRecord, Running, MembershipsOf
  <2> HIDE DEF call
  <2>3. HoldsNone(my, Key)  BY <1>1, <1>2, WaitFacts DEF EraseWaits
  <2>4. /\ \A k, hows : Holds(LocksOf(c)', k, hows) <=>
                                (Holds(my, k, hows) \/ (k = old.who /\ "update" \in hows))
        /\ \A d \in Caller : d # c => LocksOf(d)' = LocksOf(d)
    BY <1>1, <1>2, <1>k, <2>1, LockGained
  <2>5. HoldsNone(LocksOf(c)', Membership \cup Workspace)
    BY <1>2, <1>k, <2>3, <2>4 DEF HoldsNone
  <2>6. ASSUME NEW mine, HoldsNone(mine, Membership \cup Workspace) PROVE WaitOK(table, call, mine)
    <3>1. EraseWaits(table, call, mine)
      BY <2>2, <2>6 DEF EraseWaits, HoldsNone, MembershipsOf
    <3> QED
      BY <3>1, <2>2
         DEF WaitOK, SignUpWaits, RouteWaits, JoinWaits, ManageWaits, Manages, Administers
  <2>7. WaitOK(table, call, LocksOf(c)')  BY <2>5, <2>6
  <2> QED  BY <1>1, <1>2, <2>1, <2>2, <2>4, <2>7, WaitGoesOn
<1> QED  BY <1>3, <1>4

\* A deletion of an account goes on, and takes no lock.
LEMMA WaitErases ==
    ASSUME IInv, WaitInv, NEW c \in Caller, calls[c] # Nothing, UNCHANGED <<table, locks>>,
           calls[c].op = "erase", NEW call \in CallRecord, call.op = "erase",
           call.in = calls[c].in, calls' = [calls EXCEPT ![c] = call],
           EraseWaits(table, call, LocksOf(c))
    PROVE  WaitInv'
<1>1. WaitOK(table, call, LocksOf(c))
  BY DEF WaitOK, SignUpWaits, RouteWaits, JoinWaits, ManageWaits, Manages, Administers
<1> QED  BY <1>1, WaitSame

LEMMA WaitHoldWorkspaces ==
    ASSUME IInv, WaitInv, NEW c \in Caller, HoldWorkspaces(c)
    PROVE  WaitInv'
<1> DEFINE old == calls[c]
           my == LocksOf(c)
           rows == {table[m].of : m \in MembershipsOf(old.who, table)}
           call == Running(old, "hold", rows, "sole")
<1>1. /\ old # Nothing /\ old.pc = "workspaces" /\ old.todo = {}
      /\ calls' = [calls EXCEPT ![c] = call] /\ UNCHANGED <<table, locks>>
  BY DEF HoldWorkspaces, At, Run
<1>2. /\ old.op = "erase" /\ old \in CallRecord /\ EraseOK(table, draft[c], old, my)
  BY <1>1, OpFacts DEF CallRecord, SignUpOK, RouteOK, JoinOK, AdminOK, DropOK, EraseOK, Administers
<1>3. rows \subseteq Workspace
  BY DEF MembershipsOf, IInv, Types, TabOK, RowsAt, MemberRow, Key
<1>4. /\ call \in CallRecord /\ call.op = "erase" /\ call.pc = "sole" /\ call.in = old.in
      /\ call.who = old.who /\ call.old = old.old /\ call.todo = rows
  BY <1>2, <1>3 DEF CallRecord, Running
<1>5. \A w \in rows : w \in Workspace /\ \E m \in Membership :
            Holds(my, m, {"update"}) /\ table[m] # NoRow /\ table[m].of = w
  BY <1>1, <1>2, <1>3 DEF EraseOK, MembershipsOf
<1> HIDE DEF call, rows
<1>6. EraseWaits(table, old, my)  BY <1>1, WaitFacts
<1>7. EraseWaits(table, call, my)  BY <1>1, <1>2, <1>4, <1>5, <1>6 DEF EraseWaits
<1> QED  BY <1>1, <1>2, <1>4, <1>7, WaitErases

LEMMA WaitEraseAccount ==
    ASSUME IInv, WaitInv, NEW c \in Caller, EraseAccount(c)
    PROVE  WaitInv'
<1> DEFINE old == calls[c]
           my == LocksOf(c)
           call == Running(old, "erase", MembershipsOf(old.who, table), "erased")
<1>1. old # Nothing /\ old.pc = "sole" /\ old.todo = {}  BY DEF EraseAccount, At
<1>2. CASE Rollback(c)  BY <1>2, WaitEnds
<1>3. CASE ~Rollback(c)
  <2>1. calls' = [calls EXCEPT ![c] = call] /\ UNCHANGED <<table, locks>>
    BY <1>3 DEF EraseAccount, Run
  <2>2. old.op = "erase" /\ old \in CallRecord
    BY <1>1, OpFacts DEF CallRecord, SignUpOK, RouteOK, JoinOK, AdminOK, DropOK, EraseOK, Administers
  <2>3. /\ call \in CallRecord /\ call.op = "erase" /\ call.pc = "erased" /\ call.in = old.in
        /\ call.who = old.who /\ call.old = old.old /\ call.todo = MembershipsOf(old.who, table)
    BY ZenonT(60), <2>2 DEF CallRecord, Running, MembershipsOf
  <2> HIDE DEF call
  <2>4. EraseWaits(table, old, my)  BY <1>1, WaitFacts
  <2>5. EraseWaits(table, call, my)
    BY <1>1, <2>2, <2>3, <2>4 DEF EraseWaits, MembershipsOf
  <2> QED  BY <1>1, <2>1, <2>2, <2>3, <2>5, WaitErases
<1> QED  BY <1>2, <1>3

LEMMA WaitEraseMemberships ==
    ASSUME IInv, WaitInv, NEW c \in Caller, EraseMemberships(c)
    PROVE  WaitInv'
<1> DEFINE old == calls[c]
           my == LocksOf(c)
           call == [old EXCEPT !.pc = "commit"]
<1>1. old # Nothing /\ old.pc = "erased" /\ old.todo = {}  BY DEF EraseMemberships, At
<1>2. CASE Rollback(c)  BY <1>2, WaitEnds
<1>3. CASE ~Rollback(c)
  <2>1. calls' = [calls EXCEPT ![c] = call] /\ UNCHANGED <<table, locks>>
    BY <1>3 DEF EraseMemberships, Goes
  <2>2. old.op = "erase" /\ old \in CallRecord
    BY <1>1, OpFacts DEF CallRecord, SignUpOK, RouteOK, JoinOK, AdminOK, DropOK, EraseOK, Administers
  <2>3. /\ call \in CallRecord /\ call.op = "erase" /\ call.pc = "commit" /\ call.in = old.in
        /\ call.who = old.who /\ call.old = old.old /\ call.todo = {}
    BY <1>1, <2>2 DEF CallRecord
  <2> HIDE DEF call
  <2>4. EraseWaits(table, old, my)  BY <1>1, WaitFacts
  <2>5. EraseWaits(table, call, my)  BY <1>1, <2>2, <2>3, <2>4 DEF EraseWaits
  <2> QED  BY <1>1, <2>1, <2>2, <2>3, <2>5, WaitErases
<1> QED  BY <1>2, <1>3

LEMMA WaitVisit ==
    ASSUME IInv, WaitInv, NEW c \in Caller, Visit(c)
    PROVE  WaitInv'
<1> DEFINE old == calls[c]
           my == LocksOf(c)
           dr == draft[c]
<1>k. /\ Key = Membership \cup Workspace \cup Account /\ RoleLock \notin Key
      /\ Membership \cap Workspace = {} /\ Account \cap (Membership \cup Workspace) = {}
  BY KeyAssumption DEF Key
<1>1. PICK k \in NextRows(old) :
        /\ Free(c, k, "update") /\ calls' = [calls EXCEPT ![c].todo = @ \ {k}]
        /\ IF View(c)[k] = NoRow
           THEN UNCHANGED <<draft, locks>>
           ELSE /\ locks' = Held(c, k, "update")
                /\ draft' = IF old.does = "erase" THEN [draft EXCEPT ![c][k] = NoRow] ELSE draft
  BY DEF Visit
<1>2. old # Nothing /\ UNCHANGED table  BY DEF Visit
<1>3. PICK call : call = [old EXCEPT !.todo = @ \ {k}]  OBVIOUS
<1>4. /\ calls' = [calls EXCEPT ![c] = call] /\ call \in CallRecord
      /\ k \in old.todo /\ k \in Membership \cup Workspace
      /\ call.op = old.op /\ call.pc = old.pc /\ call.in = old.in /\ call.who = old.who
      /\ call.old = old.old /\ call.todo = old.todo \ {k}
      /\ \A d \in Caller : d # c => LocksOf(d)' = LocksOf(d)
      /\ OneMore(my, LocksOf(c)', k)
      /\ View(c)[k] # NoRow => Holds(LocksOf(c)', k, {"update"})
  <2>1. old \in CallRecord /\ k \in old.todo /\ k \in Membership \cup Workspace
    BY <1>1, <1>2, NextIsInTodo, CallFacts
  <2>2. calls' = [calls EXCEPT ![c] = call]  BY <1>1, <1>3
  <2>3. \A d \in Caller : d # c => LocksOf(d)' = LocksOf(d)  BY <1>1, <1>2, <1>3, VisitFacts
  <2>4. OneMore(my, LocksOf(c)', k)  BY <1>1, <1>2, <1>3, VisitFacts
  <2>5. View(c)[k] # NoRow => Holds(LocksOf(c)', k, {"update"})  BY <1>1, <1>2, <1>3, VisitFacts
  <2> QED  BY <1>3, <2>1, <2>2, <2>3, <2>4, <2>5 DEF CallRecord
<1>5. View(c)[k] = NoRow => LocksOf(c)' = my
  BY <1>1, LocksKept DEF IInv
<1>6. PICK mine : mine = LocksOf(c)'  OBVIOUS
<1>7. /\ \A i, hows : Holds(my, i, hows) => Holds(mine, i, hows)
      /\ \A i : i # k => \A hows : Holds(mine, i, hows) => Holds(my, i, hows)
      /\ View(c)[k] # NoRow => Holds(mine, k, {"update"})
      /\ View(c)[k] = NoRow => mine = my
  BY <1>4, <1>5, <1>6 DEF OneMore
\* A row that it comes to while it holds its own is there still.
<1>8. /\ k \in Membership /\ View(c)[k] # NoRow => table[k] # NoRow
      /\ old.pc \in {"workspace", "workspaces"} /\ table[k] # NoRow => Holds(mine, k, {"update"})
  <2>1. dr[k] # Untouched /\ k \in Membership => table[k] # NoRow  BY <1>2, <1>4, CallFacts
  <2>2. View(c)[k] = IF dr[k] = Untouched THEN table[k] ELSE dr[k]  BY <1>4, <1>k DEF View
  <2>3. old.pc \in {"workspace", "workspaces"} => dr[k] = Untouched
    BY <1>2, <1>4, <1>k, CallFacts DEF Early
  <2> QED  BY <2>1, <2>2, <2>3, <1>7
\* Rows are held in the order of their ids.
<1>9. old.pc \in {"workspace", "workspaces"} => \A j \in call.todo : k < j
  <2> SUFFICES ASSUME old.pc \in {"workspace", "workspaces"}, NEW j \in call.todo PROVE k < j
    OBVIOUS
  <2>1. old.does = "hold"  BY <1>2, CallFacts DEF CallOK, Idle, Early
  <2>2. k = Min(old.todo)  BY <1>1, <1>4, <2>1 DEF NextRows
  <2>3. old.todo \in SUBSET Nat /\ old.todo # {}
    BY <1>2, <1>4, NextIsInTodo, IdAssumption
  <2>4. k <= j  BY <1>4, <2>2, <2>3, SmallestIs
  <2>5. j # k /\ j \in Nat /\ k \in Nat  BY <1>4, <2>3
  <2> QED  BY <2>4, <2>5
<1>10. old.old \subseteq Membership /\ \A m \in Membership : m \in Nat
  BY <1>2, CallFacts, IdAssumption DEF CallRecord
<1>11. old.op \in Manages \cup {"erase"}
  BY <1>2, <1>4, OpFacts DEF CallRecord, SignUpOK, RouteOK, JoinOK, Manages, Administers
<1>12. CASE old.op \in Manages
  <2>1. ManageWaits(table, old, my)  BY <1>2, WaitFacts
  <2>2. /\ k \in Membership /\ old.pc \notin {"role", "delete"}
        /\ \A a \in Account : ~Holds(my, a, Some)
    BY <1>4, <1>12, <2>1 DEF ManageWaits
  <2>3. old.in \in Workspace
    BY <1>2, <1>12, OpFacts DEF AdminOK, DropOK, Manages
  <2>4. TakesMembers(call, mine) <=> TakesMembers(old, my)
    BY <1>4, <1>7, <1>k, <2>2, <2>3 DEF TakesMembers
  <2>5. call.op # "drop" => Holds(mine, RoleLock, {"update"})
    BY <1>4, <1>7, <1>12, <2>1, <2>2 DEF ManageWaits
  <2>6. \A a \in Account : ~Holds(mine, a, Some)  BY <1>7, <1>k, <2>2
  <2>7. \A w \in Workspace : Holds(mine, w, Some) =>
                /\ w = call.in /\ Holds(mine, w, {"write", "update"})
                /\ call.pc = "workspace" => call.op = "drop" /\ Holds(mine, w, {"update"})
    <3> SUFFICES ASSUME NEW w \in Workspace, Holds(mine, w, Some)
                 PROVE  /\ w = call.in /\ Holds(mine, w, {"write", "update"})
                        /\ call.pc = "workspace" => call.op = "drop" /\ Holds(mine, w, {"update"})
      OBVIOUS
    <3>1. Holds(my, w, Some)  BY <1>7, <1>k, <2>2
    <3>2. /\ w = old.in /\ Holds(my, w, {"write", "update"})
          /\ old.pc = "workspace" => old.op = "drop" /\ Holds(my, w, {"update"})
      BY <1>12, <2>1, <3>1 DEF ManageWaits
    <3> QED  BY <1>4, <1>7, <3>2
  <2>8. \A m \in Membership : Holds(mine, m, Some) => table[m] # NoRow
    BY <1>7, <1>8, <1>12, <2>1, <2>2 DEF ManageWaits
  <2>9. \A m \in call.todo : m \in Membership /\ (table[m] # NoRow => table[m].of = call.in)
    BY <1>4, <1>12, <2>1 DEF ManageWaits
  <2>10. \A m \in call.old : table[m] # NoRow /\ table[m].of = call.in =>
                Holds(mine, m, {"update"}) \/ (m \in call.todo /\ TakesMembers(call, mine))
    <3> SUFFICES ASSUME NEW m \in old.old, table[m] # NoRow, table[m].of = old.in,
                        ~Holds(mine, m, {"update"})
                 PROVE  m \in call.todo /\ TakesMembers(call, mine)
      BY <1>4
    <3>1. m \in old.todo /\ TakesMembers(old, my)
      BY <1>7, <1>12, <2>1, <2>2 DEF ManageWaits
    <3>2. m # k  BY <1>8, <2>2, <3>1 DEF TakesMembers
    <3> QED  BY <1>4, <2>4, <3>1, <3>2
  <2>11. TakesMembers(call, mine) =>
            \A m \in Membership, j \in call.todo : Holds(mine, m, Some) => m < j
    <3> SUFFICES ASSUME TakesMembers(old, my), NEW m \in Membership, NEW j \in call.todo,
                        Holds(mine, m, Some)
                 PROVE  m < j
      BY <2>4
    <3>1. CASE m = k  BY <1>9, <3>1 DEF TakesMembers
    <3>2. CASE m # k
      <4>1. Holds(my, m, Some) /\ j \in old.todo  BY <1>4, <1>7, <3>2
      <4> QED  BY <1>12, <2>1, <4>1 DEF ManageWaits
    <3> QED  BY <3>1, <3>2
  <2>12. ManageWaits(table, call, mine)
    BY <1>4, <2>2, <2>5, <2>6, <2>7, <2>8, <2>9, <2>10, <2>11 DEF ManageWaits
  <2>13. WaitOK(table, call, mine)
    BY <1>4, <1>12, <2>12
       DEF WaitOK, SignUpWaits, RouteWaits, JoinWaits, EraseWaits, Manages, Administers
  <2> QED  BY <1>2, <1>4, <1>6, <2>13, WaitGoesOn
<1>13. CASE old.op = "erase"
  <2>1. EraseWaits(table, old, my) /\ EraseOK(table, dr, old, my)  BY <1>2, WaitFacts, OpFacts
  <2>2. /\ old.pc \notin {"role", "user"}
        /\ old.pc = "sole" => k \in Workspace
        /\ old.pc # "sole" => k \in Membership
    BY <1>4, <1>13, <2>1 DEF EraseWaits, EraseOK
  <2>3. \A w \in Workspace : Holds(mine, w, Some) =>
                call.pc # "workspaces" /\ Holds(mine, w, {"write", "update"})
    <3> SUFFICES ASSUME NEW w \in Workspace, Holds(mine, w, Some)
                 PROVE  old.pc # "workspaces" /\ Holds(mine, w, {"write", "update"})
      BY <1>4
    <3>1. CASE Holds(my, w, Some)  BY <1>7, <1>13, <2>1, <3>1 DEF EraseWaits
    <3>2. CASE ~Holds(my, w, Some)
      <4>1. w = k /\ Holds(mine, k, {"update"})  BY <1>7, <3>2
      <4> QED  BY <4>1, <2>2, <1>k, SomeHeld
    <3> QED  BY <3>1, <3>2
  <2>4. \A m \in Membership : Holds(mine, m, Some) => table[m] # NoRow
    BY <1>7, <1>8, <1>13, <2>1 DEF EraseWaits
  <2>5. call.pc # "sole" =>
            \A m \in call.todo : m \in Membership /\ (table[m] # NoRow => table[m].who = call.who)
    BY <1>4, <1>13, <2>1 DEF EraseWaits
  <2>6. call.pc = "sole" =>
            \A w \in call.todo :
                /\ w \in Workspace
                /\ \E m \in Membership :
                        Holds(mine, m, {"update"}) /\ table[m] # NoRow /\ table[m].of = w
    BY <1>4, <1>7, <1>13, <2>1 DEF EraseWaits
  <2>7. \A m \in call.old : table[m] # NoRow /\ table[m].who = call.who =>
                Holds(mine, m, {"update"}) \/ (m \in call.todo /\ call.pc = "workspaces")
    <3> SUFFICES ASSUME NEW m \in old.old, table[m] # NoRow, table[m].who = old.who,
                        ~Holds(mine, m, {"update"})
                 PROVE  m \in call.todo /\ call.pc = "workspaces"
      BY <1>4
    <3>1. m \in old.todo /\ old.pc = "workspaces"
      BY <1>7, <1>13, <2>1, <2>2 DEF EraseWaits
    <3>2. m # k  BY <1>8, <2>2, <3>1
    <3> QED  BY <1>4, <3>1, <3>2
  <2>8. call.pc = "workspaces" =>
            \A m \in Membership, j \in call.todo : Holds(mine, m, Some) => m < j
    <3> SUFFICES ASSUME old.pc = "workspaces", NEW m \in Membership, NEW j \in call.todo,
                        Holds(mine, m, Some)
                 PROVE  m < j
      BY <1>4
    <3>1. CASE m = k  BY <1>9, <3>1
    <3>2. CASE m # k
      <4>1. Holds(my, m, Some) /\ j \in old.todo  BY <1>4, <1>7, <3>2
      <4> QED  BY <1>13, <2>1, <4>1 DEF EraseWaits
    <3> QED  BY <3>1, <3>2
  <2>9. EraseWaits(table, call, mine)
    BY <1>4, <2>2, <2>3, <2>4, <2>5, <2>6, <2>7, <2>8 DEF EraseWaits
  <2>10. WaitOK(table, call, mine)
    BY <1>4, <1>13, <2>9
       DEF WaitOK, SignUpWaits, RouteWaits, JoinWaits, ManageWaits, Manages, Administers
  <2> QED  BY <1>2, <1>4, <1>6, <2>10, WaitGoesOn
<1> QED  BY <1>11, <1>12, <1>13

\* Accounts that change are nothing to what calls wait for.
LEMMA WaitAdministrators ==
    ASSUME IInv, WaitInv, NEW by \in Account, NEW a \in Account, NEW given \in BOOLEAN,
           SetInstanceAdmin(by, a, given) \/ SetSuspended(by, a, given)
    PROVE  WaitInv'
<1>k. Key = Membership \cup Workspace \cup Account  BY DEF Key
<1>1. PICK row : table' = [table EXCEPT ![a] = row]
  BY DEF SetInstanceAdmin, SetSuspended
<1>2. \A k \in Membership \cup Workspace : table'[k] = table[k]
  BY <1>1, <1>k, KeyAssumption DEF IInv, Types, TabOK
<1>3. UNCHANGED <<locks, calls>> /\ \A d \in Caller : LocksOf(d)' = LocksOf(d)
  BY LocksKept DEF SetInstanceAdmin, SetSuspended, IInv
<1>4. ASSUME NEW d \in Caller PROVE WaitOK(table', calls[d], LocksOf(d))
  <2> SUFFICES ASSUME calls[d] # Nothing PROVE WaitOK(table', calls[d], LocksOf(d))  BY DEF WaitOK
  <2> DEFINE call == calls[d]
             my == LocksOf(d)
  <2>1. call.old \subseteq Membership  BY CallFacts DEF CallRecord
  <2>2. /\ SignUpWaits(call, my) /\ RouteWaits(table, call, my) /\ JoinWaits(call, my)
        /\ ManageWaits(table, call, my) /\ EraseWaits(table, call, my)
    BY WaitFacts
  <2> HIDE DEF call, my
  <2>3. RouteWaits(table', call, my)  BY <1>2, <2>2 DEF RouteWaits
  <2>4. ManageWaits(table', call, my)
    <3>1. \A m \in Membership : table'[m] = table[m]  BY <1>2
    <3> QED  BY <2>1, <2>2, <3>1 DEF ManageWaits
  <2>5. EraseWaits(table', call, my)
    <3>1. \A m \in Membership : table'[m] = table[m]  BY <1>2
    <3> QED  BY <2>1, <2>2, <3>1 DEF EraseWaits
  <2> QED  BY <2>2, <2>3, <2>4, <2>5 DEF WaitOK, call, my
<1>5. ASSUME NEW d \in Caller, NEW e \in Caller, d # e PROVE NamesNew(calls[d], calls[e])'
  <2>1. NamesNew(calls[d], calls[e])  BY <1>5 DEF WaitInv
  <2>2. calls[d] # Nothing /\ calls[d].op = "create" => calls[d].in \in Workspace
    BY OpFacts DEF JoinOK
  <2> QED  BY <1>2, <1>3, <2>1, <2>2 DEF NamesNew
<1> QED  BY <1>3, <1>4, <1>5 DEF WaitInv

LEMMA WaitStartsRight == Init => WaitInv
BY DEF Init, WaitInv, WaitOK, NamesNew

LEMMA WaitStatement ==
    ASSUME IInv, WaitInv, NEW c \in Caller, Statement(c)
    PROVE  WaitInv'
<1>1. CASE HoldRole(c)  BY <1>1, WaitHoldRole
<1>2. CASE InsertAccount(c)  BY <1>2, WaitInsertAccount
<1>3. CASE InsertMember(c)  BY <1>3, WaitInsertMember
<1>4. CASE NameWorkspace(c)  BY <1>4, WaitNameWorkspace
<1>5. CASE NameAccount(c)  BY <1>5, WaitNameAccount
<1>6. CASE Write(c)  BY <1>6, WaitWrite
<1>7. CASE Trigger(c)  BY <1>7, WaitTrigger
<1>8. CASE HoldWorkspace(c)  BY <1>8, WaitHoldWorkspace
<1>9. CASE Delete(c)  BY <1>9, WaitDelete
<1>10. CASE ChangeRole(c)  BY <1>10, WaitChangeRole
<1>11. CASE AddMember(c)  BY <1>11, WaitAddMember
<1>12. CASE HoldGiven(c)  BY <1>12, WaitHoldGiven
<1>13. CASE GiveOwner(c)  BY <1>13, WaitGiveOwner
<1>14. CASE HoldAccount(c)  BY <1>14, WaitHoldAccount
<1>15. CASE HoldWorkspaces(c)  BY <1>15, WaitHoldWorkspaces
<1>16. CASE EraseAccount(c)  BY <1>16, WaitEraseAccount
<1>17. CASE EraseMemberships(c)  BY <1>17, WaitEraseMemberships
<1>18. CASE Commit(c)  BY <1>18, WaitCommitted
<1> QED
  BY <1>1, <1>2, <1>3, <1>4, <1>5, <1>6, <1>7, <1>8, <1>9, <1>10, <1>11, <1>12, <1>13, <1>14,
     <1>15, <1>16, <1>17, <1>18 DEF Statement

LEMMA EveryStepKeepsTheWaits == IInv /\ WaitInv /\ [Next]_vars => WaitInv'
<1> SUFFICES ASSUME IInv, WaitInv, [Next]_vars PROVE WaitInv'
  OBVIOUS
<1>1. ASSUME NEW c \in Caller, Called(c) PROVE WaitInv'  BY <1>1, WaitCalled
<1>2. ASSUME NEW c \in Caller, Statement(c) PROVE WaitInv'  BY <1>2, WaitStatement
<1>3. ASSUME NEW c \in Caller, Visit(c) PROVE WaitInv'  BY <1>3, WaitVisit
<1>4. ASSUME NEW by \in Account, NEW a \in Account, NEW given \in BOOLEAN,
             SetInstanceAdmin(by, a, given) \/ SetSuspended(by, a, given)
      PROVE  WaitInv'
  BY <1>4, WaitAdministrators
<1>5. ASSUME NEW c \in Caller, Victim(c) \/ Lost(c) PROVE WaitInv'
  <2>1. Rollback(c)  BY <1>5 DEF Victim, Lost
  <2> QED  BY <2>1, WaitEnds
<1>6. CASE UNCHANGED vars
  <2>1. table' = table /\ locks' = locks /\ calls' = calls  BY <1>6 DEF vars
  <2>2. \A d \in Caller : LocksOf(d)' = LocksOf(d)  BY <2>1 DEF LocksOf
  <2> QED  BY <2>1, <2>2 DEF WaitInv, NamesNew
<1> QED  BY <1>1, <1>2, <1>3, <1>4, <1>5, <1>6 DEF Next

\* A circle of waits is always about a member who came after one of its calls
\* started, or one of them is an acceptance: for any number of callers, members,
\* workspaces and accounts, the rows that were there are held in an order that
\* closes no circle.
THEOREM CirclesAreAlwaysAboutNewcomers == Spec => []CirclesAreAboutNewcomers
<1>1. Init => WaitInv  BY WaitStartsRight
<1>2. IInv /\ WaitInv /\ [Next]_vars => WaitInv'  BY EveryStepKeepsTheWaits
<1>3. IInv /\ WaitInv => CirclesAreAboutNewcomers  BY CirclesAreAllRight
<1> QED  BY <1>1, <1>2, <1>3, Invariance, PTL DEF Spec

=============================================================================
