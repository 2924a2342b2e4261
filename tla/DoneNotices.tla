---------------------------- MODULE DoneNotices ----------------------------
(***************************************************************************)
(* The message that tells whoever left a note that it is done               *)
(* (apps/worker/src/done-notices.ts, the statements of                       *)
(* notes-index-postgres.ts).                                                 *)
(*                                                                           *)
(* A read that finds notes done claims their rows with one statement, then    *)
(* takes the notices one after the other: sends the message, and removes the  *)
(* row or gives its claim back.  Neither statement names the claim, so a read *)
(* whose claim ran out writes over the row of another.                        *)
(*                                                                           *)
(* Time is kept in each row and each read: what is left of it, and -1 once it *)
(* ran out.                                                                  *)
(***************************************************************************)
EXTENDS Integers, FiniteSets

CONSTANTS Note,
          Person,     \* an address, or an account: each asks once for a note
          Account,    \* the people who have an account
          Finder,     \* reads that find notes done, at once
          Keep,       \* DONE_NOTICE_KEEP_MS
          Claim,      \* DONE_CLAIM_MS
          MaxAsked,   \* bound: how many notices are asked for
          MaxFaults,  \* bound: lost answers, refused writes, processes that stop
          NoRow, NoNotice

ASSUME KeepAssumption == Keep \in Nat
ASSUME ClaimAssumption == Claim \in Nat
ASSUME AccountAssumption == Account \subseteq Person
ASSUME BoundAssumption == MaxAsked \in Nat /\ MaxFaults \in Nat

VARIABLES rows,     \* done_notices, by note
          indexed,  \* the notes that the index holds
          asked,    \* who asked to be told of which note
          hands,    \* what each read took and still has to settle
          told,     \* how often the provider took a message, two at most
          excused,  \* ghost: notices whose removal failed, or whose answer was lost
          overrun,  \* ghost: notes that a read still had when its claim ran out or their row went
          faults

table == <<rows, indexed, asked>>
ghosts == <<told, excused, overrun>>
noticesVars == <<rows, indexed, asked, hands, told, excused, overrun, faults>>

Notice == Note \X Person
RanOut == -1
Free == -2

Row == [who: Person, keeps: RanOut..Keep, claim: Free..Claim]

ASSUME NoticeAssumption == NoRow \notin Row /\ NoNotice \notin Notice

Hand == [work: SUBSET Notice, step: {"next", "left", "failed"},
         notice: Notice \cup {NoNotice}, claim: RanOut..Claim]

Empty == [work |-> {}, step |-> "next", notice |-> NoNotice, claim |-> RanOut]

NoticesTypeOK ==
    /\ rows \in [Note -> Row \cup {NoRow}]
    /\ indexed \subseteq Note /\ asked \subseteq Notice
    /\ hands \in [Finder -> Hand]
    /\ told \in [Notice -> 0..2]
    /\ excused \subseteq Notice /\ overrun \subseteq Note
    /\ faults \in 0..MaxFaults
    /\ \A n \in Note : rows[n] # NoRow => n \in indexed /\ <<n, rows[n].who>> \in asked

NoticesInit ==
    /\ rows = [n \in Note |-> NoRow] /\ indexed = Note /\ asked = {}
    /\ hands = [r \in Finder |-> Empty]
    /\ told = [q \in Notice |-> 0] /\ excused = {} /\ overrun = {}
    /\ faults = 0

Fault == faults < MaxFaults /\ faults' = faults + 1

There(n) == rows[n] # NoRow

Held(r) == hands[r].work \cup ({hands[r].notice} \ {NoNotice})

InHand == {q[1] : q \in UNION {Held(r) : r \in Finder}}

-----------------------------------------------------------------------------
(* The people, and the notes.                                                *)

\* Mutant of Watch: the second to ask takes the row.
WatchOver(n, p) ==
    /\ n \in indexed
    /\ <<n, p>> \notin asked /\ Cardinality(asked) < MaxAsked
    /\ rows' = [rows EXCEPT ![n] = [who |-> p, keeps |-> Keep, claim |-> Free]]
    /\ asked' = asked \cup {<<n, p>>}
    /\ UNCHANGED <<indexed, hands, ghosts, faults>>

\* A note of the index takes one row.  The read of the index and the insertion are two
\* statements; the foreign key and the conflict make the insertion decide alone.
Watch(n, p) ==
    /\ n \in indexed /\ ~There(n)
    /\ <<n, p>> \notin asked /\ Cardinality(asked) < MaxAsked
    /\ rows' = [rows EXCEPT ![n] = [who |-> p, keeps |-> Keep, claim |-> Free]]
    /\ asked' = asked \cup {<<n, p>>}
    /\ UNCHANGED <<indexed, hands, ghosts, faults>>

Withdrawn(gone) ==
    /\ rows' = [n \in Note |-> IF n \in gone THEN NoRow ELSE rows[n]]
    /\ overrun' = overrun \cup (gone \cap InHand)
    /\ UNCHANGED <<asked, hands, told, excused, faults>>

\* A row goes with the note of the index, with the account, and with the switch of the
\* site.  A read keeps what it took.
Forget(n) == n \in indexed /\ indexed' = indexed \ {n} /\ Withdrawn({n})

AccountGoes(p) ==
    /\ p \in Account
    /\ Withdrawn({n \in Note : There(n) /\ rows[n].who = p})
    /\ UNCHANGED indexed

TurnedOff == Withdrawn(Note) /\ UNCHANGED indexed

Sweep ==
    /\ Withdrawn({n \in Note : There(n) /\ rows[n].keeps = RanOut})
    /\ UNCHANGED indexed

-----------------------------------------------------------------------------
(* take.                                                                     *)

\* Mutant of Claimable: whoever holds it.
ClaimableAlways(n) == There(n) /\ rows[n].keeps # RanOut

Claimable(n) ==
    /\ There(n)
    /\ rows[n].keeps # RanOut
    /\ rows[n].claim \in {Free, RanOut}

\* Mutant of Claimed: a claim gives the row its whole time again.
ClaimedAnew(taken) ==
    [n \in Note |-> IF n \in taken THEN [rows[n] EXCEPT !.claim = Claim, !.keeps = Keep] ELSE rows[n]]

Claimed(taken) ==
    [n \in Note |-> IF n \in taken THEN [rows[n] EXCEPT !.claim = Claim] ELSE rows[n]]

\* A read of a page on which some notes are done.
Take(r) ==
    /\ Held(r) = {}
    /\ \E done \in SUBSET Note :
        LET taken == {n \in done : Claimable(n)} IN
        /\ taken # {}
        /\ rows' = Claimed(taken)
        /\ hands' = [hands EXCEPT ![r] =
                [Empty EXCEPT !.work = {<<n, rows[n].who>> : n \in taken}, !.claim = Claim]]
    /\ UNCHANGED <<indexed, asked, ghosts, faults>>

\* The statement ran and its answer is lost.
TakeUnanswered ==
    /\ Fault
    /\ \E done \in SUBSET Note :
        LET taken == {n \in done : Claimable(n)} IN taken # {} /\ rows' = Claimed(taken)
    /\ UNCHANGED <<indexed, asked, hands, ghosts>>

-----------------------------------------------------------------------------
(* sendDoneNotices, one notice after the other.                              *)

Becomes(r, q, step) ==
    hands' = [hands EXCEPT ![r].work = @ \ {q}, ![r].notice = q, ![r].step = step]

Tell(q) == told' = [told EXCEPT ![q] = IF @ = 2 THEN 2 ELSE @ + 1]

\* An account that is gone or suspended has nobody to tell: its row goes as a message would.
Nobody(r, q) ==
    /\ q[2] \in Account
    /\ Becomes(r, q, "left")
    /\ excused' = excused \cup {q}
    /\ UNCHANGED <<told, faults>>

Leaves(r, q) == Tell(q) /\ Becomes(r, q, "left") /\ UNCHANGED <<excused, faults>>

Refused(r, q) == Becomes(r, q, "failed") /\ UNCHANGED <<told, excused, faults>>

\* The provider took the message, and its answer did not come in time.
Unanswered(r, q) ==
    /\ Fault
    /\ Tell(q) /\ Becomes(r, q, "failed")
    /\ excused' = excused \cup {q}

Send(r) ==
    /\ hands[r].step = "next"
    /\ \E q \in hands[r].work : Nobody(r, q) \/ Leaves(r, q) \/ Refused(r, q) \/ Unanswered(r, q)
    /\ UNCHANGED <<table, overrun>>

Settled(r) ==
    hands' = [hands EXCEPT ![r] = IF @.work = {} THEN Empty
                                  ELSE [@ EXCEPT !.step = "next", !.notice = NoNotice]]

\* Mutant of Sent: the row of a message that did not leave goes as well.
SentWhatever(r) ==
    /\ hands[r].step # "next"
    /\ rows' = [rows EXCEPT ![hands[r].notice[1]] = NoRow]
    /\ Settled(r)
    /\ UNCHANGED <<indexed, asked, ghosts, faults>>

\* sent: the row of the note, whoever claimed or wrote it.
Sent(r) ==
    /\ hands[r].step = "left"
    /\ rows' = [rows EXCEPT ![hands[r].notice[1]] = NoRow]
    /\ Settled(r)
    /\ UNCHANGED <<indexed, asked, ghosts, faults>>

\* Mutant of Release: every claim of this read goes with the one that failed.
ReleaseAll(r) ==
    /\ hands[r].step = "failed"
    /\ LET mine == {q[1] : q \in Held(r)} IN
        rows' = [n \in Note |-> IF n \in mine /\ There(n) THEN [rows[n] EXCEPT !.claim = Free] ELSE rows[n]]
    /\ Settled(r)
    /\ UNCHANGED <<indexed, asked, ghosts, faults>>

\* release: the claim on the note, whoever holds it.
Release(r) ==
    /\ hands[r].step = "failed"
    /\ LET n == hands[r].notice[1] IN
        rows' = IF There(n) THEN [rows EXCEPT ![n].claim = Free] ELSE rows
    /\ Settled(r)
    /\ UNCHANGED <<indexed, asked, ghosts, faults>>

\* The database refuses either: the claim stays until it runs out.
Unwritten(r) ==
    /\ hands[r].step # "next"
    /\ Fault
    /\ Settled(r)
    /\ excused' = IF hands[r].step = "left" THEN excused \cup {hands[r].notice} ELSE excused
    /\ UNCHANGED <<table, told, overrun>>

\* The process stops.
Stops(r) ==
    /\ Held(r) # {}
    /\ Fault
    /\ hands' = [hands EXCEPT ![r] = Empty]
    /\ excused' = IF hands[r].step = "left" THEN excused \cup {hands[r].notice} ELSE excused
    /\ UNCHANGED <<table, told, overrun>>

-----------------------------------------------------------------------------
\* Mutant of Less: what ran out goes on.
LessAlways(left) == left - 1

Less(left) == IF left < 0 THEN left ELSE left - 1

NoticesTick ==
    /\ rows' = [n \in Note |->
            IF There(n) THEN [rows[n] EXCEPT !.keeps = Less(@), !.claim = Less(@)] ELSE NoRow]
    /\ hands' = [r \in Finder |-> [hands[r] EXCEPT !.claim = Less(@)]]
    /\ overrun' = overrun \cup {q[1] : q \in UNION {Held(r) : r \in {v \in Finder : hands[v].claim <= 0}}}
    /\ UNCHANGED <<indexed, asked, told, excused, faults>>

NoticesNext ==
    \/ \E n \in Note, p \in Person : Watch(n, p)
    \/ \E n \in Note : Forget(n)
    \/ \E p \in Person : AccountGoes(p)
    \/ TurnedOff \/ Sweep \/ TakeUnanswered \/ NoticesTick
    \/ \E r \in Finder : Take(r) \/ Send(r) \/ Sent(r) \/ Release(r) \/ Unwritten(r) \/ Stops(r)

NoticesSpec == NoticesInit /\ [][NoticesNext]_noticesVars

\* A timer sweeps, and time goes on.  Nothing says that a page is ever read again.
FairNoticesSpec == NoticesSpec /\ WF_noticesVars(Sweep) /\ WF_noticesVars(NoticesTick)

-----------------------------------------------------------------------------
(* Properties.                                                               *)

\* A person is told once of a note, however many reads find it done, unless the removal
\* failed, the answer of the provider was lost, or a read was still at it when its claim
\* ran out or its row went: releases, stops and claims that were not answered tell nobody twice.
ToldOnce ==
    \A q \in Notice : told[q] > 1 => q \in excused \/ q[1] \in overrun

\* A row that goes was told, or has nobody to tell; or its time ran out, or its note, its
\* account or its site let go of it: no refusal and no stop loses the only message.
NothingIsLost ==
    [][\A n \in Note : There(n) /\ rows'[n] # rows[n]
          /\ (rows'[n] = NoRow \/ rows'[n].who # rows[n].who) =>
          \/ told[<<n, rows[n].who>>] > 0 \/ <<n, rows[n].who>> \in excused
          \/ n \in overrun
          \/ rows[n].keeps = RanOut
          \/ n \notin indexed'
          \/ rows[n].who \in Account /\ AccountGoes(rows[n].who)
          \/ TurnedOff]_noticesVars

\* However often its message fails and a read claims it again, an address goes.
EveryAddressGoes == \A n \in Note : []<>~There(n)
=============================================================================
