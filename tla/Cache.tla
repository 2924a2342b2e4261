------------------------------- MODULE Cache -------------------------------
(***************************************************************************)
(* The read cache of one page (apps/worker/src/cache.ts) on the key-value    *)
(* store in the database (kv-postgres.ts).                                   *)
(*                                                                           *)
(* A read asks for the version of the page, joins the load of that version    *)
(* that its process has in flight or starts one, and the load looks for an    *)
(* entry, asks the store of the notes and writes what it answered.  A write   *)
(* of a note gives the page a new version.  The key-value store may not       *)
(* answer, its rows end, and a server that crashes loses the last ones it     *)
(* committed (synchronous_commit = off).                                     *)
(*                                                                           *)
(* What the store of the notes holds is the number of writes it took.         *)
(***************************************************************************)
EXTENDS Integers

CONSTANTS Reader,      \* reads that may run at once
          Process,     \* the replicas of the worker
          CacheTtl,    \* CACHE_TTL_MS
          VersionTtl,  \* PAGE_VERSION_TTL_MS
          MaxLoad,     \* the slowest read: calls of a store have a deadline
          MaxWrites,   \* bound: how many notes are written
          NoEntry, NoVersion, Nowhere

\* PAGE_VERSION_TTL_MS "must be longer than CACHE_TTL_MS plus the slowest load".
ASSUME TtlAssumption ==
    /\ CacheTtl \in Nat \ {0} /\ MaxLoad \in Nat
    /\ VersionTtl \in Nat /\ VersionTtl > CacheTtl + MaxLoad
ASSUME WritesAssumption == MaxWrites \in Nat

VARIABLES kv,         \* the version of the page and the entries, with the time each has left
          flushed,    \* the same as it was when it last reached the disk
          written,    \* the writes that the store of the notes took
          unsaid,     \* those whose new version is not asked for yet
          announced,  \* the last one whose new version was committed
          since,      \* how long ago each was taken
          reads

cacheVars == <<kv, flushed, written, unsaid, announced, since, reads>>

Write == 1..MaxWrites

\* A page whose version ended, or that nothing wrote, reads as this one.
None == 0
Version == {None} \cup Write

\* How old an answer may be: an entry of a slow load, at the end of its time, held by
\* a slow read that the others join.
Oldest == CacheTtl + 2 * MaxLoad

Entry == [value: 0..MaxWrites, left: 1..CacheTtl]

Kv == [version: Version, left: 0..VersionTtl, entries: [Version -> Entry \cup {NoEntry}]]

Read == [step: {"idle", "versioned", "looking", "asking", "storing", "settling", "joined"},
         process: Process \cup {Nowhere}, version: Version \cup {NoVersion},
         value: 0..MaxWrites, floor: 0..MaxWrites, age: 0..MaxLoad]

ASSUME EntryAssumption ==
    NoVersion \notin Version /\ NoEntry \notin Entry /\ Nowhere \notin Process

Idle == [step |-> "idle", process |-> Nowhere, version |-> None,
         value |-> 0, floor |-> 0, age |-> 0]

CacheTypeOK ==
    /\ kv \in Kv /\ flushed \in Kv
    /\ written \in 0..MaxWrites
    /\ unsaid \subseteq 1..written
    /\ announced \in 0..written
    /\ since \in [Write -> 0..Oldest]
    /\ reads \in [Reader -> Read]

CacheInit ==
    /\ kv = [version |-> None, left |-> 0, entries |-> [v \in Version |-> NoEntry]]
    /\ flushed = kv
    /\ written = 0 /\ unsaid = {} /\ announced = 0
    /\ since = [n \in Write |-> 0]
    /\ reads = [r \in Reader |-> Idle]

\* The read that makes the load of this version in this process.
Loads(r) == reads[r].step \in {"looking", "asking", "storing", "settling"}

Leaders(p, v) == {r \in Reader : Loads(r) /\ reads[r].process = p /\ reads[r].version = v}

\* Those that wait for it, itself included.
Waiting(r) ==
    {q \in Reader : q = r \/ /\ reads[q].step = "joined"
                             /\ reads[q].process = reads[r].process
                             /\ reads[q].version = reads[r].version}

Steps(r, step) == reads' = [reads EXCEPT ![r].step = step]

\* Ghost: the writes that no answer may miss any more.
Due == {n \in 1..written : since[n] >= Oldest}

-----------------------------------------------------------------------------
(* cached.                                                                   *)

\* The version of the page; none is known when the key-value store does not answer.
GetVersion(r) ==
    /\ reads[r].step = "idle"
    /\ \E known \in BOOLEAN :
        reads' = [reads EXCEPT ![r] =
            [Idle EXCEPT !.step = "versioned",
                         !.version = IF known THEN kv.version ELSE NoVersion,
                         !.floor = IF known THEN announced ELSE 0]]
    /\ UNCHANGED <<kv, flushed, written, unsaid, announced, since>>

\* The load of this version that the process of the read has in flight, or one of its own.
Join(r, p) ==
    /\ reads[r].step = "versioned"
    /\ reads' = [reads EXCEPT ![r].process = p,
                              ![r].step = CASE Leaders(p, reads[r].version) # {} -> "joined"
                                            [] reads[r].version = NoVersion -> "asking"
                                            [] OTHER -> "looking"]
    /\ UNCHANGED <<kv, flushed, written, unsaid, announced, since>>

\* Mutant of Look: an entry that was found is written again.
LookAndRenew(r) ==
    /\ reads[r].step = "looking"
    /\ LET entry == kv.entries[reads[r].version] IN
        \/ Steps(r, "asking")
        \/ /\ entry # NoEntry
           /\ reads' = [reads EXCEPT ![r].step = "storing", ![r].value = entry.value]
    /\ UNCHANGED <<kv, flushed, written, unsaid, announced, since>>

\* readThrough: the entry, or none when the key-value store does not answer.
Look(r) ==
    /\ reads[r].step = "looking"
    /\ LET entry == kv.entries[reads[r].version] IN
        \/ Steps(r, "asking")
        \/ /\ entry # NoEntry
           /\ reads' = [reads EXCEPT ![r].step = "settling", ![r].value = entry.value]
    /\ UNCHANGED <<kv, flushed, written, unsaid, announced, since>>

Answered(r) == [q \in Reader |-> IF q \in Waiting(r) THEN Idle ELSE reads[q]]

\* load: what the store of the notes holds, or a failure that everyone who waits gets.
Ask(r) ==
    /\ reads[r].step = "asking"
    /\ \/ reads' = [reads EXCEPT ![r].value = written,
                                 ![r].step = IF reads[r].version = NoVersion
                                             THEN "settling" ELSE "storing"]
       \/ reads' = Answered(r)
    /\ UNCHANGED <<kv, flushed, written, unsaid, announced, since>>

\* Mutant of Store: under the version of now.
StoreUnderTheVersionOfNow(r) ==
    /\ reads[r].step = "storing"
    /\ kv' = [kv EXCEPT !.entries[kv.version] = [value |-> reads[r].value, left |-> CacheTtl]]
    /\ Steps(r, "settling")
    /\ UNCHANGED <<flushed, written, unsaid, announced, since>>

\* The entry, under the version that the read had, unless the key-value store does not answer.
Store(r) ==
    /\ reads[r].step = "storing"
    /\ kv' \in {kv, [kv EXCEPT !.entries[reads[r].version] =
                        [value |-> reads[r].value, left |-> CacheTtl]]}
    /\ Steps(r, "settling")
    /\ UNCHANGED <<flushed, written, unsaid, announced, since>>

Settle(r) ==
    /\ reads[r].step = "settling"
    /\ reads' = Answered(r)
    /\ UNCHANGED <<kv, flushed, written, unsaid, announced, since>>

-----------------------------------------------------------------------------
(* A write of a note, then invalidate.                                       *)

WriteNote ==
    /\ written < MaxWrites
    /\ written' = written + 1
    /\ unsaid' = unsaid \cup {written'}
    /\ UNCHANGED <<kv, flushed, announced, since, reads>>

\* Mutant of VersionLife: as long as an answer.
VersionLifeOfAnAnswer == CacheTtl

VersionLife == VersionTtl

NewVersion(n) == kv' = [kv EXCEPT !.version = n, !.left = VersionLife]

\* randomUUID: a version of its own.
Invalidate(n) ==
    /\ n \in unsaid
    /\ NewVersion(n)
    /\ announced' = IF n > announced THEN n ELSE announced
    /\ unsaid' = unsaid \ {n}
    /\ UNCHANGED <<flushed, written, since, reads>>

\* The key-value store does not answer, or the process stops between the two.
InvalidateFails(n) ==
    /\ n \in unsaid
    /\ NewVersion(n) \/ UNCHANGED kv
    /\ unsaid' = unsaid \ {n}
    /\ UNCHANGED <<flushed, written, announced, since, reads>>

-----------------------------------------------------------------------------
(* The database, and time.                                                   *)

\* The server of the database stops and starts: what was not on the disk is lost, and
\* what it announced with it.
Crash ==
    /\ kv' = flushed
    /\ announced' = 0
    /\ reads' = [r \in Reader |-> [reads[r] EXCEPT !.floor = 0]]
    /\ UNCHANGED <<flushed, written, unsaid, since>>

\* Mutant of Later: the version of a row that ended is still read.
LaterWithItsVersion(k) ==
    [k EXCEPT !.left = @ - 1,
              !.entries = [v \in Version |->
                    IF k.entries[v] = NoEntry \/ k.entries[v].left = 1 THEN NoEntry
                    ELSE [k.entries[v] EXCEPT !.left = @ - 1]]]

Later(k) ==
    [version |-> IF k.left > 1 THEN k.version ELSE None,
     left    |-> IF k.left > 0 THEN k.left - 1 ELSE 0,
     entries |-> [v \in Version |->
                    IF k.entries[v] = NoEntry \/ k.entries[v].left = 1 THEN NoEntry
                    ELSE [k.entries[v] EXCEPT !.left = @ - 1]]]

\* No read takes longer than the slowest, and every write reaches the disk within a few
\* hundred milliseconds.
CacheTick ==
    /\ \A r \in Reader : reads[r].age < MaxLoad \/ reads[r].step = "idle"
    /\ kv' = Later(kv) /\ flushed' = kv'
    /\ since' = [n \in Write |-> IF n <= written /\ since[n] < Oldest THEN since[n] + 1 ELSE since[n]]
    /\ reads' = [r \in Reader |-> IF reads[r].step = "idle" THEN Idle
                                  ELSE [reads[r] EXCEPT !.age = @ + 1]]
    /\ UNCHANGED <<written, unsaid, announced>>

CacheNext ==
    \/ \E r \in Reader, p \in Process : Join(r, p)
    \/ \E r \in Reader : GetVersion(r) \/ Look(r) \/ Ask(r) \/ Store(r) \/ Settle(r)
    \/ WriteNote
    \/ \E n \in Write : Invalidate(n) \/ InvalidateFails(n)
    \/ Crash \/ CacheTick

CacheSpec == CacheInit /\ [][CacheNext]_cacheVars

-----------------------------------------------------------------------------
(* Properties.                                                               *)

\* Once the new version of a write is committed, no read that learns the version of the page
\* misses that write, whatever load of before is in flight in whatever process, and
\* however many writes, versions and entries ended meanwhile.
AnnouncedIsSeen ==
    \A r \in Reader : reads[r].step = "settling" =>
        \A q \in Waiting(r) : reads[r].value >= reads[q].floor

\* Whatever fails - a version that is not written, a crash that takes it back, a load that
\* is shared with no version - no answer is older than the time of an entry and two reads.
NoAnswerIsOlder ==
    \A r \in Reader : reads[r].step = "settling" => \A n \in Due : n <= reads[r].value
=============================================================================
