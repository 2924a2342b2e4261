--------------------------- MODULE RestDeliveries ---------------------------
(***************************************************************************)
(* The queue of deliveries to the addresses and to the routines that a       *)
(* workspace connected (apps/worker/src/rest-connector.ts deliverDue, the     *)
(* statements of accounts-postgres.ts).                                       *)
(*                                                                           *)
(* A worker makes one pass at a time; several workers may share the database. *)
(* A pass reads the rows that are due, attempts them together, and settles    *)
(* each with one statement.  A receiver may take a note whose answer is lost, *)
(* a settlement may fail, and a worker may stop at any step.                  *)
(*                                                                           *)
(* Time is kept in each row: how long it still waits, or how long ago it was  *)
(* given up.                                                                  *)
(***************************************************************************)
EXTENDS Integers, FiniteSets, Sequences

CONSTANTS Delivery,
          Worker,
          Waits,      \* RETRY_AFTER_SECONDS
          Kept,       \* ABANDONED_KEPT_DAYS
          Limit,      \* how many deliveries one pass attempts
          MaxLate,    \* bound: how late two deliveries are told apart
          MaxAsks,    \* bound: how often somebody asks for a new attempt
          MaxFaults,  \* bound: how many writes fail, passes hang and workers stop
          NoRow, Idle, Never

Count == 0..(Len(Waits) + 1)

ASSUME WaitsAssumption == Waits \in Seq(Nat \ {0}) /\ Kept \in Nat /\ MaxLate \in Nat /\ Limit \in Nat \ {0}
ASSUME BoundAssumption == MaxAsks \in Nat /\ MaxFaults \in Nat

VARIABLES rows,       \* the table of deliveries
          routine,    \* the deliveries that call a routine: the others go to an address
          connectors, \* the deliveries whose connector is there: each has its own
          enqueued,   \* the deliveries that were made
          suspended,  \* the workspace is suspended
          passing,    \* the workers in a pass
          keyed,      \* the workers that have the key of the targets (secretsKey)
          stuck,      \* the workers whose pass waits for an answer of the database for ever
          attempts,   \* the attempts of each worker
          sessions,   \* the table of the sessions that routines started
          trouble,    \* the routines that refused their token
          got,        \* how often a receiver took a delivery, two at most
          excused,    \* ghost: the deliveries that may arrive twice
          unkept,     \* ghost: the deliveries whose session could not be kept
          asks, faults

queue == <<rows, routine, connectors, enqueued, suspended>>
workers == <<passing, keyed, stuck>>
routines == <<sessions, trouble, unkept>>
receiver == <<got, excused>>
vars == <<rows, routine, connectors, enqueued, suspended, passing, keyed, stuck, attempts,
          sessions, trouble, got, excused, unkept, asks, faults>>

Waiting == (-MaxLate)..0 \cup UNION {0..Waits[i] : i \in DOMAIN Waits}

Row == [count: Count, next: Waiting \cup {Never}, age: 0..(Kept + 1)]

Attempt == [step: {"read", "asked", "arrived", "kept", "noted", "failed", "refused", "final"},
            count: Count]

ASSUME NullAssumption == NoRow \notin Row /\ Idle \notin Attempt /\ Never \notin Waiting

TypeOK ==
    /\ rows \in [Delivery -> Row \cup {NoRow}]
    /\ routine \subseteq Delivery /\ connectors \subseteq Delivery /\ enqueued \subseteq Delivery
    /\ suspended \in BOOLEAN
    /\ passing \subseteq Worker /\ keyed \subseteq Worker /\ stuck \subseteq Worker
    /\ attempts \in [Worker -> [Delivery -> Attempt \cup {Idle}]]
    /\ sessions \subseteq routine /\ trouble \subseteq routine /\ unkept \subseteq routine
    /\ got \in [Delivery -> 0..2]
    /\ excused \subseteq Delivery
    /\ asks \in 0..MaxAsks /\ faults \in 0..MaxFaults

Init ==
    /\ rows = [d \in Delivery |-> NoRow]
    /\ routine \in SUBSET Delivery /\ connectors = Delivery /\ enqueued = {}
    /\ suspended = FALSE
    /\ passing = {} /\ keyed \in SUBSET Worker /\ stuck = {}
    /\ attempts = [w \in Worker |-> [d \in Delivery |-> Idle]]
    /\ sessions = {} /\ trouble = {} /\ unkept = {}
    /\ got = [d \in Delivery |-> 0]
    /\ excused = {}
    /\ asks = 0 /\ faults = 0

There(d) == rows[d] # NoRow

At(w, d, step) == attempts[w][d] # Idle /\ attempts[w][d].step = step

Goes(w, d, step) == attempts' = [attempts EXCEPT ![w][d].step = step]

Ends(w, d) == attempts' = [attempts EXCEPT ![w][d] = Idle]

Fault == faults < MaxFaults /\ faults' = faults + 1

Takes(d) == got' = [got EXCEPT ![d] = IF @ = 2 THEN 2 ELSE @ + 1]

-----------------------------------------------------------------------------
\* enqueueDelivery: due at once.
Enqueue(d) ==
    /\ d \notin enqueued /\ d \in connectors
    /\ enqueued' = enqueued \cup {d}
    /\ rows' = [rows EXCEPT ![d] = [count |-> 0, next |-> 0, age |-> 0]]
    /\ UNCHANGED <<routine, connectors, suspended, workers, attempts, routines, receiver, asks, faults>>

\* Mutant of Due: at the instant, and not after it.
DueAtTheInstant == {d \in Delivery : There(d) /\ ~suspended /\ rows[d].next = 0}

Due == {d \in Delivery : /\ There(d) /\ ~suspended
                         /\ rows[d].next # Never
                         /\ rows[d].next <= 0}

\* The oldest of the rows that are due, as many as a pass attempts.
Batches ==
    {batch \in SUBSET Due :
        /\ Cardinality(batch) = IF Cardinality(Due) < Limit THEN Cardinality(Due) ELSE Limit
        /\ \A d \in batch, e \in Due \ batch : rows[d].next <= rows[e].next}

\* Without the key nothing is attempted or dropped: the rows wait for it.
HasKey(w) == w \in keyed

\* A delivery that another worker is attempting may arrive from both.
PassStarts(w) ==
    /\ HasKey(w) /\ w \notin passing
    /\ passing' = passing \cup {w}
    /\ \E batch \in Batches :
        /\ attempts' = [attempts EXCEPT ![w] = [d \in Delivery |->
                IF d \in batch
                THEN [step |-> "read", count |-> rows[d].count]
                ELSE Idle]]
        /\ excused' = excused \cup {d \in batch : \E v \in Worker : attempts[v][d] # Idle}
    /\ UNCHANGED <<queue, keyed, stuck, routines, got, asks, faults>>

\* sealedKey, then one request: or nothing to open, which is a failure as well, and a
\* call of a routine that names no note, which is final.
Sends(w, d) ==
    /\ At(w, d, "read")
    /\ \/ d \in connectors /\ Goes(w, d, "asked")
       \/ Goes(w, d, "failed")
       \/ d \in routine \cap connectors /\ Goes(w, d, "final")
    /\ UNCHANGED <<queue, workers, routines, receiver, asks, faults>>

\* 2xx.
Arrives(w, d) ==
    /\ At(w, d, "asked")
    /\ Takes(d)
    /\ Goes(w, d, "arrived")
    /\ UNCHANGED <<queue, workers, routines, excused, asks, faults>>

\* Another status: 508 is final for an address, 404 for a routine; 401 and 403 are
\* the word of a routine about its token.
Refused(w, d) ==
    /\ At(w, d, "asked")
    /\ \/ Goes(w, d, "failed")
       \/ Goes(w, d, "final")
       \/ d \in routine /\ Goes(w, d, "refused")
    /\ UNCHANGED <<queue, workers, routines, receiver, asks, faults>>

\* No answer in time: the receiver may have taken the note all the same.
Unanswered(w, d) ==
    /\ At(w, d, "asked")
    /\ \/ UNCHANGED receiver
       \/ Takes(d) /\ excused' = excused \cup {d}
    /\ Goes(w, d, "failed")
    /\ UNCHANGED <<queue, workers, routines, asks, faults>>

\* Mutant of KeepSession: a session that cannot be kept ends the attempt.
KeepSessionOrThrow(w, d) ==
    /\ d \in routine /\ At(w, d, "arrived")
    /\ \/ d \in connectors /\ sessions' = sessions \cup {d} /\ Goes(w, d, "kept") /\ UNCHANGED unkept
       \/ unkept' = unkept \cup {d} /\ Ends(w, d) /\ UNCHANGED sessions
    /\ UNCHANGED <<queue, workers, trouble, receiver, asks, faults>>

\* The session first; one that cannot be kept, or that the answer does not name, is
\* said in the log only.
KeepSession(w, d) ==
    /\ d \in routine /\ At(w, d, "arrived")
    /\ \/ d \in connectors /\ sessions' = sessions \cup {d} /\ UNCHANGED unkept
       \/ unkept' = unkept \cup {d} /\ UNCHANGED sessions
    /\ Goes(w, d, "kept")
    /\ UNCHANGED <<queue, workers, trouble, receiver, asks, faults>>

\* noteRoutine, which never rejects.
NoteRoutine(w, d) ==
    /\ \/ At(w, d, "kept") /\ trouble' \in {trouble, trouble \ {d}} /\ Goes(w, d, "noted")
       \/ At(w, d, "refused") /\ trouble' \in {trouble, trouble \cup ({d} \cap connectors)} /\ Goes(w, d, "final")
    /\ UNCHANGED <<queue, workers, sessions, unkept, receiver, asks, faults>>

Arrived(w, d) == At(w, d, "noted") \/ (At(w, d, "arrived") /\ d \notin routine)

\* Mutants of SettleArrived: before the session of a routine is kept, and only while the
\* count is the one of the read.
SettleAtOnce(w, d) ==
    /\ At(w, d, "arrived")
    /\ rows' = [rows EXCEPT ![d] = NoRow]
    /\ IF d \in routine THEN UNCHANGED attempts ELSE Ends(w, d)
    /\ UNCHANGED <<routine, connectors, enqueued, suspended, workers, routines, receiver, asks, faults>>

SettleArrivedIfCounted(w, d) ==
    /\ Arrived(w, d)
    /\ rows' = [rows EXCEPT ![d] = IF There(d) /\ rows[d].count = attempts[w][d].count
                                   THEN NoRow ELSE @]
    /\ Ends(w, d)
    /\ UNCHANGED <<routine, connectors, enqueued, suspended, workers, routines, receiver, asks, faults>>

\* settleDelivery: a delivery that arrived is removed, whatever happened to its row.
SettleArrived(w, d) ==
    /\ Arrived(w, d)
    /\ rows' = [rows EXCEPT ![d] = NoRow]
    /\ Ends(w, d)
    /\ UNCHANGED <<routine, connectors, enqueued, suspended, workers, routines, receiver, asks, faults>>

\* After a failure from this count.
NextAfter(count, final) ==
    IF final \/ count >= Len(Waits) THEN Never ELSE Waits[count + 1]

\* Mutant of SettleFailed: the count of the read is not in the condition.
SettleFailedWhateverTheCount(w, d) ==
    /\ At(w, d, "failed") \/ At(w, d, "final")
    /\ rows' = [rows EXCEPT ![d] =
            IF There(d) /\ rows[d].count <= Len(Waits)
            THEN [count |-> rows[d].count + 1, age |-> 0,
                  next |-> NextAfter(attempts[w][d].count, At(w, d, "final"))]
            ELSE @]
    /\ Ends(w, d)
    /\ UNCHANGED <<routine, connectors, enqueued, suspended, workers, routines, receiver, asks, faults>>

\* settleDelivery: a failure is counted while the count is the one of the read.
SettleFailed(w, d) ==
    /\ At(w, d, "failed") \/ At(w, d, "final")
    /\ rows' = [rows EXCEPT ![d] =
            IF There(d) /\ rows[d].count = attempts[w][d].count
            THEN [count |-> rows[d].count + 1, age |-> 0,
                  next |-> NextAfter(rows[d].count, At(w, d, "final"))]
            ELSE @]
    /\ Ends(w, d)
    /\ UNCHANGED <<routine, connectors, enqueued, suspended, workers, routines, receiver, asks, faults>>

\* sealedKey or settleDelivery throws: the pass goes on, and the row is as it was.
Throws(w, d) ==
    /\ At(w, d, "read") \/ Arrived(w, d) \/ At(w, d, "failed") \/ At(w, d, "final")
    /\ Fault
    /\ excused' = IF Arrived(w, d) THEN excused \cup {d} ELSE excused
    /\ Ends(w, d)
    /\ UNCHANGED <<queue, workers, routines, got, asks>>

\* Mutant of PassEnds: whatever was not attempted for long.
PassEndsDroppingTheLate(w) ==
    /\ w \in passing /\ w \notin stuck
    /\ \A d \in Delivery : attempts[w][d] = Idle
    /\ passing' = passing \ {w}
    /\ rows' = [d \in Delivery |->
            IF There(d) /\ (rows[d].age > Kept \/ rows[d].next = -MaxLate)
            THEN NoRow ELSE rows[d]]
    /\ UNCHANGED <<routine, connectors, enqueued, suspended, keyed, stuck, attempts, routines, receiver,
                   asks, faults>>

GivenUp(d) == There(d) /\ rows[d].next = Never

\* dropAbandonedDeliveries, once every attempt of the pass ended.
PassEnds(w) ==
    /\ w \in passing /\ w \notin stuck
    /\ \A d \in Delivery : attempts[w][d] = Idle
    /\ passing' = passing \ {w}
    /\ rows' = [d \in Delivery |-> IF GivenUp(d) /\ rows[d].age > Kept THEN NoRow ELSE rows[d]]
    /\ UNCHANGED <<routine, connectors, enqueued, suspended, keyed, stuck, attempts, routines, receiver,
                   asks, faults>>

\* The worker stops and is started again, with the key or without it: what it asked may
\* arrive all the same.
Stops(w) ==
    /\ Fault
    /\ passing' = passing \ {w} /\ stuck' = stuck \ {w}
    /\ keyed' \in {keyed \cup {w}, keyed \ {w}}
    /\ attempts' = [attempts EXCEPT ![w] = [d \in Delivery |-> Idle]]
    /\ \E taken \in SUBSET {d \in Delivery : At(w, d, "asked")} :
          got' = [d \in Delivery |-> IF d \in taken /\ got[d] < 2 THEN got[d] + 1 ELSE got[d]]
    /\ excused' = excused \cup {d \in Delivery : attempts[w][d] # Idle}
    /\ UNCHANGED <<queue, routines, asks>>

\* A statement has no deadline: the database does not answer one of a pass, which stays open
\* until the worker stops, and which no other pass of this worker follows.
Hangs(w) ==
    /\ w \in passing /\ w \notin stuck
    /\ Fault
    /\ stuck' = stuck \cup {w}
    /\ UNCHANGED <<queue, passing, keyed, attempts, routines, receiver, asks>>

-----------------------------------------------------------------------------
(* The console, and time.                                                    *)

\* retryDelivery: the whole series again, from now.
Ask(d) ==
    /\ There(d) /\ asks < MaxAsks
    /\ asks' = asks + 1
    /\ rows' = [rows EXCEPT ![d].count = 0, ![d].next = 0]
    /\ UNCHANGED <<routine, connectors, enqueued, suspended, workers, attempts, routines, receiver, faults>>

\* The rows and the sessions of a connector go with it.
RemoveConnector(d) ==
    /\ d \in connectors
    /\ connectors' = connectors \ {d}
    /\ rows' = [rows EXCEPT ![d] = NoRow]
    /\ sessions' = sessions \ {d} /\ trouble' = trouble \ {d}
    /\ UNCHANGED <<routine, enqueued, suspended, workers, attempts, unkept, receiver, asks, faults>>

Suspend ==
    /\ suspended' = ~suspended
    /\ UNCHANGED <<rows, routine, connectors, enqueued, workers, attempts, routines, receiver, asks, faults>>

\* Mutant of Later: what was given up is never told apart from what waits.
LaterAtOnce(row) == [row EXCEPT !.age = @ + 1]

Later(row) ==
    IF row.next = Never
    THEN [row EXCEPT !.age = IF @ > Kept THEN @ ELSE @ + 1]
    ELSE [row EXCEPT !.next = IF @ = -MaxLate THEN @ ELSE @ - 1]

Tick ==
    /\ rows' = [d \in Delivery |-> IF There(d) THEN Later(rows[d]) ELSE NoRow]
    /\ UNCHANGED <<routine, connectors, enqueued, suspended, workers, attempts, routines, receiver, asks, faults>>

Attempts(w, d) ==
    \/ Sends(w, d) \/ Arrives(w, d) \/ Refused(w, d) \/ Unanswered(w, d)
    \/ KeepSession(w, d) \/ NoteRoutine(w, d)
    \/ SettleArrived(w, d) \/ SettleFailed(w, d)

Next ==
    \/ \E d \in Delivery : Enqueue(d) \/ Ask(d) \/ RemoveConnector(d)
    \/ \E w \in Worker : PassStarts(w) \/ PassEnds(w) \/ Stops(w) \/ Hangs(w)
    \/ \E w \in Worker, d \in Delivery : Attempts(w, d) \/ Throws(w, d)
    \/ Suspend \/ Tick

Spec == Init /\ [][Next]_vars

\* Time goes on, and a timer starts the passes of a worker that has the key.  While its pass
\* waits for no statement for ever, every attempt goes on, since a request has a deadline, and
\* the pass ends.  Nothing is asked of the attempts of one that is stuck.
Fairness ==
    /\ WF_vars(Tick)
    /\ \A w \in Worker :
        /\ WF_vars(PassStarts(w))
        /\ WF_vars(PassEnds(w))
        /\ \A d \in Delivery : WF_vars(w \notin stuck /\ Attempts(w, d))

FairSpec == Spec /\ Fairness

-----------------------------------------------------------------------------
(* Properties.                                                               *)

\* A receiver takes a note once, unless an answer was lost, a settlement failed, a worker
\* stopped or two workers attempted it at once: neither a session that cannot be kept nor
\* somebody who asks for a new attempt meanwhile sends it again.
ArrivesOnce == \A d \in Delivery : got[d] > 1 => d \in excused

\* Two workers that settle one delivery never take it out of its series: what still waits
\* has attempts left, and waits no longer than its count says.
KeepsItsSeries ==
    \A d \in Delivery : There(d) /\ rows[d].next # Never =>
        /\ rows[d].count <= Len(Waits)
        /\ rows[d].next <= (IF rows[d].count = 0 THEN 0 ELSE Waits[rows[d].count])

\* A note leaves the queue when a receiver has it, when it was given up long enough and
\* nobody asked, or with its connector.
NothingIsLost ==
    [][\A d \in Delivery : There(d) /\ rows'[d] = NoRow =>
          \/ got[d] > 0
          \/ GivenUp(d) /\ rows[d].age > Kept
          \/ d \notin connectors']_vars

\* The call of a routine that started leaves the queue once its session is kept, or
\* could not be: the console shows every run.
RunsAreShown ==
    [][\A d \in routine : There(d) /\ rows'[d] = NoRow /\ d \in connectors' /\ ~GivenUp(d)
          => d \in sessions \cup unkept]_vars

\* One worker, from some time on, has the key and gets an answer to every statement.
SomebodyDelivers == \E w \in Worker : <>[](HasKey(w) /\ w \notin stuck)

\* While the workspace acts and one worker has the key and a database that answers, every
\* delivery leaves the queue or is given up.  Another worker that hangs in it, stops in it or
\* has no key does not hold it back, and neither does somebody who asks for it again.
EveryDeliveryEnds ==
    <>[]~suspended /\ SomebodyDelivers
        => \A d \in Delivery : [](There(d) => <>(~There(d) \/ GivenUp(d)))
=============================================================================
