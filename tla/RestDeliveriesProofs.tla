------------------------ MODULE RestDeliveriesProofs ------------------------
(***************************************************************************)
(* Proofs about RestDeliveries for any deliveries, workers, series and        *)
(* limits.                                                                   *)
(*                                                                           *)
(* The argument: while a delivery is not excused, one worker at most attempts  *)
(* it, and a receiver that has it has it from that attempt, or its row is gone *)
(* for good.                                                                  *)
(***************************************************************************)
EXTENDS RestDeliveries, TLAPS

\* A receiver has the note, and its row is still to be settled.
HasArrived(w, d) == At(w, d, "arrived") \/ At(w, d, "kept") \/ At(w, d, "noted")

\* Only a pass attempts, what was enqueued, and what had attempts left.
AttemptsAreOfPasses ==
    \A w \in Worker, d \in Delivery : attempts[w][d] # Idle =>
        w \in passing /\ d \in enqueued /\ attempts[w][d].count <= Len(Waits)

RowsWereEnqueued == \A d \in Delivery : There(d) => d \in enqueued

GotWasEnqueued == \A d \in Delivery : got[d] > 0 => d \in enqueued

ArrivedIsGot == \A w \in Worker, d \in Delivery : HasArrived(w, d) => got[d] > 0

\* A routine that started is known, whatever its attempt does next.
KeptIsShown ==
    \A w \in Worker, d \in Delivery :
        At(w, d, "kept") \/ At(w, d, "noted") => d \in sessions \cup unkept \/ d \notin connectors

OnlyRoutinesRefuse == \A w \in Worker, d \in Delivery : At(w, d, "refused") => d \in routine

OneAttempt ==
    \A d \in Delivery \ excused : \A w, v \in Worker :
        attempts[w][d] # Idle /\ attempts[v][d] # Idle => w = v

GotOnce ==
    \A d \in Delivery \ excused : got[d] > 0 =>
        /\ got[d] = 1
        /\ \A w \in Worker : attempts[w][d] # Idle => HasArrived(w, d)
        /\ There(d) => \E w \in Worker : HasArrived(w, d)

IInv ==
    /\ TypeOK /\ KeepsItsSeries
    /\ AttemptsAreOfPasses /\ RowsWereEnqueued /\ GotWasEnqueued /\ ArrivedIsGot /\ KeptIsShown
    /\ OnlyRoutinesRefuse /\ OneAttempt /\ GotOnce

-----------------------------------------------------------------------------
(* One attempt moves, and no other.                                          *)

Moved(w, d, next) ==
    /\ attempts' \in [Worker -> [Delivery -> Attempt \cup {Idle}]]
    /\ attempts'[w][d] = next
    /\ \A v \in Worker, e \in Delivery : v # w \/ e # d => attempts'[v][e] = attempts[v][e]

Steps == {"read", "asked", "arrived", "kept", "noted", "failed", "refused", "final"}

LEMMA GoesOn ==
    ASSUME TypeOK, NEW w \in Worker, NEW d \in Delivery, NEW step \in Steps,
           attempts[w][d] # Idle, Goes(w, d, step)
    PROVE  /\ attempts'[w][d].step = step /\ attempts'[w][d].count = attempts[w][d].count
           /\ attempts'[w][d] # Idle
           /\ Moved(w, d, attempts'[w][d])
<1>1. attempts[w][d] \in Attempt  BY DEF TypeOK
<1>2. PICK next : next = [attempts[w][d] EXCEPT !.step = step]  OBVIOUS
<1>3. next \in Attempt /\ next.step = step /\ next.count = attempts[w][d].count
  BY <1>1, <1>2 DEF Attempt, Steps
<1>4. attempts' = [attempts EXCEPT ![w][d] = next]  BY <1>2 DEF Goes
<1>5. attempts'[w][d] = next  BY <1>4 DEF TypeOK
<1>6. Moved(w, d, next)  BY <1>3, <1>4, <1>5 DEF TypeOK, Moved
<1> QED  BY <1>3, <1>5, <1>6, NullAssumption

LEMMA EndsAt ==
    ASSUME TypeOK, NEW w \in Worker, NEW d \in Delivery, Ends(w, d)
    PROVE  Moved(w, d, Idle)
BY DEF TypeOK, Ends, Moved

LEMMA WaitsFacts ==
    /\ Len(Waits) \in Nat
    /\ \A i \in 1..Len(Waits) : Waits[i] \in Nat \ {0} /\ Waits[i] \in Waiting
    /\ 0 \in Waiting /\ Waiting \subseteq Int
    /\ \A n \in Waiting : n # -MaxLate => n - 1 \in Waiting
<1>1. Len(Waits) \in Nat /\ DOMAIN Waits = 1..Len(Waits)
      /\ \A i \in 1..Len(Waits) : Waits[i] \in Nat \ {0}
  BY WaitsAssumption
<1>2. \A i \in 1..Len(Waits) : \A n \in 0..Waits[i] : n \in Waiting  BY <1>1 DEF Waiting
<1>3. \A i \in 1..Len(Waits) : Waits[i] \in Waiting  BY <1>1, <1>2
<1>4. \A n \in Waiting : n \in (-MaxLate)..0 \/ \E i \in 1..Len(Waits) : n \in 0..Waits[i]
  BY <1>1 DEF Waiting
<1>5. \A n \in (-MaxLate)..0 : n \in Waiting  BY DEF Waiting
<1>6. Waiting \subseteq Int  BY <1>1, <1>4, WaitsAssumption
<1>7. ASSUME NEW n \in Waiting, n # -MaxLate PROVE n - 1 \in Waiting
  <2>1. CASE n \in (-MaxLate)..0  BY <2>1, <1>5, <1>7, WaitsAssumption
  <2>2. CASE \E i \in 1..Len(Waits) : n \in 0..Waits[i]
    <3>1. PICK i \in 1..Len(Waits) : n \in 0..Waits[i]  BY <2>2
    <3>2. CASE n = 0  BY <3>2, <1>5, <1>7, WaitsAssumption
    <3>3. CASE n > 0
      <4>1. n - 1 \in 0..Waits[i]  BY <3>1, <3>3, <1>1
      <4> QED  BY <4>1, <1>2
    <3> QED  BY <3>1, <3>2, <3>3, <1>1
  <2> QED  BY <2>1, <2>2, <1>4
<1> QED  BY <1>1, <1>3, <1>5, <1>6, <1>7, WaitsAssumption

-----------------------------------------------------------------------------
(* The steps.                                                                *)

LEMMA StartsRight == Init => IInv
<1> SUFFICES ASSUME Init PROVE IInv
  OBVIOUS
<1>1. TypeOK
  <2>1. /\ rows \in [Delivery -> Row \cup {NoRow}]
        /\ attempts \in [Worker -> [Delivery -> Attempt \cup {Idle}]]
        /\ got \in [Delivery -> 0..2]
    BY DEF Init
  <2>2. asks \in 0..MaxAsks /\ faults \in 0..MaxFaults  BY BoundAssumption DEF Init
  <2> QED  BY <2>1, <2>2 DEF Init, TypeOK
<1>2. KeepsItsSeries /\ RowsWereEnqueued  BY DEF Init, KeepsItsSeries, RowsWereEnqueued, There
<1>3. /\ AttemptsAreOfPasses /\ GotWasEnqueued /\ ArrivedIsGot /\ KeptIsShown /\ OnlyRoutinesRefuse
      /\ OneAttempt /\ GotOnce
  BY DEF Init, AttemptsAreOfPasses, GotWasEnqueued, ArrivedIsGot, KeptIsShown, OnlyRoutinesRefuse,
         OneAttempt, GotOnce, HasArrived, At
<1> QED  BY <1>1, <1>2, <1>3 DEF IInv

LEMMA EnqueueKeeps ==
    ASSUME IInv, NEW d \in Delivery, Enqueue(d)
    PROVE  IInv'
<1> USE DEF IInv
<1>1. PICK row : row = [count |-> 0, next |-> 0, age |-> 0]  OBVIOUS
<1>2. row \in Row /\ row.count = 0 /\ row.next = 0
  BY <1>1, WaitsFacts, WaitsAssumption DEF Row, Count
<1>3. rows' = [rows EXCEPT ![d] = row] /\ d \notin enqueued /\ enqueued' = enqueued \cup {d}
      /\ UNCHANGED <<routine, connectors, suspended, passing, keyed, stuck, attempts, routines,
                     receiver, asks, faults>>
  BY <1>1 DEF Enqueue, workers
<1>4. TypeOK'  BY <1>2, <1>3 DEF TypeOK, routines, receiver
<1>5. KeepsItsSeries'  BY <1>2, <1>3, WaitsFacts DEF TypeOK, KeepsItsSeries, There
<1>6. AttemptsAreOfPasses' /\ RowsWereEnqueued' /\ GotWasEnqueued'
  BY <1>3 DEF TypeOK, AttemptsAreOfPasses, RowsWereEnqueued, GotWasEnqueued, There, receiver
<1>7. ArrivedIsGot' /\ KeptIsShown' /\ OnlyRoutinesRefuse' /\ OneAttempt'
  BY <1>3 DEF ArrivedIsGot, KeptIsShown, OnlyRoutinesRefuse, OneAttempt, HasArrived, At, receiver, routines
<1>8. GotOnce'
  BY <1>3 DEF TypeOK, GotOnce, GotWasEnqueued, HasArrived, At, receiver, There
<1> QED  BY <1>4, <1>5, <1>6, <1>7, <1>8

LEMMA PassStartsKeeps ==
    ASSUME IInv, NEW w \in Worker, PassStarts(w)
    PROVE  IInv'
<1> USE DEF IInv
<1>1. PICK batch \in Batches :
        /\ attempts' = [attempts EXCEPT ![w] = [d \in Delivery |->
                IF d \in batch THEN [step |-> "read", count |-> rows[d].count] ELSE Idle]]
        /\ excused' = excused \cup {d \in batch : \E v \in Worker : attempts[v][d] # Idle}
  BY DEF PassStarts
<1>2. /\ w \notin passing /\ passing' = passing \cup {w}
      /\ UNCHANGED <<rows, routine, connectors, enqueued, suspended, keyed, stuck, sessions, trouble,
                     unkept, got, asks, faults>>
  BY DEF PassStarts, queue, routines
<1>3. batch \subseteq Delivery /\ \A d \in batch : There(d) /\ rows[d] \in Row /\ rows[d].next # Never
  BY <1>1 DEF Batches, Due, There, TypeOK
<1>4. \A d \in batch : [step |-> "read", count |-> rows[d].count] \in Attempt
  BY <1>3 DEF Row, Attempt
<1>5. /\ attempts' \in [Worker -> [Delivery -> Attempt \cup {Idle}]]
      /\ \A v \in Worker, d \in Delivery : v # w => attempts'[v][d] = attempts[v][d]
      /\ \A d \in Delivery : attempts'[w][d] =
            IF d \in batch THEN [step |-> "read", count |-> rows[d].count] ELSE Idle
  BY <1>1, <1>4 DEF TypeOK
<1>6. \A d \in Delivery : attempts'[w][d] # Idle =>
            d \in batch /\ attempts'[w][d].step = "read" /\ attempts'[w][d].count = rows[d].count
  <2> DEFINE first(d) == [step |-> "read", count |-> rows[d].count]
  <2>1. \A d \in Delivery : first(d).step = "read" /\ first(d).count = rows[d].count  OBVIOUS
  <2>2. \A d \in Delivery : attempts'[w][d] = IF d \in batch THEN first(d) ELSE Idle  BY <1>5
  <2> HIDE DEF first
  <2> QED  BY <2>1, <2>2
<1>7. \A d \in Delivery : attempts[w][d] = Idle  BY <1>2 DEF AttemptsAreOfPasses
<1>8. TypeOK'  BY <1>1, <1>2, <1>3, <1>5 DEF TypeOK
<1>9. KeepsItsSeries' /\ RowsWereEnqueued' /\ GotWasEnqueued'
  BY <1>2 DEF KeepsItsSeries, RowsWereEnqueued, GotWasEnqueued, There
<1>10. AttemptsAreOfPasses'
  BY <1>2, <1>3, <1>5, <1>6 DEF AttemptsAreOfPasses, KeepsItsSeries, RowsWereEnqueued
<1>11. \A v \in Worker, d \in Delivery : \A step : At(v, d, step)' /\ step # "read" => At(v, d, step)
  BY <1>5, <1>6 DEF At
<1>12. ArrivedIsGot' /\ KeptIsShown' /\ OnlyRoutinesRefuse'
  BY <1>2, <1>11 DEF ArrivedIsGot, KeptIsShown, OnlyRoutinesRefuse, HasArrived
<1>13. \A d \in Delivery \ excused' : d \in batch => \A v \in Worker : attempts[v][d] = Idle
  BY <1>1
<1>14. OneAttempt'
  BY <1>1, <1>5, <1>6, <1>13 DEF OneAttempt
<1>15. GotOnce'
  <2> SUFFICES ASSUME NEW d \in Delivery \ excused', got[d] > 0
               PROVE  /\ got[d] = 1
                      /\ \A v \in Worker : attempts'[v][d] # Idle => HasArrived(v, d)'
                      /\ There(d) => \E v \in Worker : HasArrived(v, d)'
    BY <1>2 DEF GotOnce, There
  <2>1. d \notin excused  BY <1>1
  <2>2. \A v \in Worker : attempts[v][d] # Idle => HasArrived(v, d)
    BY <2>1 DEF GotOnce
  <2>3. d \notin batch
    BY <1>3, <1>13, <2>1 DEF GotOnce, HasArrived, At
  <2>4. \A v \in Worker : attempts'[v][d] = attempts[v][d]  BY <1>5, <1>7, <2>3
  <2> QED  BY <2>1, <2>4 DEF GotOnce, HasArrived, At
<1> QED  BY <1>8, <1>9, <1>10, <1>12, <1>14, <1>15

\* What a step of an attempt leaves alone.
LEMMA MovedFacts ==
    ASSUME IInv, NEW w \in Worker, NEW d \in Delivery, NEW next, Moved(w, d, next),
           attempts[w][d] # Idle, next # Idle => next.count = attempts[w][d].count,
           excused \subseteq excused', UNCHANGED <<passing, enqueued>>
    PROVE  /\ AttemptsAreOfPasses' /\ OneAttempt'
           /\ \A v \in Worker, e \in Delivery : \A step :
                v # w \/ e # d => (At(v, e, step)' <=> At(v, e, step))
           /\ \A step : At(w, d, step)' <=> next # Idle /\ next.step = step
<1>1. AttemptsAreOfPasses'  BY DEF IInv, AttemptsAreOfPasses, Moved
<1>2. \A v \in Worker, e \in Delivery : attempts'[v][e] # Idle => attempts[v][e] # Idle
  BY DEF Moved
<1>3. OneAttempt'  BY <1>2 DEF IInv, OneAttempt
<1> QED  BY <1>1, <1>3 DEF At, Moved

\* An attempt that did not arrive at a receiver that has the note is a second one.
LEMMA NotArrivedYet ==
    ASSUME IInv, NEW w \in Worker, NEW d \in Delivery \ excused, attempts[w][d] # Idle,
           ~HasArrived(w, d)
    PROVE  got[d] = 0
BY DEF IInv, GotOnce, TypeOK

LEMMA Untouched ==
    ASSUME IInv, UNCHANGED <<rows, enqueued, got>>
    PROVE  KeepsItsSeries' /\ RowsWereEnqueued' /\ GotWasEnqueued'
BY DEF IInv, KeepsItsSeries, RowsWereEnqueued, GotWasEnqueued, There

\* An attempt that did not arrive goes on, or ends, with nothing at the receiver.
LEMMA FailingKeeps ==
    ASSUME IInv, NEW w \in Worker, NEW d \in Delivery, NEW next, Moved(w, d, next),
           attempts[w][d] # Idle, ~HasArrived(w, d), next # Idle => next.count = attempts[w][d].count,
           next # Idle => next.step \notin {"arrived", "kept", "noted"},
           next # Idle /\ next.step = "refused" => d \in routine,
           UNCHANGED <<routine, connectors, enqueued, passing, sessions, unkept, got>>,
           excused \subseteq excused',
           TypeOK', KeepsItsSeries', RowsWereEnqueued', \A e \in Delivery : There(e)' => There(e)
    PROVE  IInv'
<1>1. /\ AttemptsAreOfPasses' /\ OneAttempt'
      /\ \A v \in Worker, e \in Delivery : \A step :
                v # w \/ e # d => (At(v, e, step)' <=> At(v, e, step))
      /\ \A step : At(w, d, step)' <=> next # Idle /\ next.step = step
  BY MovedFacts
<1>2. GotWasEnqueued'  BY DEF IInv, GotWasEnqueued
<1>3. \A v \in Worker, e \in Delivery, step \in {"arrived", "kept", "noted"} :
            At(v, e, step)' <=> At(v, e, step)
  BY <1>1 DEF HasArrived
<1>4. ArrivedIsGot' /\ KeptIsShown'
  BY <1>3 DEF IInv, ArrivedIsGot, KeptIsShown, HasArrived
<1>5. OnlyRoutinesRefuse'  BY <1>1 DEF IInv, OnlyRoutinesRefuse
<1>6. GotOnce'
  <2> SUFFICES ASSUME NEW e \in Delivery \ excused', got[e] > 0
               PROVE  /\ got[e] = 1
                      /\ \A v \in Worker : attempts'[v][e] # Idle => HasArrived(v, e)'
                      /\ There(e)' => \E v \in Worker : HasArrived(v, e)'
    BY DEF GotOnce
  <2>1. e # d  BY NotArrivedYet
  <2>2. \A v \in Worker : attempts'[v][e] = attempts[v][e]  BY <2>1 DEF Moved
  <2>3. e \notin excused  BY DEF TypeOK
  <2> QED  BY <1>3, <2>2, <2>3 DEF IInv, GotOnce, HasArrived
<1> QED  BY <1>1, <1>2, <1>4, <1>5, <1>6 DEF IInv

LEMMA SendsKeeps ==
    ASSUME IInv, NEW w \in Worker, NEW d \in Delivery, Sends(w, d)
    PROVE  IInv'
<1>1. /\ At(w, d, "read")
      /\ \E step \in {"asked", "failed", "final"} : Goes(w, d, step)
      /\ UNCHANGED <<rows, routine, connectors, enqueued, suspended, passing, keyed, stuck, sessions,
                     trouble, unkept, got, excused, asks, faults>>
  BY DEF Sends, queue, workers, routines, receiver
<1>2. PICK step \in {"asked", "failed", "final"} : Goes(w, d, step)  BY <1>1
<1>3. attempts[w][d] # Idle /\ ~HasArrived(w, d)  BY <1>1 DEF At, HasArrived
<1>4. /\ attempts'[w][d].step = step /\ attempts'[w][d].count = attempts[w][d].count
      /\ Moved(w, d, attempts'[w][d])
  BY <1>2, <1>3, GoesOn DEF Steps, IInv
<1>5. TypeOK'  BY <1>1, <1>4 DEF IInv, TypeOK, Moved
<1>6. KeepsItsSeries' /\ RowsWereEnqueued'  BY <1>1, Untouched
<1>7. \A e \in Delivery : There(e)' => There(e)  BY <1>1 DEF There
<1> QED  BY <1>1, <1>3, <1>4, <1>5, <1>6, <1>7, FailingKeeps

LEMMA RefusedKeeps ==
    ASSUME IInv, NEW w \in Worker, NEW d \in Delivery, Refused(w, d)
    PROVE  IInv'
<1>1. /\ At(w, d, "asked")
      /\ \E step \in {"failed", "final", "refused"} :
            Goes(w, d, step) /\ (step = "refused" => d \in routine)
      /\ UNCHANGED <<rows, routine, connectors, enqueued, suspended, passing, keyed, stuck, sessions,
                     trouble, unkept, got, excused, asks, faults>>
  BY DEF Refused, queue, workers, routines, receiver
<1>2. PICK step \in {"failed", "final", "refused"} :
            Goes(w, d, step) /\ (step = "refused" => d \in routine)
  BY <1>1
<1>3. attempts[w][d] # Idle /\ ~HasArrived(w, d)  BY <1>1 DEF At, HasArrived
<1>4. /\ attempts'[w][d].step = step /\ attempts'[w][d].count = attempts[w][d].count
      /\ Moved(w, d, attempts'[w][d])
  BY <1>2, <1>3, GoesOn DEF Steps, IInv
<1>5. TypeOK'  BY <1>1, <1>4 DEF IInv, TypeOK, Moved
<1>6. KeepsItsSeries' /\ RowsWereEnqueued'  BY <1>1, Untouched
<1>7. \A e \in Delivery : There(e)' => There(e)  BY <1>1 DEF There
<1> QED  BY <1>1, <1>2, <1>3, <1>4, <1>5, <1>6, <1>7, FailingKeeps

\* A receiver takes the note: once, or it is excused.
LEMMA TakenKeeps ==
    ASSUME IInv, NEW w \in Worker, NEW d \in Delivery, NEW step \in {"arrived", "failed"},
           At(w, d, "asked"), Takes(d), Goes(w, d, step),
           excused' = IF step = "failed" THEN excused \cup {d} ELSE excused,
           UNCHANGED <<rows, routine, connectors, enqueued, suspended, passing, keyed, stuck,
                       sessions, trouble, unkept, asks, faults>>
    PROVE  IInv'
<1>1. attempts[w][d] # Idle /\ ~HasArrived(w, d)  BY DEF At, HasArrived
<1>2. /\ attempts'[w][d].step = step /\ attempts'[w][d].count = attempts[w][d].count
      /\ attempts'[w][d] # Idle /\ Moved(w, d, attempts'[w][d])
  BY <1>1, GoesOn DEF Steps, IInv
<1>3. /\ AttemptsAreOfPasses' /\ OneAttempt'
      /\ \A v \in Worker, e \in Delivery : \A s :
                v # w \/ e # d => (At(v, e, s)' <=> At(v, e, s))
      /\ \A s : At(w, d, s)' <=> s = step
  BY <1>1, <1>2, MovedFacts
<1>4. /\ got' \in [Delivery -> 0..2] /\ got'[d] > 0 /\ got'[d] = (IF got[d] = 2 THEN 2 ELSE got[d] + 1)
      /\ \A e \in Delivery : e # d => got'[e] = got[e]
  BY DEF Takes, IInv, TypeOK
<1>5. TypeOK'  BY <1>2, <1>4 DEF IInv, TypeOK, Moved
<1>6. KeepsItsSeries' /\ RowsWereEnqueued'
  BY DEF IInv, KeepsItsSeries, RowsWereEnqueued, There
<1>7. GotWasEnqueued'
  BY <1>1, <1>4 DEF IInv, GotWasEnqueued, AttemptsAreOfPasses
<1>8. ArrivedIsGot'
  BY <1>3, <1>4 DEF IInv, TypeOK, ArrivedIsGot, HasArrived
<1>9. KeptIsShown' /\ OnlyRoutinesRefuse'  BY <1>3 DEF IInv, KeptIsShown, OnlyRoutinesRefuse
<1>10. GotOnce'
  <2> SUFFICES ASSUME NEW e \in Delivery \ excused', got'[e] > 0
               PROVE  /\ got'[e] = 1
                      /\ \A v \in Worker : attempts'[v][e] # Idle => HasArrived(v, e)'
                      /\ There(e) => \E v \in Worker : HasArrived(v, e)'
    BY DEF GotOnce, There
  <2>1. CASE e # d
    <3>1. \A v \in Worker : attempts'[v][e] = attempts[v][e]  BY <2>1, <1>2 DEF Moved
    <3> QED  BY <2>1, <3>1, <1>3, <1>4 DEF IInv, GotOnce, HasArrived
  <2>2. CASE e = d
    <3>1. step = "arrived" /\ d \notin excused  BY <2>2
    <3>2. got[d] = 0  BY <1>1, <3>1, NotArrivedYet
    <3>3. HasArrived(w, d)'  BY <1>3, <3>1 DEF HasArrived
    <3>4. \A v \in Worker : attempts'[v][d] # Idle => v = w  BY <2>2, <1>2, <1>3 DEF OneAttempt
    <3> QED  BY <2>2, <1>4, <3>2, <3>3, <3>4
  <2> QED  BY <2>1, <2>2
<1> QED  BY <1>3, <1>5, <1>6, <1>7, <1>8, <1>9, <1>10 DEF IInv

LEMMA ArrivesKeeps ==
    ASSUME IInv, NEW w \in Worker, NEW d \in Delivery, Arrives(w, d)
    PROVE  IInv'
BY TakenKeeps DEF Arrives, queue, workers, routines

LEMMA UnansweredKeeps ==
    ASSUME IInv, NEW w \in Worker, NEW d \in Delivery, Unanswered(w, d)
    PROVE  IInv'
<1>1. /\ At(w, d, "asked") /\ Goes(w, d, "failed")
      /\ UNCHANGED <<rows, routine, connectors, enqueued, suspended, passing, keyed, stuck, sessions,
                     trouble, unkept, asks, faults>>
  BY DEF Unanswered, queue, workers, routines
<1>2. CASE Takes(d) /\ excused' = excused \cup {d}  BY <1>1, <1>2, TakenKeeps
<1>3. CASE UNCHANGED receiver
  <2>1. attempts[w][d] # Idle /\ ~HasArrived(w, d)  BY <1>1 DEF At, HasArrived
  <2>2. /\ attempts'[w][d].step = "failed" /\ attempts'[w][d].count = attempts[w][d].count
        /\ Moved(w, d, attempts'[w][d])
    BY <1>1, <2>1, GoesOn DEF Steps, IInv
  <2>3. got' = got /\ excused' = excused  BY <1>3 DEF receiver
  <2>4. TypeOK'  BY <1>1, <2>2, <2>3 DEF IInv, TypeOK, Moved
  <2>5. KeepsItsSeries' /\ RowsWereEnqueued'  BY <1>1, <2>3, Untouched
  <2>6. \A e \in Delivery : There(e)' => There(e)  BY <1>1 DEF There
  <2> QED  BY <1>1, <2>1, <2>2, <2>3, <2>4, <2>5, <2>6, FailingKeeps
<1> QED  BY <1>2, <1>3 DEF Unanswered

\* An attempt that arrived goes on to keep what the routine answered.
LEMMA KeepsOn ==
    ASSUME IInv, NEW w \in Worker, NEW d \in Delivery, NEW step \in {"kept", "noted"},
           HasArrived(w, d), Goes(w, d, step), d \in sessions' \cup unkept' \/ d \notin connectors,
           \A e \in Delivery : e # d => (e \in sessions \cup unkept => e \in sessions' \cup unkept'),
           sessions' \subseteq routine, unkept' \subseteq routine, trouble' \subseteq routine,
           UNCHANGED <<rows, routine, connectors, enqueued, suspended, passing, keyed, stuck, got,
                       excused, asks, faults>>
    PROVE  IInv'
<1>1. attempts[w][d] # Idle  BY DEF At, HasArrived
<1>2. /\ attempts'[w][d].step = step /\ attempts'[w][d].count = attempts[w][d].count
      /\ attempts'[w][d] # Idle /\ Moved(w, d, attempts'[w][d])
  BY <1>1, GoesOn DEF Steps, IInv
<1>3. /\ AttemptsAreOfPasses' /\ OneAttempt'
      /\ \A v \in Worker, e \in Delivery : \A s :
                v # w \/ e # d => (At(v, e, s)' <=> At(v, e, s))
      /\ \A s : At(w, d, s)' <=> s = step
  BY <1>1, <1>2, MovedFacts
<1>4. TypeOK'  BY <1>2 DEF IInv, TypeOK, Moved
<1>5. KeepsItsSeries' /\ RowsWereEnqueued' /\ GotWasEnqueued'  BY Untouched
<1>6. HasArrived(w, d)' /\ \A v \in Worker, e \in Delivery : HasArrived(v, e)' <=> HasArrived(v, e)
  BY <1>3 DEF HasArrived
<1>7. ArrivedIsGot'  BY <1>6 DEF IInv, ArrivedIsGot
<1>8. KeptIsShown'
  <2> SUFFICES ASSUME NEW v \in Worker, NEW e \in Delivery, At(v, e, "kept")' \/ At(v, e, "noted")'
               PROVE  e \in sessions' \cup unkept' \/ e \notin connectors
    BY DEF KeptIsShown
  <2>1. CASE e = d  BY <2>1
  <2>2. CASE e # d
    <3>1. At(v, e, "kept") \/ At(v, e, "noted")  BY <2>2, <1>3
    <3> QED  BY <2>2, <3>1 DEF IInv, KeptIsShown
  <2> QED  BY <2>1, <2>2
<1>9. OnlyRoutinesRefuse'  BY <1>3 DEF IInv, OnlyRoutinesRefuse
<1>10. \A v \in Worker, e \in Delivery : attempts'[v][e] # Idle => attempts[v][e] # Idle
  BY <1>1, <1>2 DEF Moved
<1>11. GotOnce'  BY <1>6, <1>10 DEF IInv, GotOnce, There
<1> QED  BY <1>3, <1>4, <1>5, <1>7, <1>8, <1>9, <1>11 DEF IInv

LEMMA KeepSessionKeeps ==
    ASSUME IInv, NEW w \in Worker, NEW d \in Delivery, KeepSession(w, d)
    PROVE  IInv'
<1>1. /\ d \in routine /\ HasArrived(w, d) /\ Goes(w, d, "kept")
      /\ UNCHANGED <<rows, routine, connectors, enqueued, suspended, passing, keyed, stuck, trouble,
                     got, excused, asks, faults>>
  BY DEF KeepSession, HasArrived, queue, workers, receiver
<1>2. /\ sessions \cup unkept \subseteq sessions' \cup unkept' /\ d \in sessions' \cup unkept'
      /\ sessions' \subseteq routine /\ unkept' \subseteq routine
  BY <1>1 DEF KeepSession, IInv, TypeOK
<1> QED  BY <1>1, <1>2, KeepsOn DEF IInv, TypeOK

LEMMA NoteRoutineKeeps ==
    ASSUME IInv, NEW w \in Worker, NEW d \in Delivery, NoteRoutine(w, d)
    PROVE  IInv'
<1>1. UNCHANGED <<rows, routine, connectors, enqueued, suspended, passing, keyed, stuck, sessions,
                  unkept, got, excused, asks, faults>>
  BY DEF NoteRoutine, queue, workers, receiver
<1>2. CASE At(w, d, "kept") /\ trouble' \in {trouble, trouble \ {d}} /\ Goes(w, d, "noted")
  <2>1. d \in sessions \cup unkept \/ d \notin connectors  BY <1>2 DEF IInv, KeptIsShown
  <2>2. HasArrived(w, d)  BY <1>2 DEF HasArrived
  <2>3. sessions \subseteq routine /\ unkept \subseteq routine /\ trouble' \subseteq routine
    BY <1>2 DEF IInv, TypeOK
  <2> QED  BY <1>1, <1>2, <2>1, <2>2, <2>3, KeepsOn
<1>3. CASE At(w, d, "refused") /\ trouble' \in {trouble, trouble \cup ({d} \cap connectors)}
           /\ Goes(w, d, "final")
  <2>1. attempts[w][d] # Idle /\ ~HasArrived(w, d)  BY <1>3 DEF At, HasArrived
  <2>2. /\ attempts'[w][d].step = "final" /\ attempts'[w][d].count = attempts[w][d].count
        /\ Moved(w, d, attempts'[w][d])
    BY <1>3, <2>1, GoesOn DEF Steps, IInv
  <2>3. trouble' \subseteq routine  BY <1>3 DEF IInv, TypeOK, OnlyRoutinesRefuse
  <2>4. TypeOK'  BY <1>1, <2>2, <2>3 DEF IInv, TypeOK, Moved
  <2>5. KeepsItsSeries' /\ RowsWereEnqueued'  BY <1>1, Untouched
  <2>6. \A e \in Delivery : There(e)' => There(e)  BY <1>1 DEF There
  <2> QED  BY <1>1, <2>1, <2>2, <2>4, <2>5, <2>6, FailingKeeps
<1> QED  BY <1>2, <1>3 DEF NoteRoutine

\* What a receiver has leaves the table, and never comes back.
LEMMA SettleArrivedKeeps ==
    ASSUME IInv, NEW w \in Worker, NEW d \in Delivery, SettleArrived(w, d)
    PROVE  IInv'
<1>1. /\ HasArrived(w, d) /\ Ends(w, d) /\ rows' = [rows EXCEPT ![d] = NoRow]
      /\ UNCHANGED <<routine, connectors, enqueued, suspended, passing, keyed, stuck, sessions,
                     trouble, unkept, got, excused, asks, faults>>
  BY DEF SettleArrived, Arrived, HasArrived, workers, routines, receiver
<1>2. attempts[w][d] # Idle  BY <1>1 DEF At, HasArrived
<1>3. Moved(w, d, Idle)  BY <1>1, EndsAt DEF IInv
<1>4. /\ AttemptsAreOfPasses' /\ OneAttempt'
      /\ \A v \in Worker, e \in Delivery : \A s :
                v # w \/ e # d => (At(v, e, s)' <=> At(v, e, s))
      /\ \A s : ~At(w, d, s)'
  BY <1>1, <1>2, <1>3, MovedFacts
<1>5. /\ rows' \in [Delivery -> Row \cup {NoRow}] /\ ~There(d)'
      /\ \A e \in Delivery : e # d => rows'[e] = rows[e]
  BY <1>1 DEF IInv, TypeOK, There
<1>6. TypeOK'  BY <1>1, <1>3, <1>5 DEF IInv, TypeOK, Moved
<1>7. KeepsItsSeries' /\ RowsWereEnqueued' /\ GotWasEnqueued'
  BY <1>1, <1>5 DEF IInv, KeepsItsSeries, RowsWereEnqueued, GotWasEnqueued, There
<1>8. ArrivedIsGot' /\ KeptIsShown' /\ OnlyRoutinesRefuse'
  BY <1>1, <1>4 DEF IInv, ArrivedIsGot, KeptIsShown, OnlyRoutinesRefuse, HasArrived
<1>9. GotOnce'
  <2> SUFFICES ASSUME NEW e \in Delivery \ excused, got[e] > 0
               PROVE  /\ got[e] = 1
                      /\ \A v \in Worker : attempts'[v][e] # Idle => HasArrived(v, e)'
                      /\ There(e)' => \E v \in Worker : HasArrived(v, e)'
    BY <1>1 DEF GotOnce
  <2>1. CASE e # d  BY <2>1, <1>3, <1>4, <1>5 DEF IInv, GotOnce, HasArrived, Moved, There
  <2>2. CASE e = d
    <3>1. \A v \in Worker : attempts'[v][d] = Idle
      BY <2>2, <1>2, <1>3 DEF Moved, IInv, OneAttempt
    <3> QED  BY <2>2, <3>1, <1>5 DEF IInv, GotOnce
  <2> QED  BY <2>1, <2>2
<1> QED  BY <1>4, <1>6, <1>7, <1>8, <1>9 DEF IInv

LEMMA SettleFailedKeeps ==
    ASSUME IInv, NEW w \in Worker, NEW d \in Delivery, SettleFailed(w, d)
    PROVE  IInv'
<1> DEFINE counted == There(d) /\ rows[d].count = attempts[w][d].count
           final == At(w, d, "final")
<1>1. /\ (At(w, d, "failed") \/ At(w, d, "final")) /\ Ends(w, d)
      /\ UNCHANGED <<routine, connectors, enqueued, suspended, passing, keyed, stuck, sessions,
                     trouble, unkept, got, excused, asks, faults>>
  BY DEF SettleFailed, workers, routines, receiver
<1>2. attempts[w][d] # Idle /\ ~HasArrived(w, d) /\ Ends(w, d)
  BY DEF SettleFailed, At, HasArrived
<1>3. Moved(w, d, Idle)  BY <1>2, EndsAt DEF IInv
<1>4. attempts[w][d] \in Attempt /\ attempts[w][d].count \in Nat /\ attempts[w][d].count <= Len(Waits)
  BY <1>2, WaitsFacts DEF IInv, TypeOK, AttemptsAreOfPasses, Attempt, Count
<1>5. PICK row : row = [count |-> rows[d].count + 1, age |-> 0, next |-> NextAfter(rows[d].count, final)]
  OBVIOUS
<1>6. row.count = rows[d].count + 1 /\ row.next = NextAfter(rows[d].count, final) /\ row.age = 0
      /\ row = [count |-> row.count, next |-> row.next, age |-> row.age]
  BY <1>5
<1>7. ASSUME counted
      PROVE  /\ row \in Row
             /\ row.next # Never => row.count \in 1..Len(Waits) /\ row.next = Waits[row.count]
  <2>1. row.count \in Count /\ row.count \in Nat \ {0}  BY <1>4, <1>6, <1>7, WaitsFacts DEF Count
  <2>2. row.next = Never \/ (row.count \in 1..Len(Waits) /\ row.next = Waits[row.count])
    BY <1>4, <1>6, <1>7, WaitsFacts DEF NextAfter
  <2>3. row.next \in Waiting \cup {Never}  BY <2>2, WaitsFacts
  <2>4. row.age \in 0..(Kept + 1)  BY <1>6, WaitsAssumption
  <2> QED  BY <1>6, <2>1, <2>2, <2>3, <2>4 DEF Row
<1>8. rows' = [rows EXCEPT ![d] = IF counted THEN row ELSE rows[d]]
  BY <1>5 DEF SettleFailed
<1>9. /\ rows' \in [Delivery -> Row \cup {NoRow}]
      /\ \A e \in Delivery : rows'[e] = IF e = d /\ counted THEN row ELSE rows[e]
  BY <1>7, <1>8 DEF IInv, TypeOK
<1> HIDE DEF counted
<1>10. counted => There(d)  BY DEF counted
<1>11. TypeOK'  BY <1>1, <1>3, <1>9 DEF IInv, TypeOK, Moved
<1>12. \A e \in Delivery : There(e)' => There(e)
  BY <1>9, <1>10 DEF There
<1>13. KeepsItsSeries'
  <2> SUFFICES ASSUME NEW e \in Delivery, rows'[e] # NoRow, rows'[e].next # Never
               PROVE  /\ rows'[e].count <= Len(Waits)
                      /\ rows'[e].next <= (IF rows'[e].count = 0 THEN 0 ELSE Waits[rows'[e].count])
    BY DEF KeepsItsSeries, There
  <2>1. CASE e = d /\ counted
    <3>1. row.count \in 1..Len(Waits) /\ row.next = Waits[row.count]  BY <2>1, <1>7, <1>9
    <3>2. Waits[row.count] \in Nat  BY <3>1, WaitsFacts
    <3> QED  BY <2>1, <3>1, <3>2, <1>9, WaitsFacts
  <2>2. CASE ~(e = d /\ counted)  BY <2>2, <1>9 DEF IInv, KeepsItsSeries, There
  <2> QED  BY <2>1, <2>2
<1>14. RowsWereEnqueued'  BY <1>1, <1>12 DEF IInv, RowsWereEnqueued
<1> QED  BY <1>1, <1>2, <1>3, <1>11, <1>12, <1>13, <1>14, FailingKeeps

LEMMA ThrowsKeeps ==
    ASSUME IInv, NEW w \in Worker, NEW d \in Delivery, Throws(w, d)
    PROVE  IInv'
<1>1. /\ attempts[w][d] # Idle /\ Ends(w, d) /\ Fault
      /\ excused' = IF HasArrived(w, d) THEN excused \cup {d} ELSE excused
      /\ UNCHANGED <<rows, routine, connectors, enqueued, suspended, passing, keyed, stuck, sessions,
                     trouble, unkept, got, asks>>
  <2>1. Arrived(w, d) => HasArrived(w, d)  BY DEF Arrived, HasArrived
  <2>2. HasArrived(w, d) => Arrived(w, d)  BY DEF Throws, Arrived, HasArrived, At
  <2> QED  BY <2>1, <2>2 DEF Throws, At, Arrived, queue, workers, routines
<1>2. Moved(w, d, Idle)  BY <1>1, EndsAt DEF IInv
<1>3. faults' \in 0..MaxFaults  BY <1>1, BoundAssumption DEF Fault, IInv, TypeOK
<1>4. TypeOK'  BY <1>1, <1>2, <1>3 DEF IInv, TypeOK, Moved
<1>5. KeepsItsSeries' /\ RowsWereEnqueued' /\ GotWasEnqueued'  BY <1>1, Untouched
<1>6. \A e \in Delivery : There(e)' => There(e)  BY <1>1 DEF There
<1>7. CASE ~HasArrived(w, d)  BY <1>1, <1>2, <1>4, <1>5, <1>6, <1>7, FailingKeeps
<1>8. CASE HasArrived(w, d)
  <2>1. excused' = excused \cup {d}  BY <1>1, <1>8
  <2>2. /\ AttemptsAreOfPasses' /\ OneAttempt'
        /\ \A v \in Worker, e \in Delivery : \A s :
                v # w \/ e # d => (At(v, e, s)' <=> At(v, e, s))
        /\ \A s : ~At(w, d, s)'
    BY <1>1, <1>2, <2>1, MovedFacts
  <2>3. ArrivedIsGot' /\ KeptIsShown' /\ OnlyRoutinesRefuse'
    BY <1>1, <2>2 DEF IInv, ArrivedIsGot, KeptIsShown, OnlyRoutinesRefuse, HasArrived
  <2>4. GotOnce'
    BY <1>1, <1>2, <2>1, <2>2 DEF IInv, GotOnce, HasArrived, Moved, There
  <2> QED  BY <1>4, <1>5, <2>2, <2>3, <2>4 DEF IInv
<1> QED  BY <1>7, <1>8

\* Rows that leave the table, or stay as they are, disturb nothing else.
LEMMA RowsGoKeeps ==
    ASSUME IInv, rows' \in [Delivery -> Row \cup {NoRow}],
           \A d \in Delivery : rows'[d] \in {rows[d], NoRow},
           sessions' \subseteq routine, trouble' \subseteq routine, passing' \subseteq passing,
           connectors' \subseteq connectors,
           \A d \in Delivery : d \in sessions => d \in sessions' \/ d \notin connectors',
           \A w \in Worker, d \in Delivery : attempts[w][d] # Idle => w \in passing',
           UNCHANGED <<routine, enqueued, suspended, keyed, stuck, attempts, unkept, receiver, asks, faults>>
    PROVE  IInv'
<1>1. TypeOK'  BY DEF IInv, TypeOK, receiver
<1>2. \A d \in Delivery : There(d)' => There(d) /\ rows'[d] = rows[d]  BY DEF There
<1>3. KeepsItsSeries' /\ RowsWereEnqueued' /\ AttemptsAreOfPasses'
  BY <1>2 DEF IInv, KeepsItsSeries, RowsWereEnqueued, AttemptsAreOfPasses, There
<1>4. GotWasEnqueued' /\ ArrivedIsGot' /\ OnlyRoutinesRefuse' /\ OneAttempt' /\ KeptIsShown'
  BY DEF IInv, GotWasEnqueued, ArrivedIsGot, OnlyRoutinesRefuse, OneAttempt, KeptIsShown, HasArrived, At,
         receiver
<1>5. GotOnce'
  BY <1>2 DEF IInv, GotOnce, HasArrived, At, receiver
<1> QED  BY <1>1, <1>3, <1>4, <1>5 DEF IInv

LEMMA PassEndsKeeps ==
    ASSUME IInv, NEW w \in Worker, PassEnds(w)
    PROVE  IInv'
<1>1. /\ passing' = passing \ {w} /\ \A d \in Delivery : attempts[w][d] = Idle
      /\ rows' = [d \in Delivery |-> IF GivenUp(d) /\ rows[d].age > Kept THEN NoRow ELSE rows[d]]
      /\ UNCHANGED <<routine, connectors, enqueued, suspended, keyed, stuck, attempts, sessions, trouble,
                     unkept, receiver, asks, faults>>
  BY DEF PassEnds, routines
<1>2. /\ rows' \in [Delivery -> Row \cup {NoRow}]
      /\ \A d \in Delivery : rows'[d] \in {rows[d], NoRow}
  BY <1>1 DEF IInv, TypeOK
<1>3. sessions' \subseteq routine /\ trouble' \subseteq routine  BY <1>1 DEF IInv, TypeOK
<1>4. \A v \in Worker, d \in Delivery : attempts[v][d] # Idle => v \in passing'
  BY <1>1 DEF IInv, AttemptsAreOfPasses
<1> QED  BY <1>1, <1>2, <1>3, <1>4, RowsGoKeeps

LEMMA RemoveConnectorKeeps ==
    ASSUME IInv, NEW d \in Delivery, RemoveConnector(d)
    PROVE  IInv'
<1>1. /\ connectors' = connectors \ {d} /\ rows' = [rows EXCEPT ![d] = NoRow]
      /\ sessions' = sessions \ {d} /\ trouble' = trouble \ {d}
      /\ UNCHANGED <<routine, enqueued, suspended, passing, keyed, stuck, attempts, unkept, receiver,
                     asks, faults>>
  BY DEF RemoveConnector, workers
<1>2. /\ rows' \in [Delivery -> Row \cup {NoRow}]
      /\ \A e \in Delivery : rows'[e] \in {rows[e], NoRow}
  BY <1>1 DEF IInv, TypeOK
<1>3. sessions' \subseteq routine /\ trouble' \subseteq routine  BY <1>1 DEF IInv, TypeOK
<1>4. \A w \in Worker, e \in Delivery : attempts[w][e] # Idle => w \in passing'
  BY <1>1 DEF IInv, AttemptsAreOfPasses
<1>5. \A e \in Delivery : e \in sessions => e \in sessions' \/ e \notin connectors'  BY <1>1
<1> QED  BY <1>1, <1>2, <1>3, <1>4, <1>5, RowsGoKeeps

\* What the worker asked may arrive when it stops: each of its attempts is excused.
LEMMA StopsKeeps ==
    ASSUME IInv, NEW w \in Worker, Stops(w)
    PROVE  IInv'
<1>1. /\ passing' = passing \ {w} /\ stuck' = stuck \ {w} /\ keyed' \in {keyed \cup {w}, keyed \ {w}}
      /\ Fault
      /\ attempts' = [attempts EXCEPT ![w] = [d \in Delivery |-> Idle]]
      /\ excused' = excused \cup {d \in Delivery : attempts[w][d] # Idle}
      /\ UNCHANGED <<rows, routine, connectors, enqueued, suspended, sessions, trouble, unkept, asks>>
  BY DEF Stops, queue, routines
<1>2. PICK taken \in SUBSET {d \in Delivery : At(w, d, "asked")} :
          got' = [d \in Delivery |-> IF d \in taken /\ got[d] < 2 THEN got[d] + 1 ELSE got[d]]
  BY DEF Stops
<1>3. /\ attempts' \in [Worker -> [Delivery -> Attempt \cup {Idle}]]
      /\ \A v \in Worker, d \in Delivery : attempts'[v][d] = IF v = w THEN Idle ELSE attempts[v][d]
  BY <1>1 DEF IInv, TypeOK
<1>4. /\ got' \in [Delivery -> 0..2]
      /\ \A d \in Delivery : got'[d] >= got[d] /\ (attempts[w][d] = Idle => got'[d] = got[d])
  BY <1>2 DEF IInv, TypeOK, At
<1>5. faults' \in 0..MaxFaults  BY <1>1, BoundAssumption DEF Fault, IInv, TypeOK
<1>6. TypeOK'  BY <1>1, <1>3, <1>4, <1>5 DEF IInv, TypeOK
<1>7. KeepsItsSeries' /\ RowsWereEnqueued'
  BY <1>1 DEF IInv, KeepsItsSeries, RowsWereEnqueued, There
<1>8. AttemptsAreOfPasses' /\ OneAttempt'
  BY <1>1, <1>3 DEF IInv, AttemptsAreOfPasses, OneAttempt
<1>9. GotWasEnqueued'
  BY <1>1, <1>4 DEF IInv, GotWasEnqueued, AttemptsAreOfPasses
<1>10. \A v \in Worker, d \in Delivery : \A step : At(v, d, step)' <=> v # w /\ At(v, d, step)
  BY <1>3 DEF At
<1>11. KeptIsShown' /\ OnlyRoutinesRefuse'
  BY <1>1, <1>10 DEF IInv, KeptIsShown, OnlyRoutinesRefuse
<1>12. ArrivedIsGot'
  <2> SUFFICES ASSUME NEW v \in Worker, NEW d \in Delivery, HasArrived(v, d)'
               PROVE  got'[d] > 0
    BY DEF ArrivedIsGot
  <2>1. HasArrived(v, d)  BY <1>10 DEF HasArrived
  <2>2. got[d] > 0  BY <2>1 DEF IInv, ArrivedIsGot
  <2> QED  BY <2>2, <1>4 DEF IInv, TypeOK
<1>13. GotOnce'
  <2> SUFFICES ASSUME NEW d \in Delivery \ excused', got'[d] > 0
               PROVE  /\ got'[d] = 1
                      /\ \A v \in Worker : attempts'[v][d] # Idle => HasArrived(v, d)'
                      /\ There(d) => \E v \in Worker : HasArrived(v, d)'
    BY <1>1 DEF GotOnce, There
  <2>1. attempts[w][d] = Idle /\ d \notin excused  BY <1>1
  <2>2. got'[d] = got[d]  BY <2>1, <1>4
  <2>3. \A v \in Worker : \A step : At(v, d, step)' <=> At(v, d, step)  BY <1>10, <2>1 DEF At
  <2>4. \A v \in Worker : attempts'[v][d] = attempts[v][d]  BY <1>3, <2>1
  <2> QED  BY <2>1, <2>2, <2>3, <2>4 DEF IInv, GotOnce, HasArrived
<1> QED  BY <1>6, <1>7, <1>8, <1>9, <1>11, <1>12, <1>13 DEF IInv

\* Rows that stay in the table, within their series.
LEMMA RowsChangeKeeps ==
    ASSUME IInv, rows' \in [Delivery -> Row \cup {NoRow}], \A d \in Delivery : There(d)' => There(d),
           KeepsItsSeries', asks' \in 0..MaxAsks,
           UNCHANGED <<routine, connectors, enqueued, suspended, passing, keyed, stuck, attempts,
                       routines, receiver, faults>>
    PROVE  IInv'
<1>1. TypeOK'  BY DEF IInv, TypeOK, routines, receiver
<1>2. RowsWereEnqueued' /\ AttemptsAreOfPasses'
  BY DEF IInv, RowsWereEnqueued, AttemptsAreOfPasses
<1>3. GotWasEnqueued' /\ ArrivedIsGot' /\ OnlyRoutinesRefuse' /\ OneAttempt' /\ KeptIsShown'
  BY DEF IInv, GotWasEnqueued, ArrivedIsGot, OnlyRoutinesRefuse, OneAttempt, KeptIsShown, HasArrived, At,
         receiver, routines
<1>4. GotOnce'  BY DEF IInv, GotOnce, HasArrived, At, receiver
<1> QED  BY <1>1, <1>2, <1>3, <1>4 DEF IInv

\* Somebody who asks starts the series again, and touches no attempt under way.
LEMMA AskKeeps ==
    ASSUME IInv, NEW d \in Delivery, Ask(d)
    PROVE  IInv'
<1>1. PICK row : row = [[rows[d] EXCEPT !.count = 0] EXCEPT !.next = 0]  OBVIOUS
<1>2. rows[d] \in Row  BY DEF Ask, There, IInv, TypeOK
<1>3. row \in Row /\ row.count = 0 /\ row.next = 0
  <2>1. 0 \in Count /\ 0 \in Waiting  BY WaitsFacts DEF Count
  <2> QED  BY <1>1, <1>2, <2>1 DEF Row
<1>4. /\ There(d) /\ rows' = [rows EXCEPT ![d] = row] /\ asks' = asks + 1 /\ asks < MaxAsks
      /\ UNCHANGED <<routine, connectors, enqueued, suspended, passing, keyed, stuck, attempts,
                     routines, receiver, faults>>
  BY <1>1 DEF Ask, workers, IInv, TypeOK
<1>5. asks' \in 0..MaxAsks  BY <1>4, BoundAssumption DEF IInv, TypeOK
<1>6. /\ rows' \in [Delivery -> Row \cup {NoRow}]
      /\ \A e \in Delivery : rows'[e] = IF e = d THEN row ELSE rows[e]
  BY <1>3, <1>4 DEF IInv, TypeOK
<1>7. \A e \in Delivery : There(e)' => There(e)  BY <1>4, <1>6 DEF There
<1>8. KeepsItsSeries'
  <2> SUFFICES ASSUME NEW e \in Delivery, rows'[e] # NoRow, rows'[e].next # Never
               PROVE  /\ rows'[e].count <= Len(Waits)
                      /\ rows'[e].next <= (IF rows'[e].count = 0 THEN 0 ELSE Waits[rows'[e].count])
    BY DEF KeepsItsSeries, There
  <2>1. CASE e = d  BY <2>1, <1>3, <1>6, WaitsFacts
  <2>2. CASE e # d  BY <2>2, <1>6 DEF IInv, KeepsItsSeries, There
  <2> QED  BY <2>1, <2>2
<1> QED  BY <1>4, <1>5, <1>6, <1>7, <1>8, RowsChangeKeeps

\* Time brings every attempt nearer, and leaves its count alone.
LEMMA LaterFacts ==
    ASSUME NEW row \in Row
    PROVE  /\ Later(row) \in Row /\ Later(row).count = row.count
           /\ (Later(row).next = Never) <=> (row.next = Never)
           /\ row.next # Never => Later(row).next <= row.next
<1>1. CASE row.next = Never
  <2>1. PICK age : age = IF row.age > Kept THEN row.age ELSE row.age + 1  OBVIOUS
  <2>2. age \in 0..(Kept + 1)  BY <2>1, WaitsAssumption DEF Row
  <2>3. Later(row) = [row EXCEPT !.age = age]  BY <1>1, <2>1 DEF Later
  <2> QED  BY <1>1, <2>2, <2>3 DEF Row
<1>2. CASE row.next # Never
  <2>1. PICK next : next = IF row.next = -MaxLate THEN row.next ELSE row.next - 1  OBVIOUS
  <2>2. row.next \in Waiting /\ row.next \in Int  BY <1>2, WaitsFacts DEF Row
  <2>3. next \in Waiting /\ next <= row.next  BY <2>1, <2>2, WaitsFacts
  <2>4. next # Never  BY <2>3, NullAssumption
  <2>5. Later(row) = [row EXCEPT !.next = next]  BY <1>2, <2>1 DEF Later
  <2>6. Later(row) \in Row /\ Later(row).count = row.count /\ Later(row).next = next
    BY <2>3, <2>5 DEF Row
  <2> QED  BY <1>2, <2>3, <2>4, <2>6
<1> QED  BY <1>1, <1>2

LEMMA TickKeeps ==
    ASSUME IInv, Tick
    PROVE  IInv'
<1>1. /\ rows' = [d \in Delivery |-> IF There(d) THEN Later(rows[d]) ELSE NoRow]
      /\ UNCHANGED <<routine, connectors, enqueued, suspended, passing, keyed, stuck, attempts,
                     routines, receiver, asks, faults>>
  BY DEF Tick, workers
<1>2. \A d \in Delivery : There(d) => rows[d] \in Row  BY DEF There, IInv, TypeOK
<1>3. /\ rows' \in [Delivery -> Row \cup {NoRow}]
      /\ \A d \in Delivery : rows'[d] = IF There(d) THEN Later(rows[d]) ELSE NoRow
  BY <1>1, <1>2, LaterFacts
<1>4. \A d \in Delivery : There(d)' => There(d)  BY <1>3 DEF There
<1>5. KeepsItsSeries'
  <2> SUFFICES ASSUME NEW d \in Delivery, rows'[d] # NoRow, rows'[d].next # Never
               PROVE  /\ rows'[d].count <= Len(Waits)
                      /\ rows'[d].next <= (IF rows'[d].count = 0 THEN 0 ELSE Waits[rows'[d].count])
    BY DEF KeepsItsSeries, There
  <2>1. There(d) /\ rows'[d] = Later(rows[d]) /\ rows[d] \in Row  BY <1>2, <1>3
  <2>2. rows'[d].count = rows[d].count /\ rows[d].next # Never /\ rows'[d].next <= rows[d].next
    BY <2>1, LaterFacts
  <2>3. /\ rows[d].count <= Len(Waits)
        /\ rows[d].next <= (IF rows[d].count = 0 THEN 0 ELSE Waits[rows[d].count])
    BY <2>1, <2>2 DEF IInv, KeepsItsSeries
  <2>4. rows'[d] \in Row  BY <2>1, LaterFacts
  <2>5. rows[d].next \in Int /\ rows'[d].next \in Int /\ rows[d].count \in Nat
    <3>1. rows[d].next \in Waiting /\ rows'[d].next \in Waiting /\ rows[d].count \in Count
      BY <2>1, <2>2, <2>4 DEF Row
    <3>2. rows[d].count \in Nat  BY <3>1, WaitsFacts DEF Count
    <3>3. \A n \in Waiting : n \in Int  BY WaitsFacts
    <3> QED  BY <3>1, <3>2, <3>3
  <2>6. rows[d].count # 0 => Waits[rows[d].count] \in Int  BY <2>3, <2>5, WaitsFacts
  <2> QED  BY <2>2, <2>3, <2>5, <2>6
<1>6. asks' \in 0..MaxAsks  BY <1>1 DEF IInv, TypeOK
<1> QED  BY <1>1, <1>3, <1>4, <1>5, <1>6, RowsChangeKeeps

LEMMA SuspendKeeps ==
    ASSUME IInv, Suspend
    PROVE  IInv'
<1>1. /\ suspended' = ~suspended
      /\ UNCHANGED <<rows, routine, connectors, enqueued, passing, keyed, stuck, attempts, sessions,
                     trouble, unkept, got, excused, asks, faults>>
  BY DEF Suspend, workers, routines, receiver
<1>2. TypeOK'  BY <1>1 DEF IInv, TypeOK
<1>3. KeepsItsSeries' /\ RowsWereEnqueued' /\ GotWasEnqueued'  BY <1>1, Untouched
<1>4. AttemptsAreOfPasses' /\ ArrivedIsGot' /\ OnlyRoutinesRefuse' /\ OneAttempt' /\ KeptIsShown' /\ GotOnce'
  BY <1>1 DEF IInv, AttemptsAreOfPasses, ArrivedIsGot, OnlyRoutinesRefuse, OneAttempt, KeptIsShown, GotOnce,
              HasArrived, At, There
<1> QED  BY <1>2, <1>3, <1>4 DEF IInv

\* A pass that waits for ever stays open, with every attempt of it as it is.
LEMMA HangsKeeps ==
    ASSUME IInv, NEW w \in Worker, Hangs(w)
    PROVE  IInv'
<1>1. /\ stuck' = stuck \cup {w} /\ Fault
      /\ UNCHANGED <<rows, routine, connectors, enqueued, suspended, passing, keyed, attempts, sessions,
                     trouble, unkept, got, excused, asks>>
  BY DEF Hangs, queue, routines, receiver
<1>2. faults' \in 0..MaxFaults  BY <1>1, BoundAssumption DEF Fault, IInv, TypeOK
<1>3. TypeOK'  BY <1>1, <1>2 DEF IInv, TypeOK
<1>4. KeepsItsSeries' /\ RowsWereEnqueued' /\ GotWasEnqueued'  BY <1>1, Untouched
<1>5. AttemptsAreOfPasses' /\ ArrivedIsGot' /\ OnlyRoutinesRefuse' /\ OneAttempt' /\ KeptIsShown' /\ GotOnce'
  BY <1>1 DEF IInv, AttemptsAreOfPasses, ArrivedIsGot, OnlyRoutinesRefuse, OneAttempt, KeptIsShown, GotOnce,
              HasArrived, At, There
<1> QED  BY <1>3, <1>4, <1>5 DEF IInv

LEMMA StutterKeeps ==
    ASSUME IInv, UNCHANGED vars
    PROVE  IInv'
<1>1. UNCHANGED <<rows, routine, connectors, enqueued, suspended, passing, keyed, stuck, attempts,
                  sessions, trouble, got, excused, unkept, asks, faults>>
  BY DEF vars
<1>2. TypeOK'  BY <1>1 DEF IInv, TypeOK
<1>3. KeepsItsSeries' /\ RowsWereEnqueued' /\ GotWasEnqueued'  BY <1>1, Untouched
<1>4. AttemptsAreOfPasses' /\ ArrivedIsGot' /\ OnlyRoutinesRefuse' /\ OneAttempt' /\ KeptIsShown' /\ GotOnce'
  BY <1>1 DEF IInv, AttemptsAreOfPasses, ArrivedIsGot, OnlyRoutinesRefuse, OneAttempt, KeptIsShown, GotOnce,
              HasArrived, At, There
<1> QED  BY <1>2, <1>3, <1>4 DEF IInv

LEMMA EveryStepKeeps == IInv /\ [Next]_vars => IInv'
<1> SUFFICES ASSUME IInv, [Next]_vars PROVE IInv'
  OBVIOUS
<1>1. CASE \E d \in Delivery : Enqueue(d) \/ Ask(d) \/ RemoveConnector(d)
  BY <1>1, EnqueueKeeps, AskKeeps, RemoveConnectorKeeps
<1>2. CASE \E w \in Worker : PassStarts(w) \/ PassEnds(w) \/ Stops(w) \/ Hangs(w)
  BY <1>2, PassStartsKeeps, PassEndsKeeps, StopsKeeps, HangsKeeps
<1>3. CASE \E w \in Worker, d \in Delivery : Attempts(w, d) \/ Throws(w, d)
  <2>1. PICK w \in Worker, d \in Delivery : Attempts(w, d) \/ Throws(w, d)  BY <1>3
  <2>2. CASE Throws(w, d)  BY <2>2, ThrowsKeeps
  <2>3. CASE Sends(w, d) \/ Arrives(w, d) \/ Refused(w, d) \/ Unanswered(w, d)
    BY <2>3, SendsKeeps, ArrivesKeeps, RefusedKeeps, UnansweredKeeps
  <2>4. CASE KeepSession(w, d) \/ NoteRoutine(w, d) \/ SettleArrived(w, d) \/ SettleFailed(w, d)
    BY <2>4, KeepSessionKeeps, NoteRoutineKeeps, SettleArrivedKeeps, SettleFailedKeeps
  <2> QED  BY <2>1, <2>2, <2>3, <2>4 DEF Attempts
<1>4. CASE Suspend \/ Tick  BY <1>4, SuspendKeeps, TickKeeps
<1>5. CASE UNCHANGED vars  BY <1>5, StutterKeeps
<1> QED  BY <1>1, <1>2, <1>3, <1>4, <1>5 DEF Next

\* The ways out of the table.
LEMMA WaysOut ==
    ASSUME IInv, [Next]_vars, NEW d \in Delivery, There(d), rows'[d] = NoRow
    PROVE  \/ \E w \in Worker : SettleArrived(w, d)
           \/ GivenUp(d) /\ rows[d].age > Kept
           \/ d \notin connectors'
<1>1. CASE \E e \in Delivery : Enqueue(e) \/ Ask(e) \/ RemoveConnector(e)
  <2>1. PICK e \in Delivery : Enqueue(e) \/ Ask(e) \/ RemoveConnector(e)  BY <1>1
  <2>2. CASE Enqueue(e)
    <3>1. PICK row : row = [count |-> 0, next |-> 0, age |-> 0]  OBVIOUS
    <3>2. rows' = [rows EXCEPT ![e] = row]  BY <2>2, <3>1 DEF Enqueue, workers
    <3>3. row \in Row  BY <3>1, WaitsFacts, WaitsAssumption DEF Row, Count
    <3> QED  BY <3>2, <3>3, NullAssumption DEF IInv, TypeOK, There
  <2>3. CASE Ask(e)
    <3>1. PICK row : row = [[rows[e] EXCEPT !.count = 0] EXCEPT !.next = 0]  OBVIOUS
    <3>2. rows' = [rows EXCEPT ![e] = row]  BY <2>3, <3>1 DEF Ask, IInv, TypeOK
    <3>3. rows[e] \in Row  BY <2>3 DEF Ask, There, IInv, TypeOK
    <3>4. row \in Row
      <4>1. 0 \in Count /\ 0 \in Waiting  BY WaitsFacts DEF Count
      <4> QED  BY <3>1, <3>3, <4>1 DEF Row
    <3> QED  BY <3>2, <3>4, NullAssumption DEF IInv, TypeOK, There
  <2>4. CASE RemoveConnector(e)  BY <2>4 DEF RemoveConnector, IInv, TypeOK, There
  <2> QED  BY <2>1, <2>2, <2>3, <2>4
<1>2. CASE \E w \in Worker : PassStarts(w) \/ PassEnds(w) \/ Stops(w) \/ Hangs(w)
  BY <1>2 DEF PassStarts, PassEnds, Stops, Hangs, queue, There
<1>3. CASE \E w \in Worker, e \in Delivery : Attempts(w, e) \/ Throws(w, e)
  <2>1. PICK w \in Worker, e \in Delivery : Attempts(w, e) \/ Throws(w, e)  BY <1>3
  <2>2. CASE rows' = rows  BY <2>2 DEF There
  <2>3. CASE SettleArrived(w, e)  BY <2>3 DEF SettleArrived, IInv, TypeOK, There
  <2>4. CASE SettleFailed(w, e)
    <3>1. PICK row : row = [count |-> rows[e].count + 1, age |-> 0,
                            next |-> NextAfter(rows[e].count, At(w, e, "final"))]
      OBVIOUS
    <3>2. rows' = [rows EXCEPT ![e] = IF There(e) /\ rows[e].count = attempts[w][e].count THEN row ELSE @]
      BY <2>4, <3>1 DEF SettleFailed
    <3>3. ASSUME There(e), rows[e].count = attempts[w][e].count PROVE row \in Row
      <4>1. /\ attempts[w][e] \in Attempt /\ attempts[w][e].count \in Nat
            /\ attempts[w][e].count <= Len(Waits)
        BY <2>4, WaitsFacts DEF SettleFailed, At, IInv, TypeOK, AttemptsAreOfPasses, Attempt, Count
      <4>2. row.count = rows[e].count + 1 /\ row.age = 0
            /\ row.next = NextAfter(rows[e].count, At(w, e, "final"))
            /\ row = [count |-> row.count, next |-> row.next, age |-> row.age]
        BY <3>1
      <4>3. row.count \in Count  BY <4>1, <4>2, <3>3, WaitsFacts DEF Count
      <4>4. row.next \in Waiting \cup {Never}  BY <4>1, <4>2, <3>3, WaitsFacts DEF NextAfter
      <4>5. row.age \in 0..(Kept + 1)  BY <4>2, WaitsAssumption
      <4> QED  BY <4>2, <4>3, <4>4, <4>5 DEF Row
    <3> QED  BY <3>2, <3>3, NullAssumption DEF IInv, TypeOK, There
  <2> QED
    BY <2>1, <2>2, <2>3, <2>4
    DEF Attempts, Sends, Arrives, Refused, Unanswered, KeepSession, NoteRoutine, Throws, queue
<1>4. CASE Suspend  BY <1>4 DEF Suspend, There
<1>5. CASE Tick
  <2>1. rows[d] \in Row  BY DEF There, IInv, TypeOK
  <2> QED  BY <1>5, <2>1, LaterFacts, NullAssumption DEF Tick, There
<1>6. CASE UNCHANGED vars  BY <1>6 DEF vars, There
<1> QED  BY <1>1, <1>2, <1>3, <1>4, <1>5, <1>6 DEF Next

-----------------------------------------------------------------------------
(* Theorems.                                                                 *)

\* The argument above, in every state that can be reached.
THEOREM Invariance == Spec => []IInv
<1>1. Init => IInv  BY StartsRight
<1>2. IInv /\ [Next]_vars => IInv'  BY EveryStepKeeps
<1> QED  BY <1>1, <1>2, PTL DEF Spec

\* Every variable has its type: no count passes the series, and only routines have sessions.
THEOREM TypeCorrect == Spec => []TypeOK
<1>1. IInv => TypeOK  BY DEF IInv
<1> QED  BY <1>1, Invariance, PTL

\* A receiver takes a note twice only after an answer that was lost, a settlement that failed, a
\* worker that stopped or a second worker that attempted it (deliverDue, settleDelivery).
THEOREM ArrivesOnceAlways == Spec => []ArrivesOnce
<1>1. IInv => ArrivesOnce  BY DEF IInv, TypeOK, GotOnce, ArrivesOnce
<1> QED  BY <1>1, Invariance, PTL

\* Neither two workers that settle one delivery nor somebody who asks again meanwhile takes it out
\* of its series (settleDelivery, retryDelivery).
THEOREM KeepsItsSeriesAlways == Spec => []KeepsItsSeries
<1>1. IInv => KeepsItsSeries  BY DEF IInv
<1> QED  BY <1>1, Invariance, PTL

\* A note leaves the table once a receiver has it, once it was given up long enough, or with its
\* connector (settleDelivery, dropAbandonedDeliveries).
THEOREM NothingIsLostEver == Spec => NothingIsLost
<1>1. IInv /\ [Next]_vars =>
        [\A d \in Delivery : There(d) /\ rows'[d] = NoRow =>
            \/ got[d] > 0
            \/ GivenUp(d) /\ rows[d].age > Kept
            \/ d \notin connectors']_vars
  <2> SUFFICES ASSUME IInv, [Next]_vars, NEW d \in Delivery, There(d), rows'[d] = NoRow
               PROVE  got[d] > 0 \/ (GivenUp(d) /\ rows[d].age > Kept) \/ d \notin connectors'
    OBVIOUS
  <2>1. ASSUME NEW w \in Worker, SettleArrived(w, d) PROVE got[d] > 0
    BY <2>1 DEF SettleArrived, Arrived, IInv, ArrivedIsGot, HasArrived
  <2> QED  BY <2>1, WaysOut
<1> QED  BY <1>1, Invariance, PTL DEF Spec, NothingIsLost

\* The call of a routine that started leaves the table once its session is kept, or could not be
\* (keepSession before settleDelivery in deliverDue).
THEOREM RunsAreShownAlways == Spec => RunsAreShown
<1>1. IInv /\ [Next]_vars =>
        [\A d \in routine : There(d) /\ rows'[d] = NoRow /\ d \in connectors' /\ ~GivenUp(d)
            => d \in sessions \cup unkept]_vars
  <2> SUFFICES ASSUME IInv, [Next]_vars, NEW d \in routine, There(d), rows'[d] = NoRow,
                      d \in connectors', ~GivenUp(d)
               PROVE  d \in sessions \cup unkept
    OBVIOUS
  <2>1. d \in Delivery  BY DEF IInv, TypeOK
  <2>2. PICK w \in Worker : SettleArrived(w, d)  BY <2>1, WaysOut
  <2>3. At(w, d, "noted") /\ d \in connectors  BY <2>2 DEF SettleArrived, Arrived
  <2> QED  BY <2>1, <2>3 DEF IInv, KeptIsShown
<1> QED  BY <1>1, Invariance, PTL DEF Spec, RunsAreShown

=============================================================================
