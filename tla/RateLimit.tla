----------------------------- MODULE RateLimit -----------------------------
(***************************************************************************)
(* The sliding window of one caller (apps/worker/src/rate-limit.ts), on the   *)
(* counts that the replicas share (kv-postgres.ts).                          *)
(*                                                                           *)
(* A request reads the clock once, then counts itself in the window of that   *)
(* instant and reads the count of the window before, with two statements in    *)
(* any order.  A request may be slow: it counts in a window that ended.       *)
(***************************************************************************)
EXTENDS Integers, FiniteSets

CONSTANTS Request,   \* requests that may be in flight at once
          Limit,     \* the requests of a minute
          Length,    \* WINDOW_MS
          Most,      \* the most notes of one batch (maxBatch)
          Slowest,   \* how long a request may take to count itself and read
          LastAsk,   \* bound: the last instant at which a request arrives
          MaxCount,  \* bound: the count at which a window takes no more requests
          NoCount, Nothing

ASSUME LimitAssumption == Limit \in Nat \ {0} /\ Most \in Nat \ {0}
ASSUME LengthAssumption == Length \in Nat \ {0}
ASSUME SlowestAssumption == Slowest \in Nat /\ Slowest <= Length
ASSUME AskAssumption == LastAsk \in Nat

VARIABLES now,
          counts,    \* the counter of each window, with its expiry
          requests,  \* what each request asked and knows
          granted,   \* the places that were granted: a batch takes several
          seen,      \* ghost: the windows whose count a later request read
          missed     \* ghost: those of which it did not read every request

vars == <<now, counts, requests, granted, seen, missed>>

Instant == 0..LastAsk

WindowOf(at) == at \div Length
Window == {WindowOf(at) : at \in Instant}

\* Mutant of KeyTtl: as long as its window.
KeyTtlOfAWindow == Length

\* The key of a window lasts two windows, so that the previous count is still there for the
\* whole current window.
KeyTtl == 2 * Length

Count == [count: Nat \ {0}, ends: Nat]

\* A key that was never written.
ASSUME NullAssumption == NoCount \notin Count

Asked == [at: Instant, amount: 1..Most, current: Nat, previous: Nat \cup {Nothing}]

Place == [window: Window, place: 1..Limit, at: Instant]

TypeOK ==
    /\ now \in 0..(LastAsk + Slowest)
    /\ counts \in [Window -> Count \cup {NoCount}]
    /\ requests \in [Request -> Asked \cup {Nothing}]
    /\ granted \subseteq Place
    /\ seen \subseteq Window /\ missed \subseteq Window

Init ==
    /\ now = 0
    /\ counts = [w \in Window |-> NoCount]
    /\ requests = [r \in Request |-> Nothing]
    /\ granted = {} /\ seen = {} /\ missed = {}

Live(w) == counts[w] # NoCount /\ counts[w].ends > now

CountOf(w) == IF w \in Window /\ Live(w) THEN counts[w].count ELSE 0

-----------------------------------------------------------------------------
(* chargeRateLimit.                                                          *)

\* current is 0 until the request is counted, previous is Nothing until it was read.
Arrives(r, amount) ==
    /\ requests[r] = Nothing /\ now <= LastAsk
    /\ CountOf(WindowOf(now)) < MaxCount
    /\ requests' = [requests EXCEPT ![r] =
            [at |-> now, amount |-> amount, current |-> 0, previous |-> Nothing]]
    /\ UNCHANGED <<now, counts, granted, seen, missed>>

\* incr, in the window of the instant of the request.
Incr(r) ==
    /\ requests[r] # Nothing
    /\ requests[r].current = 0
    /\ LET w == WindowOf(requests[r].at)
           total == CountOf(w) + requests[r].amount IN
        /\ counts' = [counts EXCEPT ![w] =
                [count |-> total, ends |-> IF Live(w) THEN counts[w].ends ELSE now + KeyTtl]]
        /\ requests' = [requests EXCEPT ![r].current = total]
        /\ missed' = missed \cup ({w} \cap seen)
    /\ UNCHANGED <<now, granted, seen>>

\* get, of the window before.
Get(r) ==
    /\ requests[r] # Nothing
    /\ requests[r].previous = Nothing
    /\ LET w == WindowOf(requests[r].at) - 1 IN
        /\ requests' = [requests EXCEPT ![r].previous = CountOf(w)]
        /\ seen' = seen \cup ({w} \cap Window)
        /\ missed' = IF w \in Window /\ counts[w] # NoCount /\ ~Live(w) THEN missed \cup {w} ELSE missed
    /\ UNCHANGED <<now, counts, granted>>

\* What is left of the window before, in a minute that ends now.
Overlap(at) == Length - (at % Length)

\* Mutants of Within: the window before is not weighed in, and a batch passes when its first
\* note does.
WithinTheWindow(asked) == asked.current <= Limit

WithinAtItsStart(asked) ==
    asked.previous * Overlap(asked.at) + (asked.current - asked.amount + 1) * Length <= Limit * Length

Within(asked) ==
    asked.previous * Overlap(asked.at) + asked.current * Length <= Limit * Length

Answers(r) ==
    /\ requests[r] # Nothing
    /\ requests[r].current # 0 /\ requests[r].previous # Nothing
    /\ LET asked == requests[r] IN
        granted' = IF Within(asked)
                   THEN granted \cup [window: {WindowOf(asked.at)}, at: {asked.at},
                                      place: (asked.current - asked.amount + 1)..asked.current]
                   ELSE granted
    /\ requests' = [requests EXCEPT ![r] = Nothing]
    /\ UNCHANGED <<now, counts, seen, missed>>

\* KvError: the caller is not served; it may be counted.
Fails(r) ==
    /\ requests[r] # Nothing
    /\ requests' = [requests EXCEPT ![r] = Nothing]
    /\ UNCHANGED <<now, counts, granted, seen, missed>>

Tick ==
    /\ now < LastAsk + Slowest
    /\ \A r \in Request : requests[r] # Nothing => now - requests[r].at < Slowest
    /\ now' = now + 1
    /\ UNCHANGED <<counts, requests, granted, seen, missed>>

Next ==
    \/ \E r \in Request :
        \/ \E amount \in 1..Most : Arrives(r, amount)
        \/ Incr(r) \/ Get(r) \/ Answers(r) \/ Fails(r)
    \/ Tick

Spec == Init /\ [][Next]_vars

-----------------------------------------------------------------------------
(* Properties.                                                               *)

GrantedIn(from, to) == {g \in granted : from <= g.at /\ g.at < to}

\* In any minute a caller gets 2 * Limit - 1 places, and one more only when a request of
\* the second of its two windows did not read all of the first: somebody was counted in it
\* afterwards, or its key ended before a slow request read it.
AMinuteHolds ==
    \A t \in Instant :
        Cardinality(GrantedIn(t, t + Length)) <=
            IF WindowOf(t) \in missed THEN 2 * Limit ELSE 2 * Limit - 1

\* However slow and however interleaved, the batches of one window share its places: two
\* replicas never grant one place twice.
APlaceIsGrantedOnce ==
    \A g, h \in granted : g.window = h.window /\ g.place = h.place => g = h
=============================================================================
