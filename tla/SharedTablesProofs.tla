------------------------- MODULE SharedTablesProofs -------------------------
(***************************************************************************)
(* Proofs about what the replicas of the worker share in tables, and reach    *)
(* with single statements: the counters of RateLimit, the entries of Cache    *)
(* and the notices of DoneNotices, for any replicas, calls, times and limits.  *)
(*                                                                           *)
(* RateLimit: a request is at most Slowest late, so the key of its window is   *)
(* there when it is counted, and the counter of a window only goes up.  The    *)
(* places of a request are those between two values of the counter: no two     *)
(* requests have one in common, before or after they are granted.             *)
(*                                                                           *)
(* Cache: a version outlives the entries and the loads of the page without a   *)
(* version, so what is filed under a version was asked for after that version  *)
(* was said; and an entry is never older than the load that wrote it and its   *)
(* own time.                                                                 *)
(*                                                                           *)
(* DoneNotices: until a claim runs out or its row goes, the row of a notice    *)
(* that a read has is that notice, and no other read has the note.            *)
(***************************************************************************)
EXTENDS RateLimit, Cache, DoneNotices, FiniteSetTheorems, TLAPS

-----------------------------------------------------------------------------
(***************************************************************************)
(* RateLimit                                                                 *)
(***************************************************************************)

Counted(r) == requests[r] # Nothing /\ requests[r].current # 0

Of(r) == WindowOf(requests[r].at)

\* No request is older than the slowest, or of an instant to come.
RequestsAreTimely ==
    \A r \in Request : requests[r] # Nothing =>
        requests[r].at <= now /\ now <= requests[r].at + Slowest

\* "So the previous count is still there for the whole current window."
KeysLast ==
    \A w \in Window : counts[w] # NoCount => counts[w].ends >= (w + 2) * Length

\* What a request counted is in the counter.
RequestsAreCounted ==
    \A r \in Request : Counted(r) =>
        /\ counts[Of(r)] # NoCount
        /\ requests[r].amount <= requests[r].current
        /\ requests[r].current <= counts[Of(r)].count

RequestsAreApart ==
    \A r, q \in Request : r # q /\ Counted(r) /\ Counted(q) /\ Of(r) = Of(q) =>
        \/ requests[r].current <= requests[q].current - requests[q].amount
        \/ requests[q].current <= requests[r].current - requests[r].amount

GrantsAreCounted ==
    \A g \in granted : counts[g.window] # NoCount /\ g.place <= counts[g.window].count

GrantsAreApart ==
    \A g \in granted, r \in Request : Counted(r) /\ Of(r) = g.window =>
        \/ g.place <= requests[r].current - requests[r].amount
        \/ g.place > requests[r].current

GrantsAreOfTheirWindow == \A g \in granted : g.window = WindowOf(g.at)

\* A request that read nothing of the window before saw that nobody was counted in it.
ReadsAreWhole ==
    \A r \in Request :
        requests[r] # Nothing /\ requests[r].previous # Nothing /\ Of(r) - 1 \in Window \ missed =>
            /\ Of(r) - 1 \in seen
            /\ requests[r].previous = 0 => counts[Of(r) - 1] = NoCount

\* Nobody gets the last place of a window when somebody was counted in the one before.
FullWindowsFollowNone ==
    \A g \in granted : g.place = Limit /\ g.window - 1 \in Window \ missed =>
        g.window - 1 \in seen /\ counts[g.window - 1] = NoCount

IInv ==
    /\ TypeOK
    /\ RequestsAreTimely /\ KeysLast
    /\ RequestsAreCounted /\ RequestsAreApart
    /\ GrantsAreCounted /\ GrantsAreApart
    /\ GrantsAreOfTheirWindow
    /\ ReadsAreWhole /\ FullWindowsFollowNone
    /\ APlaceIsGrantedOnce

-----------------------------------------------------------------------------
(* Arithmetic of windows.                                                    *)

LEMMA Division ==
    ASSUME NEW a \in Nat, NEW l \in Nat \ {0}
    PROVE  /\ a \div l \in Nat
           /\ (a \div l) * l <= a
           /\ a < (a \div l) * l + l
           /\ a % l \in Nat
           /\ a % l < l
OBVIOUS

\* An instant is in its window.
LEMMA InItsWindow ==
    ASSUME NEW at \in Instant
    PROVE  /\ WindowOf(at) \in Window
           /\ WindowOf(at) \in Nat
           /\ WindowOf(at) * Length <= at
           /\ at < WindowOf(at) * Length + Length
<1>1. at \in Nat
  BY AskAssumption DEF Instant
<1> QED BY <1>1, Division, LengthAssumption DEF WindowOf, Window

LEMMA WindowsAreNatural == \A w \in Window : w \in Nat
BY InItsWindow DEF Window

LEMMA TwoWindows ==
    ASSUME NEW w \in Nat
    PROVE  /\ (w + 2) * Length = w * Length + Length + Length
           /\ (w + 2) * Length \in Nat /\ w * Length \in Nat
BY LengthAssumption

\* A request that passes has all its places within the limit.
LEMMA WithinTheLimit ==
    ASSUME NEW request \in Asked, request.previous \in Nat, Within(request)
    PROVE  request.current <= Limit
<1> DEFINE p == request.previous  o == Overlap(request.at)  c == request.current
<1>1. request.at \in Nat /\ c \in Nat /\ p \in Nat
  BY AskAssumption DEF Asked, Instant
<1>2. o \in Nat
  BY <1>1, Division, LengthAssumption DEF Overlap
<1>3. p * o + c * Length <= Limit * Length
  BY DEF Within
<1> HIDE DEF p, o, c
<1>4. p * o >= 0
  BY <1>1, <1>2
<1>5. c * Length <= Limit * Length
  BY <1>1, <1>2, <1>3, <1>4, LimitAssumption, LengthAssumption
<1>6. c <= Limit
  BY <1>1, <1>5, LimitAssumption, LengthAssumption
<1> QED BY <1>6 DEF c

\* The last place of a window is for who read nothing of the window before.
LEMMA TheLastPlace ==
    ASSUME NEW request \in Asked, request.previous \in Nat, Within(request), request.current = Limit
    PROVE  request.previous = 0
<1> DEFINE p == request.previous  o == Overlap(request.at)
<1>1. request.at \in Nat /\ p \in Nat
  BY AskAssumption DEF Asked, Instant
<1>2. o \in Nat \ {0}
  BY <1>1, Division, LengthAssumption DEF Overlap
<1>3. p * o + Limit * Length <= Limit * Length
  BY DEF Within
<1> HIDE DEF p, o
<1>4. p * o \in Nat /\ Limit * Length \in Nat
  BY <1>1, <1>2, LimitAssumption, LengthAssumption
<1>5. p * o = 0
  BY <1>3, <1>4
<1>6. p = 0
  BY <1>1, <1>2, <1>5
<1> QED BY <1>6 DEF p

LEMMA CountsAreNatural ==
    ASSUME TypeOK, NEW w \in Int
    PROVE  CountOf(w) \in Nat
BY DEF TypeOK, CountOf, Live, Count

-----------------------------------------------------------------------------
(* incr.                                                                     *)

\* The key of a window that was ever counted is there as long as one of its requests is.
LEMMA KeysAreThere ==
    ASSUME IInv, NEW r \in Request, requests[r] # Nothing, counts[Of(r)] # NoCount
    PROVE  Live(Of(r)) /\ CountOf(Of(r)) = counts[Of(r)].count
<1> DEFINE w == Of(r)
<1>1. requests[r].at \in Instant /\ requests[r].at \in Nat
  BY AskAssumption DEF IInv, TypeOK, Asked, Instant
<1>2. w \in Window /\ w \in Nat /\ requests[r].at < w * Length + Length
  BY <1>1, InItsWindow DEF Of
<1>3. now \in Nat /\ now <= requests[r].at + Slowest
  BY AskAssumption, SlowestAssumption DEF IInv, TypeOK, RequestsAreTimely
<1>4. counts[w].ends \in Nat /\ counts[w].ends >= (w + 2) * Length
  BY <1>2 DEF IInv, TypeOK, KeysLast, Count
<1>5. (w + 2) * Length = w * Length + Length + Length /\ w * Length \in Nat
  BY <1>2, TwoWindows
<1> HIDE DEF w
<1>6. now < (w + 2) * Length
  BY <1>1, <1>2, <1>3, <1>5, SlowestAssumption, LengthAssumption
<1>7. counts[w].ends > now
  BY <1>2, <1>3, <1>4, <1>5, <1>6, LengthAssumption
<1> QED BY <1>2, <1>7 DEF w, Live, CountOf

\* What an increment writes, and what it knows of the window it counts in.
LEMMA IncrFacts ==
    ASSUME IInv, NEW r \in Request, Incr(r),
           NEW w, w = Of(r), NEW total, total = CountOf(w) + requests[r].amount
    PROVE  /\ w \in Window /\ total \in Nat \ {0}
           /\ requests[r] \in Asked /\ requests[r].amount \in Nat \ {0}
           /\ requests[r].current = 0
           /\ requests[r].amount <= total
           /\ counts' = [counts EXCEPT ![w] =
                [count |-> total, ends |-> IF Live(w) THEN counts[w].ends ELSE now + KeyTtl]]
           /\ requests' = [requests EXCEPT ![r].current = total]
           /\ counts[w] # NoCount => counts[w].count = total - requests[r].amount
<1>1. requests[r] \in Asked /\ requests[r] # Nothing /\ requests[r].current = 0
  BY DEF IInv, TypeOK, Incr
<1>2. w \in Window
  BY <1>1, InItsWindow DEF Of, Asked
<1>3. requests[r].amount \in Nat \ {0}
  BY <1>1, LimitAssumption DEF Asked
<1>4. CountOf(w) \in Nat
  BY <1>2, CountsAreNatural, WindowsAreNatural DEF IInv
<1>5. counts[w] # NoCount => CountOf(w) = counts[w].count
  BY <1>1, KeysAreThere
<1>6. /\ counts' = [counts EXCEPT ![w] =
                [count |-> total, ends |-> IF Live(w) THEN counts[w].ends ELSE now + KeyTtl]]
      /\ requests' = [requests EXCEPT ![r].current = total]
  BY DEF Incr, Of
<1> QED BY <1>1, <1>2, <1>3, <1>4, <1>5, <1>6

LEMMA IncrKeeps ==
    ASSUME IInv, NEW r \in Request, Incr(r)
    PROVE  IInv'
<1> DEFINE w == Of(r)
           total == CountOf(w) + requests[r].amount
           row == [count |-> total, ends |-> IF Live(w) THEN counts[w].ends ELSE now + KeyTtl]
<1>1. /\ w \in Window /\ total \in Nat \ {0}
      /\ requests[r] \in Asked /\ requests[r].amount \in Nat \ {0}
      /\ requests[r].current = 0
      /\ requests[r].amount <= total
      /\ counts' = [counts EXCEPT ![w] = row]
      /\ requests' = [requests EXCEPT ![r].current = total]
      /\ counts[w] # NoCount => counts[w].count = total - requests[r].amount
  BY IncrFacts
<1>2. /\ now' = now /\ granted' = granted /\ seen' = seen
      /\ missed' = missed \cup ({w} \cap seen)
      /\ requests[r] # Nothing
  BY DEF Incr, Of
<1>3. now \in Nat
  BY AskAssumption, SlowestAssumption DEF IInv, TypeOK
<1>4. row \in Count
  <2>1. CASE Live(w)
    BY <1>1, <2>1 DEF IInv, TypeOK, Live, Count
  <2>2. CASE ~Live(w)
    BY <1>1, <1>3, <2>2, LengthAssumption DEF KeyTtl, Count
  <2> QED BY <2>1, <2>2
<1>5. row.ends >= (w + 2) * Length
  <2>1. CASE Live(w)
    BY <1>1, <2>1 DEF IInv, KeysLast, Live
  <2>2. CASE ~Live(w)
    <3>1. requests[r].at \in Instant /\ requests[r].at \in Nat /\ requests[r].at <= now
      BY <1>1, <1>2, AskAssumption DEF IInv, RequestsAreTimely, Asked, Instant
    <3>2. w \in Nat /\ w * Length <= requests[r].at
      BY <3>1, InItsWindow DEF Of
    <3>3. (w + 2) * Length = w * Length + Length + Length /\ w * Length \in Nat
      BY <3>2, TwoWindows
    <3>4. row.ends = now + 2 * Length
      BY <2>2 DEF KeyTtl
    <3> HIDE DEF w, row
    <3> QED BY <1>3, <3>1, <3>2, <3>3, <3>4, LengthAssumption
  <2> QED BY <2>1, <2>2
<1> DEFINE request == [requests[r] EXCEPT !.current = total]
<1>6. request \in Asked /\ request.at = requests[r].at /\ request.amount = requests[r].amount
        /\ request.current = total /\ request.previous = requests[r].previous
  BY <1>1 DEF Asked
<1>7. /\ row.count = total /\ counts'[w] = row /\ counts'[w] # NoCount
      /\ \A v \in Window \ {w} : counts'[v] = counts[v]
  BY <1>1, <1>4, NullAssumption DEF IInv, TypeOK
<1>8. requests'[r] = request /\ \A q \in Request \ {r} : requests'[q] = requests[q]
  BY <1>1 DEF IInv, TypeOK
<1>9. Of(r)' = w /\ \A q \in Request \ {r} : Of(q)' = Of(q) /\ (Counted(q)' <=> Counted(q))
  BY <1>6, <1>8 DEF Of, Counted
<1>10. \A q \in Request : Counted(q) => requests[q] \in Asked /\ Of(q) \in Window
                               /\ requests[q].current \in Nat /\ requests[q].amount \in Nat
  BY InItsWindow, LimitAssumption DEF IInv, TypeOK, Counted, Of, Asked
<1>11. \A g \in granted : g.window \in Window /\ g.place \in Nat
  BY LimitAssumption DEF IInv, TypeOK, Place
<1>12. \A q \in Request : Counted(q) /\ Of(q) = w =>
          counts[w] # NoCount /\ requests[q].current <= total - requests[r].amount
  BY <1>1 DEF IInv, RequestsAreCounted
<1>13. \A g \in granted : g.window = w =>
          counts[w] # NoCount /\ g.place <= total - requests[r].amount
  BY <1>1 DEF IInv, GrantsAreCounted
<1>w. Of(r) = w
  OBVIOUS
<1> HIDE DEF w, total, row, request
<1>a. TypeOK'
  <2>1. counts' \in [Window -> Count \cup {NoCount}]
    BY <1>1, <1>4 DEF IInv, TypeOK
  <2>2. requests' \in [Request -> Asked \cup {Nothing}]
    <3>1. requests' = [requests EXCEPT ![r] = request]
      BY <1>1 DEF request
    <3> QED BY <1>6, <3>1 DEF IInv, TypeOK
  <2> QED BY <1>1, <1>2, <2>1, <2>2 DEF IInv, TypeOK
<1>b. RequestsAreTimely'
  BY <1>2, <1>6, <1>8 DEF IInv, RequestsAreTimely
<1>c. KeysLast'
  BY <1>5, <1>7 DEF IInv, KeysLast
<1>d. RequestsAreCounted'
  <2> SUFFICES ASSUME NEW q \in Request, Counted(q)'
               PROVE  /\ counts'[Of(q)'] # NoCount
                      /\ requests'[q].amount <= requests'[q].current
                      /\ requests'[q].current <= counts'[Of(q)'].count
    BY DEF RequestsAreCounted
  <2>1. CASE q = r
    BY <1>1, <1>6, <1>7, <1>8, <1>9, <2>1
  <2>2. CASE q # r /\ Of(q) = w
    BY <1>1, <1>7, <1>8, <1>9, <1>10, <1>12, <2>2 DEF IInv, RequestsAreCounted
  <2>3. CASE q # r /\ Of(q) # w
    BY <1>7, <1>8, <1>9, <1>10, <2>3 DEF IInv, RequestsAreCounted
  <2> QED BY <2>1, <2>2, <2>3
<1>e. RequestsAreApart'
  <2> SUFFICES ASSUME NEW p \in Request, NEW q \in Request,
                      p # q, Counted(p)', Counted(q)', Of(p)' = Of(q)'
               PROVE  \/ requests'[p].current <= requests'[q].current - requests'[q].amount
                      \/ requests'[q].current <= requests'[p].current - requests'[p].amount
    BY DEF RequestsAreApart
  <2>1. CASE p = r
    BY <1>6, <1>8, <1>9, <1>12, <2>1
  <2>2. CASE q = r
    BY <1>6, <1>8, <1>9, <1>12, <2>2
  <2>3. CASE p # r /\ q # r
    BY <1>8, <1>9, <2>3 DEF IInv, RequestsAreApart
  <2> QED BY <2>1, <2>2, <2>3
<1>f. GrantsAreCounted'
  <2> SUFFICES ASSUME NEW g \in granted
               PROVE  counts'[g.window] # NoCount /\ g.place <= counts'[g.window].count
    BY <1>2 DEF GrantsAreCounted
  <2>1. CASE g.window = w
    BY <1>1, <1>7, <1>11, <1>13, <2>1
  <2>2. CASE g.window # w
    BY <1>7, <1>11, <2>2 DEF IInv, GrantsAreCounted
  <2> QED BY <2>1, <2>2
<1>g. GrantsAreApart'
  <2> SUFFICES ASSUME NEW g \in granted, NEW q \in Request, Counted(q)', Of(q)' = g.window
               PROVE  \/ g.place <= requests'[q].current - requests'[q].amount
                      \/ g.place > requests'[q].current
    BY <1>2 DEF GrantsAreApart
  <2>1. CASE q = r
    BY <1>6, <1>8, <1>9, <1>13, <2>1
  <2>2. CASE q # r
    BY <1>8, <1>9, <2>2 DEF IInv, GrantsAreApart
  <2> QED BY <2>1, <2>2
<1>h. GrantsAreOfTheirWindow'
  BY <1>2 DEF IInv, GrantsAreOfTheirWindow
<1>14. \A v \in Window : v \in seen /\ v \notin missed' => counts'[v] = counts[v]
  BY <1>2, <1>7
<1>i. ReadsAreWhole'
  <2> SUFFICES ASSUME NEW q \in Request,
                      requests'[q] # Nothing, requests'[q].previous # Nothing,
                      Of(q)' - 1 \in Window \ missed'
               PROVE  /\ Of(q)' - 1 \in seen
                      /\ requests'[q].previous = 0 => counts'[Of(q)' - 1] = NoCount
    BY <1>2 DEF ReadsAreWhole
  <2>1. /\ requests[q] # Nothing /\ requests'[q].previous = requests[q].previous
        /\ Of(q)' = Of(q)
    BY <1>2, <1>6, <1>8, <1>9, <1>w
  <2>2. Of(q) - 1 \in Window \ missed
    BY <1>2, <2>1
  <2>3. Of(q) - 1 \in seen /\ (requests[q].previous = 0 => counts[Of(q) - 1] = NoCount)
    BY <2>1, <2>2 DEF IInv, ReadsAreWhole
  <2> QED BY <1>14, <2>1, <2>2, <2>3
<1>j. FullWindowsFollowNone'
  <2> SUFFICES ASSUME NEW g \in granted, g.place = Limit, g.window - 1 \in Window \ missed'
               PROVE  g.window - 1 \in seen /\ counts'[g.window - 1] = NoCount
    BY <1>2 DEF FullWindowsFollowNone
  <2> QED BY <1>2, <1>14 DEF IInv, FullWindowsFollowNone
<1>k. APlaceIsGrantedOnce'
  BY <1>2 DEF IInv, APlaceIsGrantedOnce
<1> QED BY <1>a, <1>b, <1>c, <1>d, <1>e, <1>f, <1>g, <1>h, <1>i, <1>j, <1>k DEF IInv

-----------------------------------------------------------------------------
(* The other steps.                                                          *)

\* A step that counts nothing and grants nothing, and changes one request to what it was
\* or to one that is not counted yet, keeps most of the invariant.
LEMMA ArrivesKeeps ==
    ASSUME IInv, NEW r \in Request, NEW amount \in 1..Most, Arrives(r, amount)
    PROVE  IInv'
<1> DEFINE request == [at |-> now, amount |-> amount, current |-> 0, previous |-> Nothing]
<1>1. /\ UNCHANGED <<now, counts, granted, seen, missed>>
      /\ requests' = [requests EXCEPT ![r] = request]
      /\ requests[r] = Nothing
      /\ now <= LastAsk
  BY DEF Arrives
<1>2. now \in Nat /\ now \in Instant
  BY <1>1, AskAssumption, SlowestAssumption DEF IInv, TypeOK, Instant
<1>3. /\ request \in Asked /\ request.at = now /\ request.current = 0 /\ request.previous = Nothing
  BY <1>2 DEF Asked
<1>4. requests'[r] = request /\ \A q \in Request \ {r} : requests'[q] = requests[q]
  BY <1>1 DEF IInv, TypeOK
<1> HIDE DEF request
<1>5. ~Counted(r)' /\ \A q \in Request \ {r} : (Counted(q)' <=> Counted(q)) /\ Of(q)' = Of(q)
  BY <1>3, <1>4 DEF Counted, Of
<1>a. TypeOK'
  BY <1>1, <1>3 DEF IInv, TypeOK
<1>b. RequestsAreTimely'
  BY <1>1, <1>2, <1>3, <1>4, SlowestAssumption DEF IInv, RequestsAreTimely
<1>c. KeysLast' /\ GrantsAreCounted' /\ GrantsAreOfTheirWindow' /\ APlaceIsGrantedOnce'
  BY <1>1 DEF IInv, KeysLast, GrantsAreCounted, GrantsAreOfTheirWindow, APlaceIsGrantedOnce
<1>d. RequestsAreCounted'
  BY <1>1, <1>4, <1>5 DEF IInv, RequestsAreCounted
<1>e. RequestsAreApart'
  BY <1>4, <1>5 DEF IInv, RequestsAreApart
<1>f. GrantsAreApart'
  BY <1>1, <1>4, <1>5 DEF IInv, GrantsAreApart
<1>g. ReadsAreWhole'
  BY <1>1, <1>3, <1>4, <1>5 DEF IInv, ReadsAreWhole
<1>h. FullWindowsFollowNone'
  BY <1>1 DEF IInv, FullWindowsFollowNone
<1> QED BY <1>a, <1>b, <1>c, <1>d, <1>e, <1>f, <1>g, <1>h DEF IInv

LEMMA GetKeeps ==
    ASSUME IInv, NEW r \in Request, Get(r)
    PROVE  IInv'
<1> DEFINE w == Of(r) - 1
           request == [requests[r] EXCEPT !.previous = CountOf(w)]
<1>1. /\ UNCHANGED <<now, counts, granted>>
      /\ requests' = [requests EXCEPT ![r].previous = CountOf(w)]
      /\ requests[r] \in Asked /\ requests[r] # Nothing
      /\ seen' = seen \cup ({w} \cap Window)
      /\ missed' = IF w \in Window /\ counts[w] # NoCount /\ ~Live(w) THEN missed \cup {w} ELSE missed
  BY DEF Get, Of, IInv, TypeOK
<1>2. Of(r) \in Nat /\ CountOf(w) \in Nat
  BY <1>1, InItsWindow, CountsAreNatural DEF IInv, Of, Asked
<1>3. /\ request \in Asked /\ request.at = requests[r].at /\ request.amount = requests[r].amount
      /\ request.current = requests[r].current /\ request.previous = CountOf(w)
  BY <1>1, <1>2 DEF Asked
<1>4. requests' = [requests EXCEPT ![r] = request]
  BY <1>1
<1>5. requests'[r] = request /\ \A q \in Request \ {r} : requests'[q] = requests[q]
  BY <1>4 DEF IInv, TypeOK
<1>6. w \in Window /\ w \notin missed' /\ CountOf(w) = 0 => counts[w] = NoCount
  BY <1>1 DEF IInv, TypeOK, CountOf, Count
<1>w. Of(r) - 1 = w
  OBVIOUS
<1> HIDE DEF w, request
<1>7. \A q \in Request : /\ Counted(q)' => Counted(q)
                         /\ Of(q)' = Of(q)
                         /\ requests'[q] # Nothing => requests[q] # Nothing
                         /\ requests[q] # Nothing =>
                                /\ requests'[q].at = requests[q].at
                                /\ requests'[q].amount = requests[q].amount
                                /\ requests'[q].current = requests[q].current
  BY <1>1, <1>3, <1>5 DEF Counted, Of
<1>8. \A q \in Request : Counted(q) => requests[q] # Nothing
  BY DEF Counted
<1>a. TypeOK'
  BY <1>1, <1>3, <1>4 DEF IInv, TypeOK
<1>b. RequestsAreTimely'
  BY <1>1, <1>7 DEF IInv, RequestsAreTimely
<1>c. KeysLast' /\ GrantsAreCounted' /\ GrantsAreOfTheirWindow' /\ APlaceIsGrantedOnce'
  BY <1>1 DEF IInv, KeysLast, GrantsAreCounted, GrantsAreOfTheirWindow, APlaceIsGrantedOnce
<1>d. RequestsAreCounted'
  BY <1>1, <1>7, <1>8 DEF IInv, RequestsAreCounted
<1>e. RequestsAreApart'
  BY <1>7, <1>8 DEF IInv, RequestsAreApart
<1>f. GrantsAreApart'
  BY <1>1, <1>7, <1>8 DEF IInv, GrantsAreApart
<1>g. ReadsAreWhole'
  <2> SUFFICES ASSUME NEW q \in Request,
                      requests'[q] # Nothing, requests'[q].previous # Nothing,
                      Of(q)' - 1 \in Window \ missed'
               PROVE  /\ Of(q)' - 1 \in seen'
                      /\ requests'[q].previous = 0 => counts'[Of(q)' - 1] = NoCount
    BY DEF ReadsAreWhole
  <2>1. CASE q = r
    BY <1>1, <1>3, <1>5, <1>6, <1>7, <1>w, <2>1
  <2>2. CASE q # r
    BY <1>1, <1>5, <1>7, <2>2 DEF IInv, ReadsAreWhole
  <2> QED BY <2>1, <2>2
<1>h. FullWindowsFollowNone'
  BY <1>1 DEF IInv, FullWindowsFollowNone
<1> QED BY <1>a, <1>b, <1>c, <1>d, <1>e, <1>f, <1>g, <1>h DEF IInv

\* A request that ends: what it granted is the business of Answers.
LEMMA EndsKeeps ==
    ASSUME IInv, NEW r \in Request,
           requests' = [requests EXCEPT ![r] = Nothing],
           UNCHANGED <<now, counts, seen, missed>>
    PROVE  /\ RequestsAreTimely' /\ KeysLast' /\ RequestsAreCounted' /\ RequestsAreApart'
           /\ ReadsAreWhole'
           /\ requests' \in [Request -> Asked \cup {Nothing}]
           /\ \A q \in Request : Counted(q)' =>
                q # r /\ Counted(q) /\ requests'[q] = requests[q] /\ Of(q)' = Of(q)
<1>1. requests'[r] = Nothing /\ \A q \in Request \ {r} : requests'[q] = requests[q]
  BY DEF IInv, TypeOK
<1>2. \A q \in Request : requests'[q] # Nothing => q # r
  BY <1>1
<1>3. \A q \in Request : Counted(q)' =>
                q # r /\ Counted(q) /\ requests'[q] = requests[q] /\ Of(q)' = Of(q)
  BY <1>1 DEF Counted, Of
<1>4. \A q \in Request \ {r} : Of(q)' = Of(q)
  BY <1>1 DEF Of
<1>5. RequestsAreTimely' /\ KeysLast'
  BY <1>1, <1>2 DEF IInv, RequestsAreTimely, KeysLast
<1>6. RequestsAreCounted'
  BY <1>3 DEF IInv, RequestsAreCounted
<1>7. RequestsAreApart'
  BY <1>3 DEF IInv, RequestsAreApart
<1>8. ReadsAreWhole'
  BY <1>1, <1>2, <1>4 DEF IInv, ReadsAreWhole
<1>9. requests' \in [Request -> Asked \cup {Nothing}]
  BY DEF IInv, TypeOK
<1> QED BY <1>3, <1>5, <1>6, <1>7, <1>8, <1>9

LEMMA FailsKeeps ==
    ASSUME IInv, NEW r \in Request, requests' = [requests EXCEPT ![r] = Nothing],
           UNCHANGED <<now, counts, granted, seen, missed>>
    PROVE  IInv'
<1>1. TypeOK'
  BY EndsKeeps DEF IInv, TypeOK
<1>2. GrantsAreCounted' /\ GrantsAreOfTheirWindow' /\ FullWindowsFollowNone' /\ APlaceIsGrantedOnce'
  BY DEF IInv, GrantsAreCounted, GrantsAreOfTheirWindow, FullWindowsFollowNone, APlaceIsGrantedOnce
<1>3. GrantsAreApart'
  BY EndsKeeps DEF IInv, GrantsAreApart
<1> QED BY <1>1, <1>2, <1>3, EndsKeeps DEF IInv

LEMMA AnswersKeeps ==
    ASSUME IInv, NEW r \in Request, Answers(r)
    PROVE  IInv'
<1> DEFINE request == requests[r]
           places == (request.current - request.amount + 1)..request.current
           new == [window: {Of(r)}, at: {request.at}, place: places]
<1>1. /\ requests' = [requests EXCEPT ![r] = Nothing]
      /\ UNCHANGED <<now, counts, seen, missed>>
      /\ Counted(r) /\ request # Nothing /\ request.previous # Nothing /\ request.current # 0
      /\ granted' = IF Within(request) THEN granted \cup new ELSE granted
  BY DEF Answers, Counted, Of
<1>2. CASE ~Within(request)
  BY <1>1, <1>2, FailsKeeps
<1>3. CASE Within(request)
  <2>1. /\ request \in Asked /\ request.previous \in Nat /\ request.current \in Nat
        /\ request.amount \in Nat \ {0}
    BY <1>1, LimitAssumption DEF IInv, TypeOK, Asked
  <2>2. /\ counts[Of(r)] # NoCount /\ request.amount <= request.current
        /\ request.current <= counts[Of(r)].count
    BY <1>1 DEF IInv, RequestsAreCounted
  <2>3. request.current <= Limit
    BY <1>3, <2>1, WithinTheLimit
  <2>4. request.current = Limit => request.previous = 0
    BY <1>3, <2>1, TheLastPlace
  <2>5. request.at \in Instant /\ Of(r) \in Window /\ Of(r) = WindowOf(request.at)
    BY <2>1, InItsWindow DEF Asked, Of
  <2>6. \A g \in new : /\ g = [window |-> Of(r), at |-> request.at, place |-> g.place]
                       /\ g.window = Of(r) /\ g.at = request.at
                       /\ g.place \in Nat \ {0} /\ g.place <= request.current
                       /\ g.place > request.current - request.amount
    BY <2>1, <2>2
  <2>7. new \subseteq Place
    <3> SUFFICES ASSUME NEW g \in new PROVE g \in Place
      OBVIOUS
    <3>1. g.place \in 1..Limit
      BY <2>1, <2>3, <2>6, LimitAssumption
    <3> QED BY <2>5, <2>6, <3>1 DEF Place
  <2>8. granted' = granted \cup new
    BY <1>1, <1>3
  <2>9. \A g \in granted : g.window \in Window /\ g.place \in Nat
    BY LimitAssumption DEF IInv, TypeOK, Place
  <2>10. \A q \in Request : Counted(q)' =>
                q # r /\ Counted(q) /\ requests'[q] = requests[q] /\ Of(q)' = Of(q)
    BY <1>1, EndsKeeps
  <2>11. \A q \in Request : Counted(q) => requests[q].current \in Nat /\ requests[q].amount \in Nat
    BY LimitAssumption DEF IInv, TypeOK, Counted, Asked
  <2> HIDE DEF new
  <2>a. TypeOK'
    BY <1>1, <2>7, <2>8, EndsKeeps DEF IInv, TypeOK
  <2>b. GrantsAreCounted'
    <3> SUFFICES ASSUME NEW g \in granted \cup new
                 PROVE  counts[g.window] # NoCount /\ g.place <= counts[g.window].count
      BY <1>1, <2>8 DEF GrantsAreCounted
    <3>1. CASE g \in granted
      BY <3>1 DEF IInv, GrantsAreCounted
    <3>2. CASE g \in new
      <4>1. counts[Of(r)].count \in Nat
        BY <2>2, <2>5 DEF IInv, TypeOK, Count
      <4> QED BY <2>1, <2>2, <2>6, <3>2, <4>1
    <3> QED BY <3>1, <3>2
  <2>c. GrantsAreApart'
    <3> SUFFICES ASSUME NEW g \in granted \cup new, NEW q \in Request, Counted(q)', Of(q)' = g.window
                 PROVE  \/ g.place <= requests'[q].current - requests'[q].amount
                        \/ g.place > requests'[q].current
      BY <2>8 DEF GrantsAreApart
    <3>1. q # r /\ Counted(q) /\ requests'[q] = requests[q] /\ Of(q) = g.window
      BY <2>10
    <3>2. CASE g \in granted
      BY <3>1, <3>2 DEF IInv, GrantsAreApart
    <3>3. CASE g \in new
      <4>1. \/ requests[q].current <= request.current - request.amount
            \/ request.current <= requests[q].current - requests[q].amount
        BY <1>1, <2>6, <3>1, <3>3 DEF IInv, RequestsAreApart
      <4>2. requests[q].current \in Nat /\ requests[q].amount \in Nat
        BY <2>11, <3>1
      <4> QED BY <2>1, <2>6, <3>1, <3>3, <4>1, <4>2
    <3> QED BY <3>2, <3>3
  <2>d. GrantsAreOfTheirWindow'
    BY <2>5, <2>6, <2>8 DEF IInv, GrantsAreOfTheirWindow
  <2>e. FullWindowsFollowNone'
    <3> SUFFICES ASSUME NEW g \in granted \cup new, g.place = Limit, g.window - 1 \in Window \ missed
                 PROVE  g.window - 1 \in seen /\ counts[g.window - 1] = NoCount
      BY <1>1, <2>8 DEF FullWindowsFollowNone
    <3>1. CASE g \in granted
      BY <3>1 DEF IInv, FullWindowsFollowNone
    <3>2. CASE g \in new
      <4>1. request.current = Limit
        BY <2>1, <2>3, <2>6, <3>2, LimitAssumption
      <4>2. request.previous = 0
        BY <2>4, <4>1
      <4> QED BY <1>1, <2>6, <3>2, <4>2 DEF IInv, ReadsAreWhole
    <3> QED BY <3>1, <3>2
  <2>f. APlaceIsGrantedOnce'
    <3> SUFFICES ASSUME NEW g \in granted \cup new, NEW h \in granted \cup new,
                        g.window = h.window, g.place = h.place
                 PROVE  g = h
      BY <2>8 DEF APlaceIsGrantedOnce
    <3>1. \A a \in granted, b \in new : a.window = b.window => a.place # b.place
      <4> SUFFICES ASSUME NEW a \in granted, NEW b \in new, a.window = b.window
                   PROVE  a.place # b.place
        OBVIOUS
      <4>1. \/ a.place <= request.current - request.amount
            \/ a.place > request.current
        BY <1>1, <2>6 DEF IInv, GrantsAreApart
      <4> QED BY <2>1, <2>6, <2>9, <4>1
    <3>2. CASE g \in granted /\ h \in granted
      BY <3>2 DEF IInv, APlaceIsGrantedOnce
    <3>3. CASE g \in new /\ h \in new
      BY <2>6, <3>3
    <3> QED BY <3>1, <3>2, <3>3
  <2> QED BY <1>1, <2>a, <2>b, <2>c, <2>d, <2>e, <2>f, EndsKeeps DEF IInv
<1> QED BY <1>2, <1>3

LEMMA TickKeeps ==
    ASSUME IInv, Tick
    PROVE  IInv'
<1>1. /\ UNCHANGED <<counts, requests, granted, seen, missed>>
      /\ now' = now + 1 /\ now < LastAsk + Slowest
      /\ \A r \in Request : requests[r] # Nothing => now - requests[r].at < Slowest
  BY DEF Tick
<1>2. now \in Nat /\ \A r \in Request : requests[r] # Nothing => requests[r].at \in Nat
  BY AskAssumption, SlowestAssumption DEF IInv, TypeOK, Asked, Instant
<1>3. now' \in 0..(LastAsk + Slowest)
  BY <1>1, <1>2, AskAssumption, SlowestAssumption
<1>a. TypeOK'
  BY <1>1, <1>3 DEF IInv, TypeOK
<1>b. RequestsAreTimely'
  BY <1>1, <1>2, SlowestAssumption DEF IInv, RequestsAreTimely
<1>c. KeysLast' /\ GrantsAreCounted' /\ GrantsAreOfTheirWindow' /\ APlaceIsGrantedOnce' /\ FullWindowsFollowNone'
  BY <1>1 DEF IInv, KeysLast, GrantsAreCounted, GrantsAreOfTheirWindow, APlaceIsGrantedOnce, FullWindowsFollowNone
<1>d. RequestsAreCounted' /\ RequestsAreApart' /\ GrantsAreApart' /\ ReadsAreWhole'
  BY <1>1 DEF IInv, RequestsAreCounted, RequestsAreApart, GrantsAreApart, ReadsAreWhole, Counted, Of
<1> QED BY <1>a, <1>b, <1>c, <1>d DEF IInv

-----------------------------------------------------------------------------
(* The theorems.                                                             *)

LEMMA Starts == Init => IInv
<1> SUFFICES ASSUME Init PROVE IInv
  OBVIOUS
<1>1. TypeOK
  BY AskAssumption, SlowestAssumption DEF Init, TypeOK
<1>2. \A r \in Request : requests[r] = Nothing
  BY DEF Init
<1>3. granted = {} /\ \A w \in Window : counts[w] = NoCount
  BY DEF Init
<1> QED BY <1>1, <1>2, <1>3
        DEF IInv, RequestsAreTimely, KeysLast, RequestsAreCounted, RequestsAreApart, GrantsAreCounted,
            GrantsAreApart, GrantsAreOfTheirWindow, ReadsAreWhole, FullWindowsFollowNone,
            APlaceIsGrantedOnce, Counted

LEMMA InvariantStep == IInv /\ [Next]_vars => IInv'
<1> SUFFICES ASSUME IInv, [Next]_vars PROVE IInv'
  OBVIOUS
<1>1. CASE UNCHANGED vars
  BY <1>1 DEF vars, IInv, TypeOK, RequestsAreTimely, KeysLast, RequestsAreCounted, RequestsAreApart,
              GrantsAreCounted, GrantsAreApart, GrantsAreOfTheirWindow, ReadsAreWhole,
              FullWindowsFollowNone, APlaceIsGrantedOnce, Counted, Of
<1>2. ASSUME NEW r \in Request, NEW amount \in 1..Most, Arrives(r, amount)
      PROVE  IInv'
  BY <1>2, ArrivesKeeps
<1>3. ASSUME NEW r \in Request, Incr(r)
      PROVE  IInv'
  BY <1>3, IncrKeeps
<1>4. ASSUME NEW r \in Request, Get(r)
      PROVE  IInv'
  BY <1>4, GetKeeps
<1>5. ASSUME NEW r \in Request, Answers(r)
      PROVE  IInv'
  BY <1>5, AnswersKeeps
<1>6. ASSUME NEW r \in Request, Fails(r)
      PROVE  IInv'
  BY <1>6, FailsKeeps DEF Fails
<1>7. CASE Tick
  BY <1>7, TickKeeps
<1> QED BY <1>1, <1>2, <1>3, <1>4, <1>5, <1>6, <1>7 DEF Next

LEMMA Invariance == Spec => []IInv
<1> QED BY Starts, InvariantStep, PTL DEF Spec

\* Counters, requests and places are of their kinds: no place is beyond the limit.
THEOREM TypeCorrect == Spec => []TypeOK
<1>1. IInv => TypeOK
  BY DEF IInv
<1> QED BY <1>1, Invariance, PTL

\* However many replicas and requests at once, and however slow: the requests that are
\* granted in one window have a place each, within the limit.
THEOREM PlacesAreGrantedOnce == Spec => []APlaceIsGrantedOnce
<1>1. IInv => APlaceIsGrantedOnce
  BY DEF IInv
<1> QED BY <1>1, Invariance, PTL

-----------------------------------------------------------------------------
(* What a minute holds.                                                      *)

\* Grants of one window with different places are as many as places at most.
LEMMA FewerThanPlaces ==
    ASSUME NEW S, NEW n \in Nat,
           \A g \in S : g.place \in 1..n,
           \A g, h \in S : g.place = h.place => g = h
    PROVE  IsFiniteSet(S) /\ Cardinality(S) \in Nat /\ Cardinality(S) <= n
<1> DEFINE f == [g \in S |-> g.place]
<1>1. f \in Injection(S, 1..n)
  BY DEF Injection, IsInjective
<1>2. IsFiniteSet(1..n) /\ Cardinality(1..n) = n
  BY FS_Interval
<1> HIDE DEF f
<1>3. IsFiniteSet(S) /\ Cardinality(S) <= n
  BY <1>1, <1>2, FS_Injection
<1> QED BY <1>3, FS_CardinalityType

\* A minute meets its window and the next one.
LEMMA TwoWindowsAMinute ==
    ASSUME NEW t \in Instant, NEW at \in Instant, t <= at, at < t + Length
    PROVE  WindowOf(at) \in {WindowOf(t), WindowOf(t) + 1}
<1> DEFINE w == WindowOf(t)  v == WindowOf(at)
<1>1. t \in Nat /\ at \in Nat
  BY AskAssumption DEF Instant
<1>2. /\ w \in Nat /\ w * Length <= t /\ t < w * Length + Length
      /\ v \in Nat /\ v * Length <= at /\ at < v * Length + Length
  BY InItsWindow
<1> HIDE DEF w, v
<1>3. w * Length \in Nat /\ v * Length \in Nat
  BY <1>2, LengthAssumption
<1>4. v * Length < w * Length + Length + Length /\ w * Length < v * Length + Length
  BY <1>1, <1>2, <1>3, LengthAssumption
<1>5. v * Length < (w + 2) * Length /\ w * Length < (v + 1) * Length
  BY <1>2, <1>4, LengthAssumption
<1>6. v < w + 2
  BY <1>2, <1>5, LengthAssumption
<1>7. w < v + 1
  BY <1>2, <1>5, LengthAssumption
<1>8. v \in {w, w + 1}
  BY <1>2, <1>6, <1>7
<1> QED BY <1>8 DEF w, v

LEMMA InvariantBoundsAMinute == IInv => AMinuteHolds
<1> SUFFICES ASSUME IInv, NEW t \in Instant
             PROVE  Cardinality(GrantedIn(t, t + Length)) <=
                        IF WindowOf(t) \in missed THEN 2 * Limit ELSE 2 * Limit - 1
  BY DEF AMinuteHolds
<1> DEFINE w == WindowOf(t)
           minute == GrantedIn(t, t + Length)
           first == {g \in minute : g.window = w}
           second == {g \in minute : g.window = w + 1}
<1>1. \A g \in minute : g \in granted /\ g \in Place /\ t <= g.at /\ g.at < t + Length
  BY DEF GrantedIn, IInv, TypeOK
<1>2. \A g \in minute : g.place \in 1..Limit /\ g.at \in Instant /\ g.window = WindowOf(g.at)
  BY <1>1 DEF Place, IInv, GrantsAreOfTheirWindow
<1>3. minute = first \cup second
  BY <1>1, <1>2, TwoWindowsAMinute
<1>4. \A g, h \in granted : g.window = h.window /\ g.place = h.place => g = h
  BY DEF IInv, APlaceIsGrantedOnce
<1>5. w \in Window /\ w \in Nat
  BY InItsWindow
<1>6. /\ first \subseteq granted /\ second \subseteq granted
      /\ \A g \in first : g.window = w /\ g.place \in 1..Limit
      /\ \A g \in second : g.window = w + 1 /\ g.place \in 1..Limit
  BY <1>1, <1>2
<1> HIDE DEF w, minute, first, second
<1>7. IsFiniteSet(first) /\ Cardinality(first) \in Nat /\ Cardinality(first) <= Limit
  BY <1>4, <1>6, FewerThanPlaces, LimitAssumption
<1>8. IsFiniteSet(second) /\ Cardinality(second) \in Nat /\ Cardinality(second) <= Limit
  BY <1>4, <1>6, FewerThanPlaces, LimitAssumption
<1>9. Cardinality(minute) <= Cardinality(first) + Cardinality(second)
  <2>1. Cardinality(first \cup second) =
            Cardinality(first) + Cardinality(second) - Cardinality(first \cap second)
    BY <1>7, <1>8, FS_Union
  <2>2. IsFiniteSet(first \cap second)
    BY <1>7, FS_Subset
  <2>3. Cardinality(first \cap second) \in Nat
    BY <2>2, FS_CardinalityType
  <2> QED BY <1>3, <1>7, <1>8, <2>1, <2>3
<1>10. Cardinality(minute) \in Nat
  <2>1. IsFiniteSet(first \cup second)
    BY <1>7, <1>8, FS_Union
  <2> QED BY <1>3, <2>1, FS_CardinalityType
<1>11. CASE w \in missed
  BY <1>7, <1>8, <1>9, <1>10, <1>11, LimitAssumption DEF w, minute
<1>12. CASE w \notin missed /\ \E g \in second : g.place = Limit
  <2>1. PICK g \in second : g.place = Limit
    BY <1>12
  <2>2. g \in granted /\ g.window - 1 = w
    BY <1>5, <1>6, <2>1
  <2>3. counts[w] = NoCount
    BY <1>5, <1>12, <2>1, <2>2 DEF IInv, FullWindowsFollowNone
  <2>4. \A h \in first : h \in granted /\ h.window = w
    BY <1>6
  <2>5. first = {}
    BY <2>3, <2>4 DEF IInv, GrantsAreCounted
  <2>6. Cardinality(first) = 0
    BY <2>5, FS_EmptySet
  <2> QED BY <1>8, <1>9, <1>10, <1>12, <2>6, LimitAssumption DEF w, minute
<1>13. CASE w \notin missed /\ \A g \in second : g.place # Limit
  <2>1. \A g \in second : g.place \in 1..(Limit - 1)
    BY <1>6, <1>13, LimitAssumption
  <2>2. \A g, h \in second : g.place = h.place => g = h
    BY <1>4, <1>6
  <2>3. Limit - 1 \in Nat
    BY LimitAssumption
  <2>4. Cardinality(second) <= Limit - 1
    BY <2>1, <2>2, <2>3, FewerThanPlaces
  <2> QED BY <1>7, <1>8, <1>9, <1>10, <1>13, <2>4, LimitAssumption DEF w, minute
<1> QED BY <1>11, <1>12, <1>13

\* In any minute a caller gets 2 * Limit - 1 places, one more only when a request of its second
\* window did not read all of the first: for every limit, batch and delay of a request.
THEOREM AMinuteAlwaysHolds == Spec => []AMinuteHolds
<1> QED BY InvariantBoundsAMinute, Invariance, PTL

-----------------------------------------------------------------------------
(***************************************************************************)
(* Cache                                                                     *)
(***************************************************************************)

\* A version that the page has had, or may have again after a crash.
Said == {None} \cup (1..written \ unsaid)

Reads(r) == reads[r].step # "idle"

IdleReadsAreIdle == \A r \in Reader : ~Reads(r) => reads[r] = Idle

\* What this load will answer is known.
Knows(r) == reads[r].step \in {"storing", "settling"}

\* A new version is new: no entry and no read has one before it is said.
VersionsAreSaid ==
    /\ kv.version \in Said /\ flushed.version \in Said
    /\ \A v \in Version :
        kv.entries[v] # NoEntry \/ flushed.entries[v] # NoEntry => v \in Said
    /\ \A r \in Reader :
        /\ reads[r].version \in Said \cup {NoVersion}
        /\ reads[r].step \in {"looking", "storing"} => reads[r].version # NoVersion

\* A page without a version had none when it last reached the disk.
NoneWasFlushed == kv.version = None => flushed.version = None

\* "Must be longer than CACHE_TTL_MS plus the slowest load": while the page has a version,
\* who read that it had none is as old as that version, and so is what they stored.
NoneIsOld(k) ==
    k.version # None =>
        /\ \A r \in Reader : Reads(r) /\ reads[r].version = None =>
              VersionTtl - k.left <= reads[r].age
        /\ k.entries[None] # NoEntry =>
              VersionTtl - k.left <= MaxLoad + CacheTtl - k.entries[None].left

\* What is filed under the version of the page has every write that was announced.
TheVersionIsFresh ==
    /\ kv.entries[kv.version] # NoEntry => kv.entries[kv.version].value >= announced
    /\ \A r \in Reader : Knows(r) /\ reads[r].version = kv.version => reads[r].value >= announced

\* So, of every read, has what is filed under the version it learnt.
FloorsHold ==
    \A q \in Reader : Reads(q) =>
        /\ reads[q].floor <= written
        /\ reads[q].version = NoVersion => reads[q].floor = 0
        /\ reads[q].version # NoVersion =>
              LET entry == kv.entries[reads[q].version] IN
              entry # NoEntry => entry.value >= reads[q].floor
        /\ \A r \in Reader : Knows(r) /\ reads[r].version = reads[q].version =>
              reads[r].value >= reads[q].floor

\* How long ago the last write was that this entry misses.
EntriesAge(k) ==
    \A v \in Version : k.entries[v] # NoEntry =>
        \A n \in Write : n > k.entries[v].value =>
            since[n] <= MaxLoad + CacheTtl - k.entries[v].left

AnswerAge(r) ==
    \A n \in Write : n > reads[r].value =>
        /\ reads[r].step = "storing" => since[n] <= reads[r].age
        /\ reads[r].step = "settling" => since[n] <= MaxLoad + CacheTtl - 1 + reads[r].age

AnswersAge ==
    /\ \A n \in Write : n > written => since[n] = 0
    /\ EntriesAge(kv) /\ EntriesAge(flushed)
    /\ \A r \in Reader : AnswerAge(r)

CacheInv ==
    /\ CacheTypeOK /\ IdleReadsAreIdle
    /\ VersionsAreSaid /\ NoneWasFlushed /\ NoneIsOld(kv) /\ NoneIsOld(flushed)
    /\ TheVersionIsFresh /\ FloorsHold /\ AnswersAge

-----------------------------------------------------------------------------
(* Types.                                                                   *)

LEMMA KvTyped ==
    ASSUME NEW k \in Kv
    PROVE  /\ k.version \in Version /\ k.version \in Nat /\ k.left \in 0..VersionTtl /\ k.left \in Int
           /\ \A v \in Version : k.entries[v] \in Entry \cup {NoEntry}
           /\ \A v \in Version : k.entries[v] # NoEntry =>
                /\ k.entries[v].value \in Nat /\ k.entries[v].left \in 1..CacheTtl
                /\ k.entries[v].left \in Int
           /\ None \in Version
BY TtlAssumption, WritesAssumption DEF Kv, Entry, Version, Write, None

LEMMA ReadTyped ==
    ASSUME CacheTypeOK, NEW r \in Reader
    PROVE  /\ reads[r] \in Read
           /\ reads[r].version \in Version \cup {NoVersion}
           /\ reads[r].value \in Nat /\ reads[r].floor \in Nat
           /\ reads[r].age \in Nat /\ reads[r].age <= MaxLoad
BY TtlAssumption, WritesAssumption DEF CacheTypeOK, Read

LEMMA IdleTyped == Idle \in Read
BY TtlAssumption, WritesAssumption DEF Idle, Read, Version, None

LEMMA IdleIs == Idle.step = "idle" /\ Idle.version = None /\ Idle.value = 0 /\ Idle.age = 0
BY DEF Idle

LEMMA NewEntry ==
    ASSUME NEW k \in Kv, NEW v \in Version, NEW x \in 0..MaxWrites
    PROVE  LET e == [value |-> x, left |-> CacheTtl]
               j == [k EXCEPT !.entries[v] = e]
           IN /\ j \in Kv /\ j.version = k.version /\ j.left = k.left
              /\ j.entries = [k.entries EXCEPT ![v] = e]
              /\ \A u \in Version : j.entries[u] = IF u = v THEN e ELSE k.entries[u]
              /\ e \in Entry /\ e # NoEntry
<1>. DEFINE e == [value |-> x, left |-> CacheTtl]
<1>1. e \in Entry /\ e # NoEntry
  BY TtlAssumption, EntryAssumption DEF Entry
<1>. HIDE DEF e
<1>2. [k.entries EXCEPT ![v] = e] \in [Version -> Entry \cup {NoEntry}]
  BY <1>1 DEF Kv
<1>3. [k EXCEPT !.entries[v] = e]
        = [version |-> k.version, left |-> k.left, entries |-> [k.entries EXCEPT ![v] = e]]
  BY DEF Kv
<1>4. [k EXCEPT !.entries[v] = e] \in Kv
  BY <1>2, <1>3 DEF Kv
<1>5. \A u \in Version : [k.entries EXCEPT ![v] = e][u] = IF u = v THEN e ELSE k.entries[u]
  BY DEF Kv
<1>. QED  BY <1>1, <1>3, <1>4, <1>5 DEF e

LEMMA NewVersionTyped ==
    ASSUME kv \in Kv, NEW n \in Write, NewVersion(n)
    PROVE  kv' \in Kv /\ kv'.version = n /\ kv'.left = VersionTtl /\ kv'.entries = kv.entries
<1>1. kv' = [version |-> n, left |-> VersionTtl, entries |-> kv.entries]
  BY DEF NewVersion, VersionLife, Kv
<1>2. n \in Version /\ VersionTtl \in 0..VersionTtl
  BY TtlAssumption DEF Version
<1>. QED  BY <1>1, <1>2 DEF Kv

LEMMA LaterTyped ==
    ASSUME NEW k \in Kv
    PROVE  /\ Later(k) \in Kv
           /\ \A v \in Version :
                Later(k).entries[v] =
                    IF k.entries[v] = NoEntry \/ k.entries[v].left = 1 THEN NoEntry
                    ELSE [value |-> k.entries[v].value, left |-> k.entries[v].left - 1]
           /\ Later(k).version = IF k.left > 1 THEN k.version ELSE None
           /\ Later(k).left = IF k.left > 0 THEN k.left - 1 ELSE 0
<1>1. \A v \in Version :
        /\ k.entries[v] \in Entry \cup {NoEntry}
        /\ k.entries[v] # NoEntry =>
              [k.entries[v] EXCEPT !.left = @ - 1]
                = [value |-> k.entries[v].value, left |-> k.entries[v].left - 1]
        /\ k.entries[v] # NoEntry /\ k.entries[v].left # 1 =>
              [k.entries[v] EXCEPT !.left = @ - 1] \in Entry
  BY TtlAssumption DEF Kv, Entry
<1>2. Later(k).entries \in [Version -> Entry \cup {NoEntry}]
  BY <1>1 DEF Later
<1>3. Later(k).left \in 0..VersionTtl /\ Later(k).version \in Version
  BY TtlAssumption DEF Later, Kv, Version
<1>4. Later(k) \in Kv
  BY <1>2, <1>3 DEF Kv, Later
<1>. QED  BY <1>1, <1>4 DEF Later

-----------------------------------------------------------------------------
(* Steps.                                                                   *)

\* What a load is about to answer suits everyone who may wait for it.
Fits(q, x) ==
    /\ reads[q].version = kv.version => x >= announced
    /\ \A p \in Reader : Reads(p) /\ reads[p].version = reads[q].version => x >= reads[p].floor

LEMMA KnownFits ==
    ASSUME CacheInv, NEW q \in Reader, Knows(q)
    PROVE  Fits(q, reads[q].value)
BY DEF CacheInv, TheVersionIsFresh, FloorsHold, Fits, Knows, Reads

\* A step of the reads alone, none of which learns a version.
LEMMA ReadsGoOn ==
    ASSUME CacheInv, UNCHANGED <<kv, flushed, written, unsaid, announced, since>>,
           reads' \in [Reader -> Read],
           \A q \in Reader :
              \/ reads'[q] = Idle
              \/ /\ Reads(q)
                 /\ Reads(q)' /\ reads'[q].version = reads[q].version /\ reads'[q].floor = reads[q].floor
                 /\ reads'[q].age = reads[q].age
                 /\ reads'[q].step \in {"looking", "storing"} => reads[q].version # NoVersion
                 /\ Knows(q)' => Fits(q, reads'[q].value)
                 /\ AnswerAge(q)'
    PROVE  CacheInv'
<1>. DEFINE GoesOn(q) ==
        /\ Reads(q)
        /\ Reads(q)' /\ reads'[q].version = reads[q].version /\ reads'[q].floor = reads[q].floor
        /\ reads'[q].age = reads[q].age
        /\ reads'[q].step \in {"looking", "storing"} => reads[q].version # NoVersion
        /\ Knows(q)' => Fits(q, reads'[q].value)
        /\ AnswerAge(q)'
<1>1. \A q \in Reader : (Reads(q)' \/ Knows(q)') => GoesOn(q)
  BY DEF Idle, Reads, Knows
<1>2. \A q \in Reader : GoesOn(q) \/ reads'[q] = Idle
  OBVIOUS
<1>. HIDE DEF GoesOn
<1>3. CacheTypeOK'
  BY DEF CacheInv, CacheTypeOK
<1>10. IdleReadsAreIdle'
  BY <1>1, <1>2 DEF GoesOn, Reads, IdleReadsAreIdle, CacheInv
<1>4. VersionsAreSaid'
  <2>1. \A q \in Reader : reads'[q].version \in Said \cup {NoVersion}
    BY <1>2 DEF GoesOn, CacheInv, VersionsAreSaid, Idle, Said
  <2>2. \A q \in Reader : reads'[q].step \in {"looking", "storing"} => reads'[q].version # NoVersion
    BY <1>2 DEF GoesOn, Idle
  <2>. QED  BY <2>1, <2>2 DEF CacheInv, VersionsAreSaid, Said
<1>5. NoneWasFlushed'
  BY DEF CacheInv, NoneWasFlushed
<1>6. NoneIsOld(kv)' /\ NoneIsOld(flushed)'
  BY <1>1 DEF GoesOn, CacheInv, NoneIsOld
<1>7. TheVersionIsFresh'
  BY <1>1 DEF GoesOn, CacheInv, TheVersionIsFresh, Fits
<1>8. FloorsHold'
  <2>. SUFFICES ASSUME NEW q \in Reader, Reads(q)'
                PROVE  /\ reads'[q].floor <= written
                       /\ reads'[q].version = NoVersion => reads'[q].floor = 0
                       /\ reads'[q].version # NoVersion =>
                             LET entry == kv.entries[reads'[q].version] IN
                             entry # NoEntry => entry.value >= reads'[q].floor
                       /\ \A r \in Reader : Knows(r)' /\ reads'[r].version = reads'[q].version =>
                             reads'[r].value >= reads'[q].floor
    BY DEF FloorsHold
  <2>1. GoesOn(q)
    BY <1>1
  <2>2. \A r \in Reader : Knows(r)' /\ reads'[r].version = reads'[q].version =>
           reads'[r].value >= reads'[q].floor
    BY <1>1, <2>1 DEF GoesOn, Fits
  <2>. QED  BY <2>1, <2>2 DEF GoesOn, CacheInv, FloorsHold
<1>9. AnswersAge'
  <2>1. \A q \in Reader : AnswerAge(q)'
    <3>1. \A q \in Reader : reads'[q] = Idle => AnswerAge(q)'
      BY DEF AnswerAge, Idle
    <3>. QED  BY <3>1, <1>2 DEF GoesOn
  <2>. QED  BY <2>1 DEF CacheInv, AnswersAge, EntriesAge
<1>. QED  BY <1>3, <1>4, <1>5, <1>6, <1>7, <1>8, <1>9, <1>10 DEF CacheInv

LEMMA AnsweredTyped ==
    ASSUME CacheTypeOK, NEW r \in Reader, reads' = Answered(r)
    PROVE  /\ reads' \in [Reader -> Read]
           /\ \A q \in Reader : reads'[q] = Idle \/ (reads'[q] = reads[q] /\ q # r)
<1>1. \A q \in Reader : reads'[q] = Idle \/ (reads'[q] = reads[q] /\ q # r)
  BY DEF Answered, Waiting
<1>. QED  BY <1>1, IdleTyped DEF CacheTypeOK, Answered

\* Everyone who waits is answered, and the others go on.
LEMMA AnsweredKept ==
    ASSUME CacheInv, NEW r \in Reader, reads' = Answered(r),
           UNCHANGED <<kv, flushed, written, unsaid, announced, since>>
    PROVE  CacheInv'
<1>1. CacheTypeOK /\ AnswersAge /\ VersionsAreSaid
  BY DEF CacheInv
<1>2. ASSUME NEW q \in Reader, reads'[q] # Idle
      PROVE  /\ reads'[q] = reads[q] /\ Reads(q) /\ Reads(q)'
             /\ reads'[q].step \in {"looking", "storing"} => reads[q].version # NoVersion
             /\ Knows(q)' => Fits(q, reads'[q].value)
             /\ AnswerAge(q)'
  <2>1. reads'[q] = reads[q]
    BY <1>1, <1>2, AnsweredTyped
  <2>2. Reads(q)
    BY <1>2, <2>1 DEF CacheInv, IdleReadsAreIdle
  <2>3. Knows(q)' => Fits(q, reads'[q].value)
    BY <2>1, KnownFits DEF Knows
  <2>4. AnswerAge(q)'
    BY <1>1, <2>1 DEF AnswerAge, AnswersAge
  <2>. QED  BY <1>1, <2>1, <2>2, <2>3, <2>4 DEF VersionsAreSaid, Reads
<1>. QED  BY <1>1, <1>2, AnsweredTyped, ReadsGoOn
\* One read goes on, and learns no version.
LEMMA OneGoesOn ==
    ASSUME CacheInv, NEW r \in Reader, NEW x \in Read, reads' = [reads EXCEPT ![r] = x],
           UNCHANGED <<kv, flushed, written, unsaid, announced, since>>,
           Reads(r), x.step # "idle", x.version = reads[r].version, x.floor = reads[r].floor,
           x.age = reads[r].age,
           x.step \in {"looking", "storing"} => x.version # NoVersion,
           x.step \in {"storing", "settling"} => Fits(r, x.value),
           \A n \in Write : n > x.value =>
              /\ x.step = "storing" => since[n] <= x.age
              /\ x.step = "settling" => since[n] <= MaxLoad + CacheTtl - 1 + x.age
    PROVE  CacheInv'
<1>1. CacheTypeOK /\ AnswersAge /\ VersionsAreSaid /\ IdleReadsAreIdle
  BY DEF CacheInv
<1>2. reads' \in [Reader -> Read]
  BY <1>1 DEF CacheTypeOK
<1>3. reads'[r] = x
  BY <1>1 DEF CacheTypeOK
<1>4. ASSUME NEW q \in Reader, q # r, reads'[q] # Idle
      PROVE  /\ reads'[q] = reads[q] /\ Reads(q) /\ Reads(q)'
             /\ reads'[q].step \in {"looking", "storing"} => reads[q].version # NoVersion
             /\ Knows(q)' => Fits(q, reads'[q].value)
             /\ AnswerAge(q)'
  <2>1. reads'[q] = reads[q]
    BY <1>1, <1>4 DEF CacheTypeOK
  <2>2. Reads(q)
    BY <1>1, <1>4, <2>1 DEF IdleReadsAreIdle
  <2>3. Knows(q)' => Fits(q, reads'[q].value)
    BY <2>1, KnownFits DEF Knows
  <2>4. AnswerAge(q)'
    BY <1>1, <2>1 DEF AnswerAge, AnswersAge
  <2>. QED  BY <1>1, <2>1, <2>2, <2>3, <2>4 DEF VersionsAreSaid, Reads
<1>5. /\ Reads(r)'
      /\ Knows(r)' => Fits(r, reads'[r].value)
      /\ AnswerAge(r)'
  BY <1>3 DEF Reads, Knows, AnswerAge
<1>6. \A q \in Reader : q = r \/ reads'[q] = Idle \/ (q # r /\ reads'[q] # Idle)
  OBVIOUS
<1>. QED  BY <1>2, <1>3, <1>4, <1>5, <1>6, ReadsGoOn

LEMMA JoinKept ==
    ASSUME CacheInv, NEW r \in Reader, NEW p \in Process, Join(r, p)
    PROVE  CacheInv'
<1>1. PICK step \in {"joined", "asking", "looking"} :
        /\ reads' = [reads EXCEPT ![r].process = p, ![r].step = step]
        /\ step = "looking" => reads[r].version # NoVersion
  <2>. DEFINE led == Leaders(p, reads[r].version) # {}
              step == CASE led -> "joined"
                        [] reads[r].version = NoVersion -> "asking"
                        [] OTHER -> "looking"
  <2>1. reads' = [reads EXCEPT ![r].process = p, ![r].step = step]
    BY DEF Join
  <2>. HIDE DEF led
  <2>2. step \in {"joined", "asking", "looking"} /\ (step = "looking" => reads[r].version # NoVersion)
    <3>1. CASE led
      BY <3>1
    <3>2. CASE ~led /\ reads[r].version = NoVersion
      BY <3>2
    <3>3. CASE ~led /\ reads[r].version # NoVersion
      BY <3>3
    <3>. QED  BY <3>1, <3>2, <3>3
  <2>. HIDE DEF step
  <2>. QED  BY <2>1, <2>2
<1>. DEFINE x == [reads[r] EXCEPT !.process = p, !.step = step]
<1>2. reads[r] \in Read /\ reads[r].step = "versioned" /\ reads \in [Reader -> Read]
  BY DEF Join, CacheInv, CacheTypeOK
<1>3. /\ x \in Read /\ x.step = step /\ x.version = reads[r].version /\ x.floor = reads[r].floor
      /\ x.age = reads[r].age
  BY <1>2 DEF Read
<1>4. reads' = [reads EXCEPT ![r] = x]
  BY <1>1, <1>2
<1>5. UNCHANGED <<kv, flushed, written, unsaid, announced, since>>
  BY DEF Join
<1>. HIDE DEF x
<1>. QED  BY <1>1, <1>2, <1>3, <1>4, <1>5, OneGoesOn DEF Reads

LEMMA LookKept ==
    ASSUME CacheInv, NEW r \in Reader, Look(r)
    PROVE  CacheInv'
<1>1. /\ reads[r] \in Read /\ reads[r].step = "looking" /\ reads \in [Reader -> Read]
      /\ reads[r].version # NoVersion /\ reads[r].version \in Version
  BY DEF Look, CacheInv, CacheTypeOK, VersionsAreSaid, Read
<1>2. UNCHANGED <<kv, flushed, written, unsaid, announced, since>>
  BY DEF Look
<1>3. CASE Steps(r, "asking")
  <2>. DEFINE x == [reads[r] EXCEPT !.step = "asking"]
  <2>1. /\ x \in Read /\ x.step = "asking" /\ x.version = reads[r].version
        /\ x.floor = reads[r].floor /\ x.age = reads[r].age
    BY <1>1 DEF Read
  <2>2. reads' = [reads EXCEPT ![r] = x]
    BY <1>1, <1>3 DEF Steps
  <2>. HIDE DEF x
  <2>. QED  BY <1>1, <1>2, <2>1, <2>2, OneGoesOn DEF Reads
<1>4. CASE ~Steps(r, "asking")
  <2>. DEFINE entry == kv.entries[reads[r].version]
              x == [reads[r] EXCEPT !.step = "settling", !.value = entry.value]
  <2>1. entry # NoEntry /\ entry \in Entry /\ reads' = [reads EXCEPT ![r] = x]
    BY <1>1, <1>4 DEF Look, CacheInv, CacheTypeOK, Kv
  <2>2. /\ x \in Read /\ x.step = "settling" /\ x.version = reads[r].version
        /\ x.floor = reads[r].floor /\ x.age = reads[r].age /\ x.value = entry.value
    BY <1>1, <2>1 DEF Read, Entry
  <2>3. Fits(r, entry.value)
    BY <1>1, <2>1 DEF Fits, CacheInv, TheVersionIsFresh, FloorsHold
  <2>4. ASSUME NEW n \in Write, n > entry.value
        PROVE  since[n] <= MaxLoad + CacheTtl - 1 + reads[r].age
    <3>1. since[n] <= MaxLoad + CacheTtl - entry.left
      BY <1>1, <2>1, <2>4 DEF CacheInv, AnswersAge, EntriesAge
    <3>2. entry.left \in 1..CacheTtl /\ reads[r].age \in 0..MaxLoad /\ since[n] \in 0..Oldest
      BY <1>1, <2>1 DEF Entry, Read, CacheInv, CacheTypeOK
    <3>. QED  BY <3>1, <3>2, TtlAssumption DEF Oldest
  <2>. HIDE DEF x, entry
  <2>. QED  BY <1>1, <1>2, <2>1, <2>2, <2>3, <2>4, OneGoesOn DEF Reads
<1>. QED  BY <1>3, <1>4

LEMMA AskKept ==
    ASSUME CacheInv, NEW r \in Reader, Ask(r)
    PROVE  CacheInv'
<1>1. reads[r] \in Read /\ reads[r].step = "asking" /\ reads \in [Reader -> Read]
  BY DEF Ask, CacheInv, CacheTypeOK
<1>2. UNCHANGED <<kv, flushed, written, unsaid, announced, since>>
  BY DEF Ask
<1>3. CASE reads' = Answered(r)
  BY <1>2, <1>3, AnsweredKept
<1>4. CASE reads' # Answered(r)
  <2>1. PICK step \in {"storing", "settling"} :
          /\ reads' = [reads EXCEPT ![r].value = written, ![r].step = step]
          /\ step = "storing" => reads[r].version # NoVersion
    BY <1>4 DEF Ask
  <2>. DEFINE x == [reads[r] EXCEPT !.value = written, !.step = step]
  <2>2. written \in 0..MaxWrites /\ announced \in 0..written
    BY DEF CacheInv, CacheTypeOK
  <2>3. /\ x \in Read /\ x.step = step /\ x.version = reads[r].version
        /\ x.floor = reads[r].floor /\ x.age = reads[r].age /\ x.value = written
    BY <1>1, <2>2 DEF Read
  <2>4. reads' = [reads EXCEPT ![r] = x]
    BY <1>1, <2>1
  <2>5. Fits(r, written)
    BY <2>2 DEF Fits, CacheInv, FloorsHold
  <2>6. ASSUME NEW n \in Write, n > written
        PROVE  since[n] <= reads[r].age /\ since[n] <= MaxLoad + CacheTtl - 1 + reads[r].age
    <3>1. since[n] = 0
      BY <2>6 DEF CacheInv, AnswersAge
    <3>2. reads[r].age \in 0..MaxLoad
      BY <1>1 DEF Read
    <3>. QED  BY <3>1, <3>2, TtlAssumption
  <2>. HIDE DEF x
  <2>. QED  BY <1>1, <1>2, <2>1, <2>3, <2>4, <2>5, <2>6, OneGoesOn DEF Reads
<1>. QED  BY <1>3, <1>4

LEMMA SettleKept ==
    ASSUME CacheInv, NEW r \in Reader, Settle(r)
    PROVE  CacheInv'
BY AnsweredKept DEF Settle

LEMMA GetVersionKept ==
    ASSUME CacheInv, NEW r \in Reader, GetVersion(r)
    PROVE  CacheInv'
<1>1. PICK known \in BOOLEAN :
        reads' = [reads EXCEPT ![r] =
            [Idle EXCEPT !.step = "versioned",
                         !.version = IF known THEN kv.version ELSE NoVersion,
                         !.floor = IF known THEN announced ELSE 0]]
  BY DEF GetVersion
<1>. DEFINE v == IF known THEN kv.version ELSE NoVersion
            f == IF known THEN announced ELSE 0
            x == [Idle EXCEPT !.step = "versioned", !.version = v, !.floor = f]
<1>2. /\ CacheTypeOK /\ IdleReadsAreIdle /\ VersionsAreSaid /\ NoneWasFlushed
      /\ TheVersionIsFresh /\ FloorsHold /\ AnswersAge
      /\ NoneIsOld(kv) /\ NoneIsOld(flushed)
  BY DEF CacheInv
<1>3. UNCHANGED <<kv, flushed, written, unsaid, announced, since>> /\ ~Reads(r)
  BY DEF GetVersion, Reads
<1>4. kv.version \in Version /\ written \in 0..MaxWrites /\ announced \in 0..written
  BY <1>2 DEF CacheTypeOK, Kv
<1>5. /\ x \in Read /\ x.step = "versioned" /\ x.age = 0 /\ x.value = 0
      /\ x.floor \in 0..written
      /\ \/ x.version = kv.version /\ x.floor = announced
         \/ x.version = NoVersion /\ x.floor = 0
  <2>1. announced \in 0..MaxWrites /\ 0 \in 0..MaxWrites /\ 0 \in 0..MaxLoad
    BY <1>4, WritesAssumption, TtlAssumption
  <2>2. \/ v = kv.version /\ f = announced
        \/ v = NoVersion /\ f = 0
    OBVIOUS
  <2>. HIDE DEF v, f
  <2>3. v \in Version \cup {NoVersion} /\ f \in 0..MaxWrites /\ f \in 0..written
    BY <1>4, <2>1, <2>2
  <2>4. Idle \in Read /\ Idle.value = 0 /\ Idle.age = 0 /\ "versioned" \in
            {"idle", "versioned", "looking", "asking", "storing", "settling", "joined"}
    BY IdleTyped, IdleIs
  <2>5. /\ x \in Read /\ x.step = "versioned" /\ x.version = v /\ x.floor = f
        /\ x.value = Idle.value /\ x.age = Idle.age
    BY <2>3, <2>4 DEF Read
  <2>. QED  BY <2>2, <2>3, <2>4, <2>5
<1>6. reads' = [reads EXCEPT ![r] = x] /\ reads' \in [Reader -> Read] /\ reads'[r] = x
      /\ \A q \in Reader : q # r => reads'[q] = reads[q]
  <2>1. reads' = [reads EXCEPT ![r] = x]
    BY <1>1
  <2>. HIDE DEF x
  <2>. QED  BY <1>2, <1>5, <2>1 DEF CacheTypeOK
<1>. HIDE DEF x, v, f
<1>7. CacheTypeOK'
  BY <1>2, <1>3, <1>6 DEF CacheTypeOK
<1>8. IdleReadsAreIdle'
  BY <1>2, <1>5, <1>6 DEF IdleReadsAreIdle, Reads
<1>9. VersionsAreSaid'
  BY <1>2, <1>3, <1>5, <1>6 DEF VersionsAreSaid, Said
<1>10. NoneWasFlushed'
  BY <1>2, <1>3 DEF NoneWasFlushed
<1>11. NoneIsOld(kv)' /\ NoneIsOld(flushed)'
  <2>1. NoVersion # None
    BY EntryAssumption DEF Version
  <2>2. \A q \in Reader : Reads(q)' /\ reads'[q].version = None /\ (kv.version # None \/ flushed.version # None) =>
           Reads(q) /\ reads'[q] = reads[q]
    BY <1>2, <1>5, <1>6, <2>1 DEF NoneWasFlushed, Reads
  <2>. QED  BY <1>2, <1>3, <2>2 DEF NoneIsOld
<1>12. \A q \in Reader : Knows(q)' => Knows(q) /\ reads'[q] = reads[q]
  BY <1>5, <1>6 DEF Knows
<1>13. TheVersionIsFresh'
  BY <1>2, <1>3, <1>12 DEF TheVersionIsFresh
<1>14. FloorsHold'
  <2>. SUFFICES ASSUME NEW q \in Reader, Reads(q)'
                PROVE  /\ reads'[q].floor <= written
                       /\ reads'[q].version = NoVersion => reads'[q].floor = 0
                       /\ reads'[q].version # NoVersion =>
                             LET entry == kv.entries[reads'[q].version] IN
                             entry # NoEntry => entry.value >= reads'[q].floor
                       /\ \A s \in Reader : Knows(s) /\ reads[s].version = reads'[q].version =>
                             reads[s].value >= reads'[q].floor
    BY <1>3, <1>12 DEF FloorsHold
  <2>1. CASE q # r
    BY <1>2, <1>6, <2>1 DEF FloorsHold, Reads
  <2>2. CASE q = r
    <3>1. \A s \in Reader : reads[s].value \in Nat
      BY <1>2, ReadTyped
    <3>2. CASE x.version = kv.version /\ x.floor = announced
      BY <1>2, <1>4, <1>5, <1>6, <2>2, <3>2, EntryAssumption DEF TheVersionIsFresh
    <3>3. CASE x.version = NoVersion /\ x.floor = 0
      BY <1>4, <1>5, <1>6, <2>2, <3>1, <3>3
    <3>. QED  BY <1>5, <3>2, <3>3
  <2>. QED  BY <2>1, <2>2
<1>15. AnswersAge'
  <2>1. AnswerAge(r)'
    BY <1>5, <1>6 DEF AnswerAge
  <2>2. \A q \in Reader : q # r => AnswerAge(q)'
    BY <1>2, <1>3, <1>6 DEF AnswerAge, AnswersAge
  <2>. QED  BY <1>2, <1>3, <2>1, <2>2 DEF AnswersAge, EntriesAge
<1>. QED  BY <1>7, <1>8, <1>9, <1>10, <1>11, <1>13, <1>14, <1>15 DEF CacheInv

LEMMA StoreKept ==
    ASSUME CacheInv, NEW r \in Reader, Store(r)
    PROVE  CacheInv'
<1>. DEFINE v == reads[r].version
            e == [value |-> reads[r].value, left |-> CacheTtl]
            x == [reads[r] EXCEPT !.step = "settling"]
<1>1. /\ CacheTypeOK /\ IdleReadsAreIdle /\ VersionsAreSaid /\ NoneWasFlushed
      /\ TheVersionIsFresh /\ FloorsHold /\ AnswersAge
      /\ NoneIsOld(kv) /\ NoneIsOld(flushed)
  BY DEF CacheInv
<1>2. /\ reads \in [Reader -> Read] /\ reads[r] \in Read /\ reads[r].step = "storing" /\ kv \in Kv
      /\ v \in Version /\ v \in Said /\ reads[r].value \in 0..MaxWrites /\ reads[r].age \in 0..MaxLoad
  BY <1>1 DEF Store, CacheTypeOK, VersionsAreSaid, Read
<1>3. /\ x \in Read /\ x.step = "settling" /\ x.version = v /\ x.floor = reads[r].floor
      /\ x.age = reads[r].age /\ x.value = reads[r].value
  BY <1>2 DEF Read
<1>4. /\ reads' = [reads EXCEPT ![r] = x] /\ reads' \in [Reader -> Read] /\ reads'[r] = x
      /\ \A q \in Reader : q # r => reads'[q] = reads[q]
  BY <1>2, <1>3 DEF Store, Steps
<1>5. UNCHANGED <<flushed, written, unsaid, announced, since>>
  BY DEF Store
<1>6. Fits(r, reads[r].value)
  BY <1>2, KnownFits DEF Knows
<1>7. ASSUME NEW n \in Write, n > reads[r].value
      PROVE  since[n] \in Nat /\ since[n] <= reads[r].age
  BY <1>1, <1>2, <1>7 DEF AnswersAge, AnswerAge, CacheTypeOK, Oldest
<1>8. ASSUME NEW n \in Write, n > reads[r].value
      PROVE  since[n] <= MaxLoad + CacheTtl - 1 + reads[r].age
  <2>1. since[n] \in Nat /\ since[n] <= reads[r].age
    BY <1>7, <1>8
  <2>. QED  BY <1>2, <2>1, TtlAssumption
<1>. HIDE DEF x
<1>9. CASE UNCHANGED kv
  BY <1>2, <1>3, <1>4, <1>5, <1>6, <1>8, <1>9, OneGoesOn DEF Reads
<1>10. CASE kv' = [kv EXCEPT !.entries[v] = e]
  <2>1. /\ kv' \in Kv /\ kv'.version = kv.version /\ kv'.left = kv.left
        /\ \A u \in Version : kv'.entries[u] = IF u = v THEN e ELSE kv.entries[u]
        /\ e # NoEntry /\ e.value = reads[r].value /\ e.left = CacheTtl
    BY <1>2, <1>10, NewEntry
  <2>. HIDE DEF e
  <2>2. CacheTypeOK'
    BY <1>1, <1>4, <1>5, <2>1 DEF CacheTypeOK
  <2>3. IdleReadsAreIdle'
    BY <1>1, <1>3, <1>4 DEF IdleReadsAreIdle, Reads
  <2>4. VersionsAreSaid'
    <3>1. \A u \in Version : kv'.entries[u] # NoEntry \/ flushed.entries[u] # NoEntry => u \in Said
      BY <1>1, <1>2, <2>1 DEF VersionsAreSaid
    <3>2. \A q \in Reader :
            /\ reads'[q].version \in Said \cup {NoVersion}
            /\ reads'[q].step \in {"looking", "storing"} => reads'[q].version # NoVersion
      BY <1>1, <1>2, <1>3, <1>4 DEF VersionsAreSaid
    <3>. QED  BY <1>1, <1>5, <2>1, <3>1, <3>2 DEF VersionsAreSaid, Said
  <2>5. NoneWasFlushed'
    BY <1>1, <1>5, <2>1 DEF NoneWasFlushed
  <2>6. \A q \in Reader :
          /\ Reads(q)' <=> Reads(q)
          /\ reads'[q].version = reads[q].version /\ reads'[q].age = reads[q].age
          /\ reads'[q].floor = reads[q].floor /\ reads'[q].value = reads[q].value
          /\ Knows(q)' <=> Knows(q)
    BY <1>2, <1>3, <1>4 DEF Reads, Knows
  <2>7. NoneIsOld(kv)' /\ NoneIsOld(flushed)'
    <3>1. ASSUME kv.version # None, v = None
          PROVE  VersionTtl - kv.left <= MaxLoad + CacheTtl - CacheTtl
      <4>1. VersionTtl - kv.left <= reads[r].age
        BY <1>1, <1>2, <3>1 DEF NoneIsOld, Reads
      <4>. QED  BY <1>2, <4>1, TtlAssumption DEF Kv
    <3>2. None \in Version
      BY DEF Version
    <3>. QED  BY <1>1, <1>5, <2>1, <2>6, <3>1, <3>2 DEF NoneIsOld
  <2>8. TheVersionIsFresh'
    BY <1>1, <1>2, <1>5, <1>6, <2>1, <2>6 DEF TheVersionIsFresh, Fits, Kv
  <2>9. FloorsHold'
    <3>. SUFFICES ASSUME NEW q \in Reader, Reads(q)
                  PROVE  /\ reads[q].floor <= written
                         /\ reads[q].version = NoVersion => reads[q].floor = 0
                         /\ reads[q].version # NoVersion =>
                               LET entry == kv'.entries[reads[q].version] IN
                               entry # NoEntry => entry.value >= reads[q].floor
                         /\ \A s \in Reader : Knows(s) /\ reads[s].version = reads[q].version =>
                               reads[s].value >= reads[q].floor
      BY <1>5, <2>6 DEF FloorsHold
    <3>1. reads[q].version \in Version \cup {NoVersion}
      BY <1>1, ReadTyped
    <3>. QED  BY <1>1, <1>6, <2>1, <3>1 DEF FloorsHold, Fits
  <2>10. AnswersAge'
    <3>1. EntriesAge(kv)'
      <4>. SUFFICES ASSUME NEW u \in Version, kv'.entries[u] # NoEntry,
                           NEW n \in Write, n > kv'.entries[u].value
                    PROVE  since[n] <= MaxLoad + CacheTtl - kv'.entries[u].left
        BY <1>5 DEF EntriesAge
      <4>1. CASE u # v
        BY <1>1, <2>1, <4>1 DEF AnswersAge, EntriesAge
      <4>2. CASE u = v
        <5>1. since[n] \in Nat /\ since[n] <= reads[r].age
          BY <1>7, <2>1, <4>2
        <5>. QED  BY <1>2, <2>1, <4>2, <5>1, TtlAssumption
      <4>. QED  BY <4>1, <4>2
    <3>2. \A q \in Reader : AnswerAge(q)'
      <4>1. AnswerAge(r)'
        BY <1>3, <1>4, <1>5, <1>8 DEF AnswerAge
      <4>2. \A q \in Reader : q # r => AnswerAge(q)'
        BY <1>1, <1>4, <1>5 DEF AnswerAge, AnswersAge
      <4>. QED  BY <4>1, <4>2
    <3>. QED  BY <1>1, <1>5, <3>1, <3>2 DEF AnswersAge, EntriesAge
  <2>. QED  BY <2>2, <2>3, <2>4, <2>5, <2>7, <2>8, <2>9, <2>10 DEF CacheInv
<1>. QED  BY <1>9, <1>10 DEF Store

LEMMA WriteNoteKept ==
    ASSUME CacheInv, WriteNote
    PROVE  CacheInv'
<1>1. /\ CacheTypeOK /\ IdleReadsAreIdle /\ VersionsAreSaid /\ NoneWasFlushed
      /\ TheVersionIsFresh /\ FloorsHold /\ AnswersAge
      /\ NoneIsOld(kv) /\ NoneIsOld(flushed)
  BY DEF CacheInv
<1>2. /\ written \in 0..MaxWrites /\ written < MaxWrites /\ written' = written + 1
      /\ unsaid' = unsaid \cup {written + 1} /\ unsaid \subseteq 1..written /\ announced \in 0..written
      /\ UNCHANGED <<kv, flushed, announced, since, reads>>
  BY <1>1 DEF WriteNote, CacheTypeOK
<1>3. /\ written' \in 0..MaxWrites /\ unsaid' \subseteq 1..written' /\ announced \in 0..written'
      /\ 1..written' \ unsaid' = 1..written \ unsaid
  BY <1>2, WritesAssumption
<1>4. CacheTypeOK'
  BY <1>1, <1>2, <1>3 DEF CacheTypeOK
<1>5. VersionsAreSaid'
  BY <1>1, <1>2, <1>3 DEF VersionsAreSaid, Said
<1>6. IdleReadsAreIdle' /\ NoneWasFlushed' /\ NoneIsOld(kv)' /\ NoneIsOld(flushed)' /\ TheVersionIsFresh'
  BY <1>1, <1>2 DEF IdleReadsAreIdle, Reads, NoneWasFlushed, NoneIsOld, TheVersionIsFresh, Knows
<1>7. FloorsHold'
  <2>1. \A q \in Reader : Reads(q) => reads[q].floor <= written'
    <3>. SUFFICES ASSUME NEW q \in Reader, Reads(q)  PROVE reads[q].floor <= written'
      OBVIOUS
    <3>1. reads[q].floor \in Nat /\ reads[q].floor <= written
      BY <1>1, ReadTyped DEF FloorsHold
    <3>. QED  BY <1>2, <3>1
  <2>. QED  BY <1>1, <1>2, <2>1 DEF FloorsHold, Reads, Knows
<1>8. AnswersAge'
  <2>1. \A n \in Write : n > written' => since[n] = 0
    BY <1>1, <1>2 DEF AnswersAge, Write
  <2>. QED  BY <1>1, <1>2, <2>1 DEF AnswersAge, AnswerAge, EntriesAge
<1>. QED  BY <1>4, <1>5, <1>6, <1>7, <1>8 DEF CacheInv

\* A new version, said by somebody who knows that it is committed, or by nobody.
LEMMA NewVersionKept ==
    ASSUME CacheInv, NEW n \in Write, n \in unsaid, NewVersion(n), unsaid' = unsaid \ {n},
           announced' \in {announced, n}, announced' >= announced,
           UNCHANGED <<flushed, written, since, reads>>
    PROVE  CacheInv'
<1>1. /\ CacheTypeOK /\ IdleReadsAreIdle /\ VersionsAreSaid /\ NoneWasFlushed
      /\ TheVersionIsFresh /\ FloorsHold /\ AnswersAge
      /\ NoneIsOld(kv) /\ NoneIsOld(flushed)
  BY DEF CacheInv
<1>2. /\ kv \in Kv /\ flushed \in Kv /\ unsaid \subseteq 1..written /\ written \in 0..MaxWrites
      /\ announced \in 0..written
  BY <1>1 DEF CacheTypeOK
<1>3. kv' \in Kv /\ kv'.version = n /\ kv'.left = VersionTtl /\ kv'.entries = kv.entries
  BY <1>2, NewVersionTyped
<1>4. /\ n \notin Said /\ n # None /\ n # NoVersion /\ n \in Version /\ n \in Said'
      /\ Said \subseteq Said'
  BY <1>2, EntryAssumption DEF Said, None, Write, Version
<1>5. CacheTypeOK'
  BY <1>1, <1>2, <1>3 DEF CacheTypeOK
<1>6. IdleReadsAreIdle' /\ NoneWasFlushed'
  BY <1>1, <1>3, <1>4 DEF IdleReadsAreIdle, Reads, NoneWasFlushed
<1>7. VersionsAreSaid'
  <2>1. kv'.version \in Said' /\ flushed'.version \in Said'
    BY <1>1, <1>3, <1>4 DEF VersionsAreSaid
  <2>2. \A v \in Version :
          kv'.entries[v] # NoEntry \/ flushed'.entries[v] # NoEntry => v \in Said'
    BY <1>1, <1>3, <1>4 DEF VersionsAreSaid
  <2>3. \A r \in Reader :
          /\ reads'[r].version \in Said' \cup {NoVersion}
          /\ reads'[r].step \in {"looking", "storing"} => reads'[r].version # NoVersion
    BY <1>1, <1>4 DEF VersionsAreSaid
  <2>. QED  BY <2>1, <2>2, <2>3 DEF VersionsAreSaid
<1>8. NoneIsOld(kv)'
  <2>1. \A r \in Reader : VersionTtl - VersionTtl <= reads[r].age
    BY <1>1, ReadTyped, TtlAssumption
  <2>2. kv.entries[None] # NoEntry => VersionTtl - VersionTtl <= MaxLoad + CacheTtl - kv.entries[None].left
    BY <1>2, KvTyped, TtlAssumption
  <2>. QED  BY <1>3, <2>1, <2>2 DEF NoneIsOld
<1>9. NoneIsOld(flushed)'
  BY <1>1 DEF NoneIsOld, Reads
<1>10. kv.entries[n] = NoEntry /\ \A r \in Reader : reads[r].version # n
  BY <1>1, <1>4 DEF VersionsAreSaid
<1>11. TheVersionIsFresh'
  BY <1>3, <1>10 DEF TheVersionIsFresh
<1>12. FloorsHold'
  BY <1>1, <1>3 DEF FloorsHold, Reads, Knows
<1>13. AnswersAge'
  BY <1>1, <1>3 DEF AnswersAge, AnswerAge, EntriesAge
<1>. QED  BY <1>5, <1>6, <1>7, <1>8, <1>9, <1>11, <1>12, <1>13 DEF CacheInv

LEMMA InvalidateKept ==
    ASSUME CacheInv, NEW n \in Write, Invalidate(n)
    PROVE  CacheInv'
<1>1. n \in Int /\ announced \in Int
  BY WritesAssumption DEF Write, CacheInv, CacheTypeOK
<1>. QED  BY <1>1, NewVersionKept DEF Invalidate

LEMMA InvalidateFailsKept ==
    ASSUME CacheInv, NEW n \in Write, InvalidateFails(n)
    PROVE  CacheInv'
<1>1. announced \in Int /\ unsaid \subseteq 1..written
  BY DEF CacheInv, CacheTypeOK
<1>2. CASE NewVersion(n)
  BY <1>1, <1>2, NewVersionKept DEF InvalidateFails
<1>3. CASE UNCHANGED kv
  <2>1. UNCHANGED <<kv, flushed, written, announced, since, reads>> /\ unsaid' = unsaid \ {n}
    BY <1>3 DEF InvalidateFails
  <2>2. Said \subseteq Said'
    BY <2>1 DEF Said
  <2>3. VersionsAreSaid'
    BY <2>1, <2>2 DEF CacheInv, VersionsAreSaid
  <2>4. CacheTypeOK' /\ IdleReadsAreIdle' /\ NoneWasFlushed' /\ TheVersionIsFresh'
    BY <2>1, <1>1 DEF CacheInv, CacheTypeOK, IdleReadsAreIdle, Reads, NoneWasFlushed, TheVersionIsFresh, Knows
  <2>5. NoneIsOld(kv)' /\ NoneIsOld(flushed)' /\ FloorsHold' /\ AnswersAge'
    BY <2>1 DEF CacheInv, NoneIsOld, FloorsHold, Reads, Knows, AnswersAge, AnswerAge, EntriesAge
  <2>. QED  BY <2>3, <2>4, <2>5 DEF CacheInv
<1>. QED  BY <1>2, <1>3 DEF InvalidateFails

LEMMA CrashKept ==
    ASSUME CacheInv, Crash
    PROVE  CacheInv'
<1>1. /\ CacheTypeOK /\ IdleReadsAreIdle /\ VersionsAreSaid /\ NoneWasFlushed
      /\ AnswersAge /\ NoneIsOld(flushed)
  BY DEF CacheInv
<1>2. /\ kv' = flushed /\ announced' = 0 /\ UNCHANGED <<flushed, written, unsaid, since>>
      /\ reads' = [r \in Reader |-> [reads[r] EXCEPT !.floor = 0]]
  BY DEF Crash
<1>3. \A r \in Reader :
        /\ reads'[r] \in Read /\ reads'[r].floor = 0 /\ reads'[r].value \in Nat
        /\ reads'[r].version = reads[r].version /\ reads'[r].value = reads[r].value
        /\ reads'[r].age = reads[r].age /\ reads'[r].step = reads[r].step
        /\ reads[r] = Idle => reads'[r] = Idle
  <2>. SUFFICES ASSUME NEW r \in Reader
                PROVE  /\ reads'[r] \in Read /\ reads'[r].floor = 0 /\ reads'[r].value \in Nat
                       /\ reads'[r].version = reads[r].version /\ reads'[r].value = reads[r].value
                       /\ reads'[r].age = reads[r].age /\ reads'[r].step = reads[r].step
                       /\ reads[r] = Idle => reads'[r] = Idle
    OBVIOUS
  <2>1. reads[r] \in Read /\ reads'[r] = [reads[r] EXCEPT !.floor = 0] /\ 0 \in 0..MaxWrites
    BY <1>1, <1>2, WritesAssumption DEF CacheTypeOK
  <2>2. reads'[r] \in Read /\ reads'[r].floor = 0 /\ reads'[r].value \in Nat
        /\ reads'[r].version = reads[r].version /\ reads'[r].value = reads[r].value
        /\ reads'[r].age = reads[r].age /\ reads'[r].step = reads[r].step
    BY <2>1, WritesAssumption DEF Read
  <2>3. reads[r] = Idle => reads'[r] = Idle
    BY <2>1 DEF Idle
  <2>. QED  BY <2>2, <2>3
<1>4. CacheTypeOK'
  <2>1. reads' \in [Reader -> Read]
    BY <1>2, <1>3
  <2>. QED  BY <1>1, <1>2, <2>1 DEF CacheTypeOK
<1>5. IdleReadsAreIdle'
  BY <1>1, <1>3 DEF IdleReadsAreIdle, Reads
<1>6. VersionsAreSaid'
  BY <1>1, <1>2, <1>3 DEF VersionsAreSaid, Said
<1>7. NoneWasFlushed'
  BY <1>2 DEF NoneWasFlushed
<1>8. NoneIsOld(kv)' /\ NoneIsOld(flushed)'
  BY <1>1, <1>2, <1>3 DEF NoneIsOld, Reads
<1>9. \A v \in Version : flushed.entries[v] # NoEntry => flushed.entries[v].value \in Nat
  BY <1>1, KvTyped DEF CacheTypeOK
<1>10. TheVersionIsFresh'
  <2>1. flushed.version \in Version
    BY <1>1, KvTyped DEF CacheTypeOK
  <2>. QED  BY <1>2, <1>3, <1>9, <2>1 DEF TheVersionIsFresh
<1>11. FloorsHold'
  <2>1. written \in Nat /\ \A r \in Reader : reads[r].version \in Version \cup {NoVersion}
    BY <1>1, ReadTyped, WritesAssumption DEF CacheTypeOK
  <2>. QED  BY <1>2, <1>3, <1>9, <2>1 DEF FloorsHold
<1>12. AnswersAge'
  BY <1>1, <1>2, <1>3 DEF AnswersAge, AnswerAge, EntriesAge
<1>. QED  BY <1>4, <1>5, <1>6, <1>7, <1>8, <1>10, <1>11, <1>12 DEF CacheInv

LEMMA CacheTickKept ==
    ASSUME CacheInv, CacheTick
    PROVE  CacheInv'
<1>1. /\ CacheTypeOK /\ IdleReadsAreIdle /\ VersionsAreSaid /\ NoneWasFlushed
      /\ TheVersionIsFresh /\ FloorsHold /\ AnswersAge /\ NoneIsOld(kv)
  BY DEF CacheInv
<1>2. /\ kv \in Kv /\ kv' = Later(kv) /\ flushed' = kv' /\ UNCHANGED <<written, unsaid, announced>>
      /\ since' = [n \in Write |-> IF n <= written /\ since[n] < Oldest THEN since[n] + 1 ELSE since[n]]
      /\ written \in 0..MaxWrites /\ since \in [Write -> 0..Oldest]
  BY <1>1 DEF CacheTick, CacheTypeOK
<1>3. /\ kv' \in Kv
      /\ \A v \in Version :
            kv'.entries[v] = IF kv.entries[v] = NoEntry \/ kv.entries[v].left = 1 THEN NoEntry
                             ELSE [value |-> kv.entries[v].value, left |-> kv.entries[v].left - 1]
      /\ kv'.version = IF kv.left > 1 THEN kv.version ELSE None
      /\ kv'.left = IF kv.left > 0 THEN kv.left - 1 ELSE 0
  BY <1>2, LaterTyped
<1>4. \A v \in Version : kv'.entries[v] # NoEntry =>
        /\ kv.entries[v] # NoEntry /\ kv.entries[v].left # 1
        /\ kv'.entries[v].value = kv.entries[v].value
        /\ kv'.entries[v].left = kv.entries[v].left - 1
  <2>. SUFFICES ASSUME NEW v \in Version, kv'.entries[v] # NoEntry
                PROVE  /\ kv.entries[v] # NoEntry /\ kv.entries[v].left # 1
                       /\ kv'.entries[v].value = kv.entries[v].value
                       /\ kv'.entries[v].left = kv.entries[v].left - 1
    OBVIOUS
  <2>1. ~(kv.entries[v] = NoEntry \/ kv.entries[v].left = 1)
    BY <1>3
  <2>2. kv'.entries[v] = [value |-> kv.entries[v].value, left |-> kv.entries[v].left - 1]
    BY <1>3, <2>1
  <2>. QED  BY <2>1, <2>2
<1>5. \A r \in Reader :
        /\ reads[r].step = "idle" => reads'[r] = Idle
        /\ reads[r].step # "idle" =>
              /\ reads[r].age < MaxLoad /\ reads'[r] = [reads[r] EXCEPT !.age = @ + 1]
              /\ reads'[r] \in Read /\ reads'[r].age = reads[r].age + 1
              /\ reads'[r].version = reads[r].version /\ reads'[r].value = reads[r].value
              /\ reads'[r].step = reads[r].step /\ reads'[r].floor = reads[r].floor
  <2>. SUFFICES ASSUME NEW r \in Reader, reads[r].step # "idle"
                PROVE  /\ reads[r].age < MaxLoad /\ reads'[r] = [reads[r] EXCEPT !.age = @ + 1]
                       /\ reads'[r] \in Read /\ reads'[r].age = reads[r].age + 1
                       /\ reads'[r].version = reads[r].version /\ reads'[r].value = reads[r].value
                       /\ reads'[r].step = reads[r].step /\ reads'[r].floor = reads[r].floor
    BY DEF CacheTick
  <2>1. reads[r].age < MaxLoad /\ reads'[r] = [reads[r] EXCEPT !.age = @ + 1] /\ reads[r] \in Read
    BY <1>1 DEF CacheTick, CacheTypeOK
  <2>2. reads[r].age + 1 \in 0..MaxLoad
    BY <2>1, TtlAssumption DEF Read
  <2>. QED  BY <2>1, <2>2 DEF Read
<1>6. \A r \in Reader : (Reads(r)' => Reads(r)) /\ (Knows(r)' => Knows(r) /\ Reads(r))
  BY <1>5, IdleIs DEF Reads, Knows
<1>7. CacheTypeOK'
  <2>1. reads' \in [Reader -> Read]
    BY <1>5, IdleTyped DEF CacheTick
  <2>2. since' \in [Write -> 0..Oldest]
    <3>1. Oldest \in Nat
      BY TtlAssumption DEF Oldest
    <3>. QED  BY <1>2, <3>1
  <2>. QED  BY <1>1, <1>2, <1>3, <2>1, <2>2 DEF CacheTypeOK
<1>8. IdleReadsAreIdle'
  BY <1>5 DEF IdleReadsAreIdle, Reads
<1>9. VersionsAreSaid'
  <2>1. None \in Said /\ Said' = Said
    BY <1>2 DEF Said
  <2>2. kv'.version \in Said
    BY <1>1, <1>3, <2>1 DEF VersionsAreSaid
  <2>3. \A v \in Version : kv'.entries[v] # NoEntry => v \in Said
    BY <1>1, <1>4 DEF VersionsAreSaid
  <2>4. \A r \in Reader :
          /\ reads'[r].version \in Said \cup {NoVersion}
          /\ reads'[r].step \in {"looking", "storing"} => reads'[r].version # NoVersion
    BY <1>1, <1>5, <2>1, IdleIs DEF VersionsAreSaid
  <2>. QED  BY <1>2, <2>1, <2>2, <2>3, <2>4 DEF VersionsAreSaid
<1>10. NoneWasFlushed'
  BY <1>2 DEF NoneWasFlushed
<1>11. /\ None \in Version /\ kv.left \in 0..VersionTtl
       /\ \A v \in Version : kv.entries[v] # NoEntry => kv.entries[v].left \in 1..CacheTtl
  BY <1>2, KvTyped
<1>12. NoneIsOld(kv)' /\ NoneIsOld(flushed)'
  <2>. SUFFICES ASSUME kv'.version # None
                PROVE  /\ \A r \in Reader : Reads(r)' /\ reads'[r].version = None =>
                              VersionTtl - kv'.left <= reads'[r].age
                       /\ kv'.entries[None] # NoEntry =>
                              VersionTtl - kv'.left <= MaxLoad + CacheTtl - kv'.entries[None].left
    BY <1>2 DEF NoneIsOld
  <2>1. kv.left > 1 /\ kv.version # None /\ kv'.left = kv.left - 1
    BY <1>3, <1>11, TtlAssumption
  <2>2. ASSUME NEW r \in Reader, Reads(r)', reads'[r].version = None
        PROVE  VersionTtl - kv'.left <= reads'[r].age
    <3>1. VersionTtl - kv.left <= reads[r].age /\ reads'[r].age = reads[r].age + 1
      BY <1>1, <1>5, <1>6, <2>1, <2>2 DEF NoneIsOld, Reads
    <3>2. reads[r].age \in Nat
      BY <1>1, ReadTyped
    <3>. QED  BY <1>11, <2>1, <3>1, <3>2, TtlAssumption
  <2>3. ASSUME kv'.entries[None] # NoEntry
        PROVE  VersionTtl - kv'.left <= MaxLoad + CacheTtl - kv'.entries[None].left
    <3>1. VersionTtl - kv.left <= MaxLoad + CacheTtl - kv.entries[None].left
      BY <1>1, <1>4, <1>11, <2>1, <2>3 DEF NoneIsOld
    <3>. QED  BY <1>4, <1>11, <2>1, <2>3, <3>1, TtlAssumption
  <2>. QED  BY <2>2, <2>3
\* When the version ends, nobody reads as if there were none, and nothing is filed so.
<1>13. ASSUME kv.version # None, kv'.version = None
       PROVE  /\ kv'.entries[None] = NoEntry
              /\ \A r \in Reader : Reads(r)' => reads'[r].version # None
  <2>1. kv.left <= 1
    BY <1>3, <1>11, <1>13
  <2>2. ASSUME kv'.entries[None] # NoEntry  PROVE FALSE
    <3>1. VersionTtl - kv.left <= MaxLoad + CacheTtl - kv.entries[None].left
      BY <1>1, <1>4, <1>11, <1>13, <2>2 DEF NoneIsOld
    <3>2. kv.entries[None].left \in 1..CacheTtl
      BY <1>4, <1>11, <2>2
    <3>. QED  BY <1>11, <2>1, <3>1, <3>2, TtlAssumption
  <2>3. ASSUME NEW r \in Reader, Reads(r)', reads'[r].version = None  PROVE FALSE
    <3>1. VersionTtl - kv.left <= reads[r].age /\ reads[r].age < MaxLoad
      BY <1>1, <1>5, <1>6, <1>13, <2>3 DEF NoneIsOld, Reads
    <3>2. reads[r].age \in Nat
      BY <1>1, ReadTyped
    <3>. QED  BY <1>11, <2>1, <3>1, <3>2, TtlAssumption
  <2>. QED  BY <2>2, <2>3
<1>14. TheVersionIsFresh'
  <2>1. CASE kv'.version = kv.version
    <3>1. kv.version \in Version
      BY <1>2, KvTyped
    <3>2. kv'.entries[kv'.version] # NoEntry => kv'.entries[kv'.version].value >= announced'
      BY <1>1, <1>2, <1>4, <2>1, <3>1 DEF TheVersionIsFresh
    <3>3. \A r \in Reader : Knows(r)' /\ reads'[r].version = kv'.version => reads'[r].value >= announced'
      BY <1>1, <1>2, <1>5, <1>6, <2>1 DEF TheVersionIsFresh, Reads
    <3>. QED  BY <3>2, <3>3 DEF TheVersionIsFresh
  <2>2. CASE kv'.version # kv.version
    <3>1. kv'.version = None
      BY <1>3, <2>2
    <3>2. \A r \in Reader : Knows(r)' => Reads(r)'
      BY DEF Knows, Reads
    <3>. QED  BY <1>13, <2>2, <3>1, <3>2 DEF TheVersionIsFresh
  <2>. QED  BY <2>1, <2>2
<1>15. FloorsHold'
  <2>. SUFFICES ASSUME NEW q \in Reader, Reads(q)'
                PROVE  /\ reads'[q].floor <= written'
                       /\ reads'[q].version = NoVersion => reads'[q].floor = 0
                       /\ reads'[q].version # NoVersion =>
                             LET entry == kv'.entries[reads'[q].version] IN
                             entry # NoEntry => entry.value >= reads'[q].floor
                       /\ \A r \in Reader : Knows(r)' /\ reads'[r].version = reads'[q].version =>
                             reads'[r].value >= reads'[q].floor
    BY DEF FloorsHold
  <2>1. Reads(q) /\ reads'[q].floor = reads[q].floor /\ reads'[q].version = reads[q].version
    BY <1>5, <1>6 DEF Reads
  <2>2. reads[q].version \in Version \cup {NoVersion}
    BY <1>1, ReadTyped
  <2>3. \A r \in Reader : Knows(r)' /\ reads'[r].version = reads'[q].version =>
           reads'[r].value >= reads'[q].floor
    BY <1>1, <1>5, <1>6, <2>1 DEF FloorsHold, Reads
  <2>. QED  BY <1>1, <1>2, <1>4, <2>1, <2>2, <2>3 DEF FloorsHold
<1>16. \A n \in Write : since[n] \in Nat /\ since'[n] \in Nat /\ since'[n] <= since[n] + 1
  <2>1. Oldest \in Nat
    BY TtlAssumption DEF Oldest
  <2>. QED  BY <1>2, <2>1
<1>17. AnswersAge'
  <2>1. \A n \in Write : n > written' => since'[n] = 0
    BY <1>1, <1>2 DEF AnswersAge, Write
  <2>2. EntriesAge(kv)' /\ EntriesAge(flushed)'
    <3>. SUFFICES ASSUME NEW v \in Version, kv'.entries[v] # NoEntry,
                         NEW n \in Write, n > kv'.entries[v].value
                  PROVE  since'[n] <= MaxLoad + CacheTtl - kv'.entries[v].left
      BY <1>2 DEF EntriesAge
    <3>1. since[n] <= MaxLoad + CacheTtl - kv.entries[v].left
      BY <1>1, <1>4 DEF AnswersAge, EntriesAge
    <3>. QED  BY <1>4, <1>11, <1>16, <3>1, TtlAssumption
  <2>3. \A r \in Reader : AnswerAge(r)'
    <3>. SUFFICES ASSUME NEW r \in Reader, NEW n \in Write, n > reads'[r].value
                  PROVE  /\ reads'[r].step = "storing" => since'[n] <= reads'[r].age
                         /\ reads'[r].step = "settling" =>
                               since'[n] <= MaxLoad + CacheTtl - 1 + reads'[r].age
      BY DEF AnswerAge
    <3>1. CASE reads[r].step = "idle"
      BY <1>5, <3>1, IdleIs
    <3>2. CASE reads[r].step # "idle"
      <4>1. /\ reads[r].step = "storing" => since[n] <= reads[r].age
            /\ reads[r].step = "settling" => since[n] <= MaxLoad + CacheTtl - 1 + reads[r].age
        BY <1>1, <1>5, <3>2 DEF AnswersAge, AnswerAge
      <4>2. reads[r].age \in Nat
        BY <1>1, ReadTyped
      <4>3. since[n] \in Nat /\ since'[n] \in Nat /\ since'[n] <= since[n] + 1
        BY <1>16
      <4>4. reads'[r].age = reads[r].age + 1 /\ reads'[r].step = reads[r].step
        BY <1>5, <3>2
      <4>. QED  BY <4>1, <4>2, <4>3, <4>4, TtlAssumption
    <3>. QED  BY <3>1, <3>2
  <2>. QED  BY <2>1, <2>2, <2>3 DEF AnswersAge
<1>. QED  BY <1>7, <1>8, <1>9, <1>10, <1>12, <1>14, <1>15, <1>17 DEF CacheInv

LEMMA CacheInvStarts ==
    ASSUME CacheInit
    PROVE  CacheInv
<1>1. /\ kv.version = None /\ kv.left = 0 /\ kv \in Kv /\ flushed = kv
      /\ \A v \in Version : kv.entries[v] = NoEntry
  BY TtlAssumption DEF CacheInit, Kv, Version
<1>2. /\ written = 0 /\ unsaid = {} /\ announced = 0 /\ since = [n \in Write |-> 0]
      /\ reads \in [Reader -> Read] /\ \A r \in Reader : reads[r] = Idle
  BY IdleTyped DEF CacheInit
<1>3. CacheTypeOK
  <2>1. Oldest \in Nat /\ 0 \in 0..Oldest /\ 0 \in 0..MaxWrites
    BY TtlAssumption, WritesAssumption DEF Oldest
  <2>. QED  BY <1>1, <1>2, <2>1 DEF CacheTypeOK
<1>4. None \in Version /\ None \in Said
  BY DEF Version, Said
<1>5. IdleReadsAreIdle /\ NoneWasFlushed /\ NoneIsOld(kv) /\ NoneIsOld(flushed)
  BY <1>1, <1>2 DEF IdleReadsAreIdle, NoneWasFlushed, NoneIsOld
<1>6. VersionsAreSaid
  BY <1>1, <1>2, <1>4, IdleIs DEF VersionsAreSaid
<1>7. TheVersionIsFresh /\ FloorsHold
  BY <1>1, <1>2, <1>4, IdleIs DEF TheVersionIsFresh, FloorsHold, Reads, Knows
<1>8. AnswersAge
  BY <1>1, <1>2, IdleIs DEF AnswersAge, AnswerAge, EntriesAge
<1>. QED  BY <1>3, <1>5, <1>6, <1>7, <1>8 DEF CacheInv

LEMMA CacheInvStep == CacheInv /\ [CacheNext]_cacheVars => CacheInv'
<1>. SUFFICES ASSUME CacheInv, [CacheNext]_cacheVars  PROVE CacheInv'
  OBVIOUS
<1>1. CASE \E r \in Reader, p \in Process : Join(r, p)
  BY <1>1, JoinKept
<1>2. CASE \E r \in Reader : GetVersion(r)
  BY <1>2, GetVersionKept
<1>3. CASE \E r \in Reader : Look(r)
  BY <1>3, LookKept
<1>4. CASE \E r \in Reader : Ask(r)
  BY <1>4, AskKept
<1>5. CASE \E r \in Reader : Store(r)
  BY <1>5, StoreKept
<1>6. CASE \E r \in Reader : Settle(r)
  BY <1>6, SettleKept
<1>7. CASE WriteNote
  BY <1>7, WriteNoteKept
<1>8. CASE \E n \in Write : Invalidate(n)
  BY <1>8, InvalidateKept
<1>9. CASE \E n \in Write : InvalidateFails(n)
  BY <1>9, InvalidateFailsKept
<1>10. CASE Crash
  BY <1>10, CrashKept
<1>11. CASE CacheTick
  BY <1>11, CacheTickKept
<1>12. CASE UNCHANGED cacheVars
  BY <1>12 DEF cacheVars, CacheInv, CacheTypeOK, IdleReadsAreIdle, VersionsAreSaid, Said, NoneWasFlushed,
        NoneIsOld, TheVersionIsFresh, FloorsHold, AnswersAge, AnswerAge, EntriesAge, Reads, Knows
<1>. QED  BY <1>1, <1>2, <1>3, <1>4, <1>5, <1>6, <1>7, <1>8, <1>9, <1>10, <1>11, <1>12 DEF CacheNext

LEMMA CacheInvHolds == CacheSpec => []CacheInv
<1>. QED  BY CacheInvStarts, CacheInvStep, PTL DEF CacheSpec

\* The key-value store, the writes and the reads keep their types: no entry and no version
\* outlives its time.
THEOREM CacheTypeCorrect == CacheSpec => []CacheTypeOK
<1>1. CacheInv => CacheTypeOK
  BY DEF CacheInv
<1>. QED  BY <1>1, CacheInvHolds, PTL

\* Once the new version of a write is committed, no read that learns the version of the page
\* misses that write.
THEOREM AnnouncedIsAlwaysSeen == CacheSpec => []AnnouncedIsSeen
<1>1. CacheInv => AnnouncedIsSeen
  <2>. SUFFICES ASSUME CacheInv, NEW r \in Reader, reads[r].step = "settling", NEW q \in Waiting(r)
                PROVE  reads[r].value >= reads[q].floor
    BY DEF AnnouncedIsSeen
  <2>1. /\ q \in Reader /\ reads[q].version = reads[r].version
        /\ reads[q].step \in {"settling", "joined"}
    BY DEF Waiting
  <2>2. Reads(q) /\ Knows(r)
    BY <2>1 DEF Reads, Knows
  <2>. QED  BY <2>1, <2>2 DEF CacheInv, FloorsHold
<1>. QED  BY <1>1, CacheInvHolds, PTL

\* Whatever fails, no answer misses a write that is older than an entry and two slow reads.
THEOREM NoAnswerIsEverOlder == CacheSpec => []NoAnswerIsOlder
<1>1. CacheInv => NoAnswerIsOlder
  <2>. SUFFICES ASSUME CacheInv, NEW r \in Reader, reads[r].step = "settling",
                       NEW n \in Due, n > reads[r].value
                PROVE  FALSE
    <3>. SUFFICES ASSUME CacheInv, NEW r \in Reader, reads[r].step = "settling", NEW n \in Due
                  PROVE  n <= reads[r].value
      BY DEF NoAnswerIsOlder
    <3>1. reads[r].value \in Nat
      BY ReadTyped DEF CacheInv
    <3>2. n \in Int
      BY DEF Due
    <3>. QED  BY <3>1, <3>2
  <2>1. n \in Write /\ since[n] >= Oldest /\ since[n] \in Nat
    BY WritesAssumption, TtlAssumption DEF Due, CacheInv, CacheTypeOK, Write, Oldest
  <2>2. since[n] <= MaxLoad + CacheTtl - 1 + reads[r].age
    BY <2>1 DEF CacheInv, AnswersAge, AnswerAge
  <2>3. reads[r].age \in Nat /\ reads[r].age <= MaxLoad
    BY ReadTyped DEF CacheInv
  <2>. QED  BY <2>1, <2>2, <2>3, TtlAssumption DEF Oldest
<1>. QED  BY <1>1, CacheInvHolds, PTL

-----------------------------------------------------------------------------
(***************************************************************************)
(* DoneNotices                                                               *)
(***************************************************************************)

\* A read has a notice from when it takes it until it settles it.
Has(r, q) == q \in hands[r].work \/ hands[r].notice = q

\* A read takes its notices one after the other.
OneAfterTheOther ==
    \A r \in Finder :
        /\ hands[r].step = "next" <=> hands[r].notice = NoNotice
        /\ hands[r].notice \notin hands[r].work

\* Nothing is taken, and nothing told, that nobody asked for.
TakenWasAsked ==
    \A q \in Notice : told[q] > 0 \/ (\E r \in Finder : Has(r, q)) => q \in asked

\* Until its time runs out or the row goes, the row of a notice that a read has is the row
\* of that notice, and the claim on it is the claim of that read ...
ClaimsHold ==
    \A r \in Finder, q \in Notice : Has(r, q) /\ q[1] \notin overrun =>
        /\ There(q[1]) /\ rows[q[1]].who = q[2]
        /\ rows[q[1]].claim = hands[r].claim /\ hands[r].claim >= 0

\* ... and no other read has the note.
OneReadHasIt ==
    \A r, s \in Finder, q, z \in Notice :
        Has(r, q) /\ Has(s, z) /\ q[1] = z[1] /\ q[1] \notin overrun => r = s

\* A notice that was told is in no hand but the one that is about to remove its row, and
\* no row of it is left otherwise.
ToldAndGone ==
    \A q \in Notice : told[q] > 0 /\ q \notin excused /\ q[1] \notin overrun =>
        /\ told[q] = 1
        /\ \A r \in Finder : q \notin hands[r].work /\ (hands[r].notice = q => hands[r].step = "left")
        /\ There(q[1]) /\ rows[q[1]].who = q[2] => \E r \in Finder : hands[r].notice = q

\* Who is about to remove a row told its notice, or has nobody to tell.
LeftWasTold ==
    \A r \in Finder : hands[r].step = "left" =>
        told[hands[r].notice] > 0 \/ hands[r].notice \in excused

NoticesInv ==
    /\ NoticesTypeOK /\ OneAfterTheOther /\ TakenWasAsked
    /\ ClaimsHold /\ OneReadHasIt /\ ToldAndGone /\ LeftWasTold

-----------------------------------------------------------------------------
(* Notices and hands.                                                        *)

LEMMA NoticeParts ==
    ASSUME NEW q \in Notice
    PROVE  q[1] \in Note /\ q[2] \in Person /\ q = <<q[1], q[2]>>
BY DEF Notice

LEMMA SameNotice ==
    ASSUME NEW q \in Notice, NEW z \in Notice, q[1] = z[1], q[2] = z[2]
    PROVE  q = z
BY NoticeParts

LEMMA HeldIsHad ==
    ASSUME NEW r \in Finder, NEW q \in Notice
    PROVE  q \in Held(r) <=> Has(r, q)
BY NoticeAssumption DEF Held, Has

LEMMA HadIsInHand ==
    ASSUME NEW r \in Finder, NEW q \in Notice, Has(r, q)
    PROVE  q[1] \in InHand
<1>1. q \in Held(r)
  BY HeldIsHad
<1>2. q \in UNION {Held(v) : v \in Finder}
  BY <1>1
<1>. QED  BY <1>2 DEF InHand

LEMMA HandTyped ==
    ASSUME NoticesTypeOK, NEW r \in Finder
    PROVE  /\ hands[r] \in Hand /\ hands[r].work \subseteq Notice
           /\ hands[r].notice \in Notice \cup {NoNotice}
           /\ hands[r].claim \in RanOut..Claim /\ hands[r].claim \in Int
           /\ hands[r].step \in {"next", "left", "failed"}
BY ClaimAssumption DEF NoticesTypeOK, Hand, RanOut

LEMMA EmptyTyped ==
    /\ Empty \in Hand /\ Empty.work = {} /\ Empty.step = "next" /\ Empty.notice = NoNotice
    /\ Empty.claim = RanOut
BY ClaimAssumption DEF Empty, Hand, RanOut

LEMMA RowTyped ==
    ASSUME NoticesTypeOK, NEW n \in Note, There(n)
    PROVE  /\ rows[n] \in Row /\ rows[n].who \in Person
           /\ rows[n].keeps \in RanOut..Keep /\ rows[n].claim \in Free..Claim
           /\ rows[n].claim \in Int /\ rows[n].keeps \in Int
           /\ <<n, rows[n].who>> \in Notice /\ <<n, rows[n].who>> \in asked
BY KeepAssumption, ClaimAssumption DEF NoticesTypeOK, Row, There, RanOut, Free, Notice

\* A step after which every hand is the same, and the row of what a read has.
LEMMA RowsChange ==
    ASSUME NoticesInv, NoticesTypeOK', UNCHANGED <<hands, told, excused>>,
           asked \subseteq asked', overrun \subseteq overrun',
           \A r \in Finder, q \in Notice : Has(r, q) /\ q[1] \notin overrun' =>
              There(q[1])' /\ rows'[q[1]].who = rows[q[1]].who /\ rows'[q[1]].claim = rows[q[1]].claim,
           \A n \in Note : There(n)' =>
              \/ There(n) /\ rows'[n].who = rows[n].who
              \/ told[<<n, rows'[n].who>>] = 0
    PROVE  NoticesInv'
<1>1. OneAfterTheOther'
  BY DEF NoticesInv, OneAfterTheOther
<1>2. LeftWasTold'
  BY DEF NoticesInv, LeftWasTold
<1>3. TakenWasAsked'
  BY DEF NoticesInv, TakenWasAsked, Has
<1>4. ClaimsHold'
  <2>. SUFFICES ASSUME NEW r \in Finder, NEW q \in Notice, Has(r, q)', q[1] \notin overrun'
                PROVE  /\ There(q[1])' /\ rows'[q[1]].who = q[2]
                       /\ rows'[q[1]].claim = hands[r].claim /\ hands[r].claim >= 0
    BY DEF ClaimsHold
  <2>1. Has(r, q) /\ q[1] \notin overrun
    BY DEF Has
  <2>. QED  BY <2>1 DEF NoticesInv, ClaimsHold
<1>5. OneReadHasIt'
  <2>. SUFFICES ASSUME NEW r \in Finder, NEW s \in Finder, NEW q \in Notice, NEW z \in Notice,
                       Has(r, q)', Has(s, z)', q[1] = z[1], q[1] \notin overrun'
                PROVE  r = s
    BY DEF OneReadHasIt
  <2>1. Has(r, q) /\ Has(s, z) /\ q[1] \notin overrun
    BY DEF Has
  <2>. QED  BY <2>1 DEF NoticesInv, OneReadHasIt
<1>6. ToldAndGone'
  <2>. SUFFICES ASSUME NEW q \in Notice, told[q] > 0, q \notin excused, q[1] \notin overrun'
                PROVE  /\ told[q] = 1
                       /\ \A r \in Finder :
                            q \notin hands[r].work /\ (hands[r].notice = q => hands[r].step = "left")
                       /\ There(q[1])' /\ rows'[q[1]].who = q[2] =>
                            \E r \in Finder : hands[r].notice = q
    BY DEF ToldAndGone
  <2>1. /\ told[q] = 1
        /\ \A r \in Finder :
             q \notin hands[r].work /\ (hands[r].notice = q => hands[r].step = "left")
        /\ There(q[1]) /\ rows[q[1]].who = q[2] => \E r \in Finder : hands[r].notice = q
    BY DEF NoticesInv, ToldAndGone
  <2>2. ASSUME There(q[1])', rows'[q[1]].who = q[2]
        PROVE  There(q[1]) /\ rows[q[1]].who = q[2]
    BY <2>1, <2>2, NoticeParts
  <2>. QED  BY <2>1, <2>2
<1>. QED  BY <1>1, <1>2, <1>3, <1>4, <1>5, <1>6 DEF NoticesInv

-----------------------------------------------------------------------------
(* The people, and the notes.                                                *)

LEMMA WatchKept ==
    ASSUME NoticesInv, NEW n \in Note, NEW p \in Person, Watch(n, p)
    PROVE  NoticesInv'
<1>. DEFINE x == [who |-> p, keeps |-> Keep, claim |-> Free]
<1>1. NoticesTypeOK
  BY DEF NoticesInv
<1>2. x \in Row /\ x # NoRow /\ x.who = p /\ <<n, p>> \in Notice
  BY KeepAssumption, ClaimAssumption, NoticeAssumption DEF Row, RanOut, Free, Notice
<1>3. /\ rows' = [rows EXCEPT ![n] = x] /\ asked' = asked \cup {<<n, p>>}
      /\ n \in indexed /\ ~There(n) /\ <<n, p>> \notin asked
      /\ UNCHANGED <<indexed, hands, told, excused, overrun, faults>>
  BY DEF Watch, ghosts
<1>. HIDE DEF x
<1>4. /\ rows' \in [Note -> Row \cup {NoRow}] /\ rows'[n] = x
      /\ \A m \in Note : m # n => rows'[m] = rows[m]
  BY <1>1, <1>2, <1>3 DEF NoticesTypeOK
<1>5. NoticesTypeOK'
  <2>1. \A m \in Note : rows'[m] # NoRow => m \in indexed' /\ <<m, rows'[m].who>> \in asked'
    BY <1>1, <1>2, <1>3, <1>4 DEF NoticesTypeOK
  <2>2. asked' \subseteq Notice
    BY <1>1, <1>2, <1>3 DEF NoticesTypeOK
  <2>. QED  BY <1>1, <1>3, <1>4, <2>1, <2>2 DEF NoticesTypeOK
<1>6. ASSUME NEW r \in Finder, NEW q \in Notice, Has(r, q), q[1] \notin overrun'
      PROVE  There(q[1])' /\ rows'[q[1]] = rows[q[1]]
  <2>1. There(q[1]) /\ q[1] \in Note
    BY <1>3, <1>6, NoticeParts DEF NoticesInv, ClaimsHold
  <2>. QED  BY <1>3, <1>4, <2>1 DEF There
<1>7. ASSUME NEW m \in Note, There(m)'
      PROVE  \/ There(m) /\ rows'[m].who = rows[m].who
             \/ told[<<m, rows'[m].who>>] = 0
  <2>1. CASE m = n
    <3>1. told[<<n, p>>] \in 0..2
      BY <1>1, <1>2 DEF NoticesTypeOK
    <3>2. ~(told[<<n, p>>] > 0)
      BY <1>2, <1>3 DEF NoticesInv, TakenWasAsked
    <3>. QED  BY <1>2, <1>4, <2>1, <3>1, <3>2
  <2>2. CASE m # n
    BY <1>4, <1>7, <2>2 DEF There
  <2>. QED  BY <2>1, <2>2
<1>. QED  BY <1>3, <1>5, <1>6, <1>7, RowsChange

LEMMA WithdrawnKept ==
    ASSUME NoticesInv, NEW gone \in SUBSET Note, Withdrawn(gone),
           indexed' \subseteq indexed, indexed \ gone \subseteq indexed'
    PROVE  NoticesInv'
<1>1. NoticesTypeOK
  BY DEF NoticesInv
<1>2. /\ rows' = [n \in Note |-> IF n \in gone THEN NoRow ELSE rows[n]]
      /\ overrun' = overrun \cup (gone \cap InHand)
      /\ UNCHANGED <<asked, hands, told, excused, faults>>
  BY DEF Withdrawn
<1>3. NoticesTypeOK'
  <2>1. rows' \in [Note -> Row \cup {NoRow}]
    BY <1>1, <1>2 DEF NoticesTypeOK
  <2>2. overrun' \subseteq Note /\ indexed' \subseteq Note
    BY <1>1, <1>2 DEF NoticesTypeOK
  <2>3. \A m \in Note : rows'[m] # NoRow => m \in indexed' /\ <<m, rows'[m].who>> \in asked'
    BY <1>1, <1>2 DEF NoticesTypeOK
  <2>. QED  BY <1>1, <1>2, <2>1, <2>2, <2>3 DEF NoticesTypeOK
<1>4. ASSUME NEW r \in Finder, NEW q \in Notice, Has(r, q), q[1] \notin overrun'
      PROVE  There(q[1])' /\ rows'[q[1]] = rows[q[1]]
  <2>1. q[1] \notin gone /\ q[1] \notin overrun /\ q[1] \in Note
    BY <1>2, <1>4, HadIsInHand, NoticeParts
  <2>2. There(q[1])
    BY <1>4, <2>1 DEF NoticesInv, ClaimsHold
  <2>. QED  BY <1>2, <2>1, <2>2 DEF There
<1>5. \A m \in Note : There(m)' => There(m) /\ rows'[m].who = rows[m].who
  BY <1>2 DEF There
<1>. QED  BY <1>2, <1>3, <1>4, <1>5, RowsChange

-----------------------------------------------------------------------------
(* take.                                                                     *)

LEMMA ClaimedTyped ==
    ASSUME NoticesInv, NEW taken \in SUBSET Note, \A n \in taken : Claimable(n),
           rows' = Claimed(taken)
    PROVE  /\ rows' \in [Note -> Row \cup {NoRow}]
           /\ \A n \in Note : /\ There(n)' <=> There(n)
                              /\ There(n) => rows'[n].who = rows[n].who
                              /\ n \notin taken => rows'[n] = rows[n]
                              /\ n \in taken => There(n) /\ rows'[n].claim = Claim
           /\ \A n \in Note : rows'[n] # NoRow => n \in indexed /\ <<n, rows'[n].who>> \in asked
           /\ \A r \in Finder, q \in Notice : Has(r, q) /\ q[1] \in taken => q[1] \in overrun
<1>1. NoticesTypeOK
  BY DEF NoticesInv
<1>2. ASSUME NEW n \in Note, There(n)
      PROVE  /\ [rows[n] EXCEPT !.claim = Claim] \in Row
             /\ [rows[n] EXCEPT !.claim = Claim].who = rows[n].who
             /\ [rows[n] EXCEPT !.claim = Claim].claim = Claim
             /\ [rows[n] EXCEPT !.claim = Claim] # NoRow
  <2>1. Claim \in Free..Claim
    BY ClaimAssumption DEF Free
  <2>2. rows[n] \in Row
    BY <1>1, <1>2, RowTyped
  <2>. QED  BY <2>1, <2>2, NoticeAssumption DEF Row
<1>3. \A n \in Note : rows'[n] = IF n \in taken THEN [rows[n] EXCEPT !.claim = Claim] ELSE rows[n]
  BY DEF Claimed
<1>4. \A n \in taken : n \in Note /\ There(n)
  BY DEF Claimable
<1>5. rows' \in [Note -> Row \cup {NoRow}]
  <2>1. \A n \in Note : (IF n \in taken THEN [rows[n] EXCEPT !.claim = Claim] ELSE rows[n]) \in Row \cup {NoRow}
    BY <1>1, <1>2, <1>4 DEF NoticesTypeOK
  <2>. QED  BY <2>1 DEF Claimed
<1>6. \A n \in Note : /\ There(n)' <=> There(n)
                      /\ There(n) => rows'[n].who = rows[n].who
                      /\ n \notin taken => rows'[n] = rows[n]
                      /\ n \in taken => There(n) /\ rows'[n].claim = Claim
  BY <1>2, <1>3, <1>4 DEF There
<1>7. \A n \in Note : rows'[n] # NoRow => n \in indexed /\ <<n, rows'[n].who>> \in asked
  BY <1>1, <1>6 DEF NoticesTypeOK, There
<1>8. ASSUME NEW r \in Finder, NEW q \in Notice, Has(r, q), q[1] \in taken, q[1] \notin overrun
      PROVE  FALSE
  <2>1. rows[q[1]].claim = hands[r].claim /\ hands[r].claim >= 0
    BY <1>8 DEF NoticesInv, ClaimsHold
  <2>2. rows[q[1]].claim \in {Free, RanOut}
    BY <1>8 DEF Claimable
  <2>. QED  BY <2>1, <2>2 DEF Free, RanOut
<1>. QED  BY <1>5, <1>6, <1>7, <1>8

LEMMA TakeUnansweredKept ==
    ASSUME NoticesInv, TakeUnanswered
    PROVE  NoticesInv'
<1>1. NoticesTypeOK
  BY DEF NoticesInv
<1>2. PICK done \in SUBSET Note : rows' = Claimed({n \in done : Claimable(n)})
  BY DEF TakeUnanswered
<1>. DEFINE taken == {n \in done : Claimable(n)}
<1>3. taken \in SUBSET Note /\ (\A n \in taken : Claimable(n)) /\ rows' = Claimed(taken)
  BY <1>2
<1>. HIDE DEF taken
<1>4. UNCHANGED <<indexed, asked, hands, told, excused, overrun>> /\ faults' \in 0..MaxFaults
  BY <1>1, BoundAssumption DEF TakeUnanswered, ghosts, Fault, NoticesTypeOK
<1>5. NoticesTypeOK'
  BY <1>1, <1>3, <1>4, ClaimedTyped DEF NoticesTypeOK
<1>6. ASSUME NEW r \in Finder, NEW q \in Notice, Has(r, q), q[1] \notin overrun'
      PROVE  There(q[1])' /\ rows'[q[1]] = rows[q[1]]
  <2>1. q[1] \notin taken /\ q[1] \in Note
    BY <1>3, <1>4, <1>6, ClaimedTyped, NoticeParts
  <2>2. There(q[1])
    BY <1>4, <1>6 DEF NoticesInv, ClaimsHold
  <2>. QED  BY <1>3, <2>1, <2>2, ClaimedTyped
<1>7. \A n \in Note : There(n)' => There(n) /\ rows'[n].who = rows[n].who
  BY <1>3, ClaimedTyped
<1>. QED  BY <1>4, <1>5, <1>6, <1>7, RowsChange

LEMMA TakeKept ==
    ASSUME NoticesInv, NEW r \in Finder, Take(r)
    PROVE  NoticesInv'
<1>1. NoticesTypeOK /\ (\A q \in Notice : ~Has(r, q))
  BY HeldIsHad DEF NoticesInv, Take
<1>2. PICK done \in SUBSET Note :
        LET taken == {n \in done : Claimable(n)} IN
        /\ rows' = Claimed(taken)
        /\ hands' = [hands EXCEPT ![r] =
                [Empty EXCEPT !.work = {<<n, rows[n].who>> : n \in taken}, !.claim = Claim]]
  BY DEF Take
<1>. DEFINE taken == {n \in done : Claimable(n)}
            work == {<<n, rows[n].who>> : n \in taken}
            x == [Empty EXCEPT !.work = work, !.claim = Claim]
<1>3. /\ taken \in SUBSET Note /\ (\A n \in taken : Claimable(n)) /\ rows' = Claimed(taken)
      /\ hands' = [hands EXCEPT ![r] = x]
  BY <1>2
<1>. HIDE DEF taken
<1>4. UNCHANGED <<indexed, asked, told, excused, overrun, faults>>
  BY DEF Take, ghosts
<1>5. /\ \A n \in taken : There(n) /\ n \in Note
      /\ work \subseteq Notice
      /\ \A q \in work : q[1] \in taken /\ rows[q[1]].who = q[2] /\ q \in asked
  <2>1. ASSUME NEW n \in taken
        PROVE  There(n) /\ <<n, rows[n].who>> \in Notice /\ <<n, rows[n].who>> \in asked
    <3>1. There(n) /\ n \in Note
      BY <1>3 DEF Claimable
    <3>. QED  BY <1>1, <3>1, RowTyped
  <2>2. ASSUME NEW q \in work
        PROVE  q[1] \in taken /\ rows[q[1]].who = q[2] /\ q \in asked /\ q \in Notice
    <3>1. PICK n \in taken : q = <<n, rows[n].who>>
      OBVIOUS
    <3>. QED  BY <2>1, <3>1
  <2>. QED  BY <1>3, <2>1, <2>2
<1>. HIDE DEF work
<1>6. /\ x \in Hand /\ x.work = work /\ x.step = "next" /\ x.notice = NoNotice /\ x.claim = Claim
  <2>1. Claim \in RanOut..Claim
    BY ClaimAssumption DEF RanOut
  <2>. QED  BY <1>5, <2>1, EmptyTyped DEF Hand
<1>. HIDE DEF x
<1>7. /\ hands' \in [Finder -> Hand] /\ hands'[r] = x
      /\ \A s \in Finder : s # r => hands'[s] = hands[s]
  BY <1>1, <1>3, <1>6 DEF NoticesTypeOK
<1>8. \A s \in Finder, q \in Notice : Has(s, q)' <=> (s = r /\ q \in work) \/ (s # r /\ Has(s, q))
  BY <1>6, <1>7, NoticeAssumption DEF Has
<1>9. NoticesTypeOK'
  BY <1>1, <1>3, <1>4, <1>7, ClaimedTyped DEF NoticesTypeOK
<1>10. OneAfterTheOther'
  <2>1. NoNotice \notin work
    BY <1>5, NoticeAssumption
  <2>. QED  BY <1>6, <1>7, <2>1 DEF NoticesInv, OneAfterTheOther
<1>11. TakenWasAsked'
  <2>. SUFFICES ASSUME NEW q \in Notice, told[q] > 0 \/ \E s \in Finder : Has(s, q)'
                PROVE  q \in asked
    BY <1>4 DEF TakenWasAsked
  <2>1. CASE \E s \in Finder : Has(s, q)
    BY <2>1 DEF NoticesInv, TakenWasAsked
  <2>2. CASE told[q] > 0
    BY <2>2 DEF NoticesInv, TakenWasAsked
  <2>3. CASE q \in work
    BY <1>5, <2>3
  <2>. QED  BY <1>8, <2>1, <2>2, <2>3
<1>12. ClaimsHold'
  <2>. SUFFICES ASSUME NEW s \in Finder, NEW q \in Notice, Has(s, q)', q[1] \notin overrun
                PROVE  /\ There(q[1])' /\ rows'[q[1]].who = q[2]
                       /\ rows'[q[1]].claim = hands'[s].claim /\ hands'[s].claim >= 0
    BY <1>4 DEF ClaimsHold
  <2>1. q[1] \in Note
    BY NoticeParts
  <2>2. CASE s = r /\ q \in work
    <3>1. q[1] \in taken /\ There(q[1]) /\ rows[q[1]].who = q[2]
      BY <1>5, <2>2
    <3>2. There(q[1])' /\ rows'[q[1]].who = q[2] /\ rows'[q[1]].claim = Claim
      BY <1>3, <2>1, <3>1, ClaimedTyped
    <3>. QED  BY <1>6, <1>7, <2>2, <3>2, ClaimAssumption
  <2>3. CASE s # r /\ Has(s, q)
    <3>1. /\ There(q[1]) /\ rows[q[1]].who = q[2]
          /\ rows[q[1]].claim = hands[s].claim /\ hands[s].claim >= 0
      BY <2>3 DEF NoticesInv, ClaimsHold
    <3>2. q[1] \notin taken
      BY <1>3, <2>3, ClaimedTyped
    <3>. QED  BY <1>3, <1>7, <2>1, <2>3, <3>1, <3>2, ClaimedTyped
  <2>. QED  BY <1>8, <2>2, <2>3
<1>13. OneReadHasIt'
  <2>. SUFFICES ASSUME NEW s \in Finder, NEW t \in Finder, NEW q \in Notice, NEW z \in Notice,
                       Has(s, q)', Has(t, z)', q[1] = z[1], q[1] \notin overrun
                PROVE  s = t
    BY <1>4 DEF OneReadHasIt
  <2>1. \A v \in Finder, y \in Notice : Has(v, y) /\ y[1] = q[1] => y[1] \notin taken
    BY <1>3, ClaimedTyped
  <2>2. CASE s # r /\ t # r
    BY <1>8, <2>2 DEF NoticesInv, OneReadHasIt
  <2>3. CASE s = r /\ t # r
    BY <1>5, <1>8, <2>1, <2>3
  <2>4. CASE s # r /\ t = r
    BY <1>5, <1>8, <2>1, <2>4
  <2>. QED  BY <2>2, <2>3, <2>4
<1>14. ToldAndGone'
  <2>. SUFFICES ASSUME NEW q \in Notice, told[q] > 0, q \notin excused, q[1] \notin overrun
                PROVE  /\ told[q] = 1
                       /\ \A s \in Finder :
                            q \notin hands'[s].work /\ (hands'[s].notice = q => hands'[s].step = "left")
                       /\ There(q[1])' /\ rows'[q[1]].who = q[2] =>
                            \E s \in Finder : hands'[s].notice = q
    BY <1>4 DEF ToldAndGone
  <2>1. /\ told[q] = 1
        /\ \A s \in Finder :
             q \notin hands[s].work /\ (hands[s].notice = q => hands[s].step = "left")
        /\ There(q[1]) /\ rows[q[1]].who = q[2] => \E s \in Finder : hands[s].notice = q
    BY DEF NoticesInv, ToldAndGone
  <2>2. q \notin work
    <3>1. ASSUME q \in work  PROVE FALSE
      <4>1. q[1] \in taken /\ There(q[1]) /\ rows[q[1]].who = q[2]
        BY <1>5, <3>1
      <4>2. PICK s \in Finder : hands[s].notice = q
        BY <2>1, <4>1
      <4>3. Has(s, q)
        BY <4>2 DEF Has
      <4>. QED  BY <1>3, <4>1, <4>3, ClaimedTyped
    <3>. QED  BY <3>1
  <2>3. \A s \in Finder :
             q \notin hands'[s].work /\ (hands'[s].notice = q => hands'[s].step = "left")
    BY <1>6, <1>7, <2>1, <2>2, NoticeAssumption
  <2>4. ASSUME There(q[1])', rows'[q[1]].who = q[2]
        PROVE  \E s \in Finder : hands'[s].notice = q
    <3>1. There(q[1]) /\ rows[q[1]].who = q[2]
      BY <1>3, <2>4, ClaimedTyped, NoticeParts
    <3>2. PICK s \in Finder : hands[s].notice = q
      BY <2>1, <3>1
    <3>3. s # r
      BY <1>1, <3>2 DEF Has
    <3>. QED  BY <1>7, <3>2, <3>3
  <2>. QED  BY <2>1, <2>3, <2>4
<1>15. LeftWasTold'
  BY <1>4, <1>6, <1>7 DEF NoticesInv, LeftWasTold
<1>. QED  BY <1>9, <1>10, <1>11, <1>12, <1>13, <1>14, <1>15 DEF NoticesInv

-----------------------------------------------------------------------------
(* sendDoneNotices.                                                          *)

LEMMA BecomesTyped ==
    ASSUME NoticesInv, NEW r \in Finder, NEW q \in hands[r].work, hands[r].step = "next",
           NEW step \in {"left", "failed"}, Becomes(r, q, step)
    PROVE  /\ q \in Notice /\ Has(r, q) /\ hands' \in [Finder -> Hand]
           /\ \A s \in Finder : s # r => hands'[s] = hands[s]
           /\ hands'[r].work = hands[r].work \ {q} /\ hands'[r].notice = q
           /\ hands'[r].step = step /\ hands'[r].claim = hands[r].claim
           /\ \A s \in Finder, z \in Notice : Has(s, z)' <=> Has(s, z)
<1>1. NoticesTypeOK /\ hands[r].notice = NoNotice
  BY DEF NoticesInv, OneAfterTheOther
<1>2. /\ hands[r] \in Hand /\ q \in Notice /\ step \in {"next", "left", "failed"}
      /\ hands[r].work \ {q} \subseteq Notice
  BY <1>1, HandTyped
<1>. DEFINE x == [hands[r] EXCEPT !.work = @ \ {q}, !.notice = q, !.step = step]
<1>3. /\ x \in Hand /\ x.work = hands[r].work \ {q} /\ x.notice = q /\ x.step = step
      /\ x.claim = hands[r].claim
  BY <1>2 DEF Hand
<1>4. hands' = [hands EXCEPT ![r] = x]
  BY <1>1 DEF Becomes, NoticesTypeOK
<1>. HIDE DEF x
<1>5. /\ hands' \in [Finder -> Hand] /\ hands'[r] = x
      /\ \A s \in Finder : s # r => hands'[s] = hands[s]
  BY <1>1, <1>3, <1>4 DEF NoticesTypeOK
<1>6. \A s \in Finder, z \in Notice : Has(s, z)' <=> Has(s, z)
  BY <1>1, <1>2, <1>3, <1>5, NoticeAssumption DEF Has
<1>. QED  BY <1>2, <1>3, <1>5, <1>6 DEF Has

\* What each of the four outcomes of a message keeps: told only grows, by the notice at
\* hand, and a notice that was told leaves, or is excused.
LEMMA SentOn ==
    ASSUME NoticesInv, NEW r \in Finder, NEW q \in hands[r].work, hands[r].step = "next",
           NEW step \in {"left", "failed"}, Becomes(r, q, step),
           UNCHANGED <<rows, indexed, asked, overrun>>,
           faults' \in 0..MaxFaults, excused' \in SUBSET Notice, excused \subseteq excused',
           told' \in [Notice -> 0..2],
           \A z \in Notice : z # q => told'[z] = told[z],
           told'[q] > 0 => step = "left" \/ q \in excused' \/ q[1] \in overrun,
           step = "left" => told'[q] > 0 \/ q \in excused',
           told[q] = 0 => told'[q] <= 1, told[q] > 0 => told'[q] > 0
    PROVE  NoticesInv'
<1>1. NoticesTypeOK
  BY DEF NoticesInv
<1>2. /\ q \in Notice /\ Has(r, q) /\ hands' \in [Finder -> Hand]
      /\ \A s \in Finder : s # r => hands'[s] = hands[s]
      /\ hands'[r].work = hands[r].work \ {q} /\ hands'[r].notice = q
      /\ hands'[r].step = step /\ hands'[r].claim = hands[r].claim
      /\ \A s \in Finder, z \in Notice : Has(s, z)' <=> Has(s, z)
  BY BecomesTyped
<1>3. NoticesTypeOK'
  BY <1>1, <1>2 DEF NoticesTypeOK
<1>4. OneAfterTheOther'
  BY <1>2, NoticeAssumption DEF NoticesInv, OneAfterTheOther
<1>5. TakenWasAsked'
  <2>. SUFFICES ASSUME NEW z \in Notice, told'[z] > 0 \/ \E s \in Finder : Has(s, z)'
                PROVE  z \in asked
    BY DEF TakenWasAsked
  <2>1. CASE z = q
    BY <1>2, <2>1 DEF NoticesInv, TakenWasAsked
  <2>2. CASE z # q
    BY <1>2, <2>2 DEF NoticesInv, TakenWasAsked
  <2>. QED  BY <2>1, <2>2
<1>6. ClaimsHold'
  <2>. SUFFICES ASSUME NEW s \in Finder, NEW z \in Notice, Has(s, z)', z[1] \notin overrun
                PROVE  /\ There(z[1]) /\ rows[z[1]].who = z[2]
                       /\ rows[z[1]].claim = hands'[s].claim /\ hands'[s].claim >= 0
    BY DEF ClaimsHold, There
  <2>1. Has(s, z) /\ hands'[s].claim = hands[s].claim
    BY <1>2
  <2>. QED  BY <2>1 DEF NoticesInv, ClaimsHold
<1>7. OneReadHasIt'
  <2>. SUFFICES ASSUME NEW s \in Finder, NEW t \in Finder, NEW y \in Notice, NEW z \in Notice,
                       Has(s, y)', Has(t, z)', y[1] = z[1], y[1] \notin overrun
                PROVE  s = t
    BY DEF OneReadHasIt
  <2>1. Has(s, y) /\ Has(t, z)
    BY <1>2
  <2>. QED  BY <2>1 DEF NoticesInv, OneReadHasIt
<1>8. ToldAndGone'
  <2>. SUFFICES ASSUME NEW z \in Notice, told'[z] > 0, z \notin excused', z[1] \notin overrun
                PROVE  /\ told'[z] = 1
                       /\ \A s \in Finder :
                            z \notin hands'[s].work /\ (hands'[s].notice = z => hands'[s].step = "left")
                       /\ There(z[1]) /\ rows[z[1]].who = z[2] =>
                            \E s \in Finder : hands'[s].notice = z
    BY DEF ToldAndGone, There
  <2>1. CASE z = q
    <3>1. told[q] = 0
      <4>1. told[q] \in 0..2
        BY <1>1, <1>2 DEF NoticesTypeOK
      <4>2. ~(told[q] > 0)
        BY <2>1 DEF NoticesInv, ToldAndGone
      <4>. QED  BY <4>1, <4>2
    <3>2. told'[z] = 1
      <4>1. told'[z] \in 0..2 /\ told'[z] <= 1
        BY <2>1, <3>1
      <4>. QED  BY <4>1
    <3>3. ASSUME NEW s \in Finder, s # r, Has(s, q)  PROVE FALSE
      BY <1>2, <2>1, <3>3 DEF NoticesInv, OneReadHasIt
    <3>4. \A s \in Finder :
             z \notin hands'[s].work /\ (hands'[s].notice = z => hands'[s].step = "left")
      BY <1>2, <2>1, <3>3 DEF Has
    <3>. QED  BY <1>2, <2>1, <3>2, <3>4
  <2>2. CASE z # q
    <3>1. /\ told[z] = 1
          /\ \A s \in Finder :
               z \notin hands[s].work /\ (hands[s].notice = z => hands[s].step = "left")
          /\ There(z[1]) /\ rows[z[1]].who = z[2] => \E s \in Finder : hands[s].notice = z
      BY <2>2 DEF NoticesInv, ToldAndGone
    <3>2. hands[r].notice # z
      BY NoticeAssumption DEF NoticesInv, OneAfterTheOther
    <3>. QED  BY <1>2, <2>2, <3>1, <3>2
  <2>. QED  BY <2>1, <2>2
<1>9. LeftWasTold'
  <2>. SUFFICES ASSUME NEW s \in Finder, hands'[s].step = "left"
                PROVE  told'[hands'[s].notice] > 0 \/ hands'[s].notice \in excused'
    BY DEF LeftWasTold
  <2>1. CASE s = r
    BY <1>2, <2>1
  <2>2. CASE s # r
    <3>1. hands'[s] = hands[s] /\ hands[s].step = "left"
      BY <1>2, <2>2
    <3>2. told[hands[s].notice] > 0 \/ hands[s].notice \in excused
      BY <3>1 DEF NoticesInv, LeftWasTold
    <3>3. CASE hands[s].notice = q
      BY <3>1, <3>2, <3>3
    <3>4. CASE hands[s].notice # q
      <4>1. hands[s].notice \in Notice
        BY <1>1, <3>1, HandTyped DEF NoticesInv, OneAfterTheOther
      <4>. QED  BY <3>1, <3>2, <3>4, <4>1
    <3>. QED  BY <3>3, <3>4
  <2>. QED  BY <2>1, <2>2
<1>. QED  BY <1>3, <1>4, <1>5, <1>6, <1>7, <1>8, <1>9 DEF NoticesInv

LEMMA SendKept ==
    ASSUME NoticesInv, NEW r \in Finder, Send(r)
    PROVE  NoticesInv'
<1>1. NoticesTypeOK /\ hands[r].step = "next" /\ UNCHANGED <<rows, indexed, asked, overrun>>
  BY DEF NoticesInv, Send, table
<1>2. PICK q \in hands[r].work : Nobody(r, q) \/ Leaves(r, q) \/ Refused(r, q) \/ Unanswered(r, q)
  BY DEF Send
<1>3. q \in Notice
  BY <1>1, HandTyped
<1>4. told[q] \in 0..2 /\ told \in [Notice -> 0..2] /\ excused \in SUBSET Notice /\ faults \in 0..MaxFaults
  BY <1>1, <1>3 DEF NoticesTypeOK
<1>5. Tell(q) => /\ told' \in [Notice -> 0..2] /\ told'[q] = (IF told[q] = 2 THEN 2 ELSE told[q] + 1)
                 /\ \A z \in Notice : z # q => told'[z] = told[z]
  <2>1. (IF told[q] = 2 THEN 2 ELSE told[q] + 1) \in 0..2
    BY <1>4
  <2>. QED  BY <1>3, <1>4, <2>1 DEF Tell
<1>6. Fault => faults' \in 0..MaxFaults
  BY <1>4, BoundAssumption DEF Fault
<1>7. CASE Nobody(r, q)
  <2>1. /\ Becomes(r, q, "left") /\ excused' = excused \cup {q} /\ told' = told /\ faults' = faults
    BY <1>7 DEF Nobody
  <2>. QED  BY <1>1, <1>3, <1>4, <2>1, SentOn
<1>8. CASE Leaves(r, q)
  <2>1. /\ Becomes(r, q, "left") /\ Tell(q) /\ excused' = excused /\ faults' = faults
    BY <1>8 DEF Leaves
  <2>2. told'[q] > 0 /\ (told[q] = 0 => told'[q] <= 1)
    BY <1>4, <1>5, <2>1
  <2>. QED  BY <1>1, <1>3, <1>4, <1>5, <2>1, <2>2, SentOn
<1>9. CASE Refused(r, q)
  <2>1. /\ Becomes(r, q, "failed") /\ excused' = excused /\ told' = told /\ faults' = faults
    BY <1>9 DEF Refused
  <2>2. told[q] > 0 => q \in excused \/ q[1] \in overrun
    BY <1>3 DEF NoticesInv, ToldAndGone
  <2>. QED  BY <1>1, <1>3, <1>4, <2>1, <2>2, SentOn
<1>10. CASE Unanswered(r, q)
  <2>1. /\ Becomes(r, q, "failed") /\ Tell(q) /\ excused' = excused \cup {q} /\ faults' \in 0..MaxFaults
    BY <1>6, <1>10 DEF Unanswered
  <2>2. told'[q] > 0 /\ (told[q] = 0 => told'[q] <= 1)
    BY <1>4, <1>5, <2>1
  <2>. QED  BY <1>1, <1>3, <1>4, <1>5, <2>1, <2>2, SentOn
<1>. QED  BY <1>2, <1>7, <1>8, <1>9, <1>10

-----------------------------------------------------------------------------
(* A read lets go of a notice: it removed the row, gave the claim back, or   *)
(* neither.                                                                   *)

LEMMA SettledTyped ==
    ASSUME NoticesTypeOK, NEW r \in Finder, Settled(r)
    PROVE  /\ hands' \in [Finder -> Hand]
           /\ \A s \in Finder : s # r => hands'[s] = hands[s]
           /\ hands'[r].work \subseteq hands[r].work /\ hands'[r].notice = NoNotice
           /\ hands'[r].step = "next"
           /\ hands'[r].work # {} => hands'[r].claim = hands[r].claim
<1>. DEFINE y == [hands[r] EXCEPT !.step = "next", !.notice = NoNotice]
            x == IF hands[r].work = {} THEN Empty ELSE y
<1>1. /\ y \in Hand /\ y.work = hands[r].work /\ y.notice = NoNotice /\ y.step = "next"
      /\ y.claim = hands[r].claim
  BY HandTyped DEF Hand
<1>2. hands' = [hands EXCEPT ![r] = x]
  BY DEF Settled, NoticesTypeOK
<1>. HIDE DEF y
<1>3. /\ x \in Hand /\ x.work \subseteq hands[r].work /\ x.notice = NoNotice /\ x.step = "next"
      /\ x.work # {} => x.claim = hands[r].claim
  BY <1>1, EmptyTyped
<1>. HIDE DEF x
<1>. QED  BY <1>2, <1>3 DEF NoticesTypeOK

LEMMA LetGo ==
    ASSUME NoticesInv, NEW r \in Finder,
           hands' \in [Finder -> Hand], \A s \in Finder : s # r => hands'[s] = hands[s],
           hands'[r].work \subseteq hands[r].work, hands'[r].notice = NoNotice,
           hands'[r].step = "next", hands'[r].work # {} => hands'[r].claim = hands[r].claim,
           UNCHANGED <<indexed, asked, told, overrun>>,
           rows' \in [Note -> Row \cup {NoRow}],
           \A n \in Note : There(n)' => There(n) /\ rows'[n].who = rows[n].who,
           \A n \in Note : \/ rows'[n] = rows[n]
                           \/ hands[r].notice \in Notice /\ hands[r].notice[1] = n,
           excused' \in SUBSET Notice, excused \subseteq excused', faults' \in 0..MaxFaults,
           hands[r].step = "left" => hands[r].notice \in excused' \/ rows'[hands[r].notice[1]] = NoRow
    PROVE  NoticesInv'
<1>1. NoticesTypeOK
  BY DEF NoticesInv
<1>2. \A s \in Finder, q \in Notice :
        Has(s, q)' => /\ Has(s, q) /\ hands'[s].claim = hands[s].claim
                      /\ s = r => q \in hands[r].work
  BY NoticeAssumption DEF Has
<1>3. NoticesTypeOK'
  BY <1>1 DEF NoticesTypeOK, There
<1>4. OneAfterTheOther'
  <2>1. NoNotice \notin hands[r].work
    BY <1>1, HandTyped, NoticeAssumption
  <2>. QED  BY <2>1 DEF NoticesInv, OneAfterTheOther
<1>5. TakenWasAsked'
  BY <1>2 DEF NoticesInv, TakenWasAsked
<1>6. ClaimsHold'
  <2>. SUFFICES ASSUME NEW s \in Finder, NEW q \in Notice, Has(s, q)', q[1] \notin overrun
                PROVE  /\ There(q[1])' /\ rows'[q[1]].who = q[2]
                       /\ rows'[q[1]].claim = hands'[s].claim /\ hands'[s].claim >= 0
    BY DEF ClaimsHold
  <2>1. Has(s, q) /\ hands'[s].claim = hands[s].claim /\ (s = r => q \in hands[r].work)
    BY <1>2
  <2>2. /\ There(q[1]) /\ rows[q[1]].who = q[2]
        /\ rows[q[1]].claim = hands[s].claim /\ hands[s].claim >= 0
    BY <2>1 DEF NoticesInv, ClaimsHold
  <2>3. ASSUME hands[r].notice \in Notice, hands[r].notice[1] = q[1]
        PROVE  FALSE
    <3>1. Has(r, hands[r].notice)
      BY DEF Has
    <3>2. s = r
      BY <2>1, <2>3, <3>1 DEF NoticesInv, OneReadHasIt
    <3>3. rows[q[1]].who = hands[r].notice[2]
      BY <2>3, <3>1 DEF NoticesInv, ClaimsHold
    <3>4. hands[r].notice = q
      BY <2>2, <2>3, <3>3, SameNotice
    <3>. QED  BY <2>1, <3>2, <3>4 DEF NoticesInv, OneAfterTheOther
  <2>4. rows'[q[1]] = rows[q[1]]
    BY <2>3, NoticeParts
  <2>. QED  BY <2>1, <2>2, <2>4 DEF There
<1>7. OneReadHasIt'
  BY <1>2 DEF NoticesInv, OneReadHasIt
<1>8. ToldAndGone'
  <2>. SUFFICES ASSUME NEW q \in Notice, told[q] > 0, q \notin excused', q[1] \notin overrun
                PROVE  /\ told[q] = 1
                       /\ \A s \in Finder :
                            q \notin hands'[s].work /\ (hands'[s].notice = q => hands'[s].step = "left")
                       /\ There(q[1])' /\ rows'[q[1]].who = q[2] =>
                            \E s \in Finder : hands'[s].notice = q
    BY DEF ToldAndGone
  <2>1. /\ told[q] = 1
        /\ \A s \in Finder :
             q \notin hands[s].work /\ (hands[s].notice = q => hands[s].step = "left")
        /\ There(q[1]) /\ rows[q[1]].who = q[2] => \E s \in Finder : hands[s].notice = q
    BY DEF NoticesInv, ToldAndGone
  <2>2. \A s \in Finder :
           q \notin hands'[s].work /\ (hands'[s].notice = q => hands'[s].step = "left")
    BY <2>1, NoticeAssumption
  <2>3. ASSUME There(q[1])', rows'[q[1]].who = q[2]
        PROVE  \E s \in Finder : hands'[s].notice = q
    <3>1. PICK s \in Finder : hands[s].notice = q
      BY <2>1, <2>3, NoticeParts
    <3>2. s # r
      BY <2>1, <2>3, <3>1 DEF There
    <3>. QED  BY <3>1, <3>2
  <2>. QED  BY <2>1, <2>2, <2>3
<1>9. LeftWasTold'
  BY DEF NoticesInv, LeftWasTold
<1>. QED  BY <1>3, <1>4, <1>5, <1>6, <1>7, <1>8, <1>9 DEF NoticesInv

LEMMA NoticeAtHand ==
    ASSUME NoticesInv, NEW r \in Finder, hands[r].step # "next"
    PROVE  /\ hands[r].notice \in Notice /\ hands[r].notice[1] \in Note
           /\ Has(r, hands[r].notice)
<1>1. hands[r].notice \in Notice
  BY HandTyped DEF NoticesInv, OneAfterTheOther
<1>. QED  BY <1>1, NoticeParts DEF Has

LEMMA SentKept ==
    ASSUME NoticesInv, NEW r \in Finder, Sent(r)
    PROVE  NoticesInv'
<1>1. NoticesTypeOK /\ hands[r].notice \in Notice /\ hands[r].notice[1] \in Note
  BY NoticeAtHand DEF NoticesInv, Sent
<1>2. /\ rows' = [rows EXCEPT ![hands[r].notice[1]] = NoRow] /\ Settled(r)
      /\ UNCHANGED <<indexed, asked, told, excused, overrun, faults>>
  BY DEF Sent, ghosts
<1>3. /\ rows' \in [Note -> Row \cup {NoRow}] /\ rows'[hands[r].notice[1]] = NoRow
      /\ \A n \in Note : n # hands[r].notice[1] => rows'[n] = rows[n]
  BY <1>1, <1>2 DEF NoticesTypeOK
<1>4. \A n \in Note : There(n)' => There(n) /\ rows'[n].who = rows[n].who
  BY <1>1, <1>3 DEF There
<1>5. excused' \in SUBSET Notice /\ faults' \in 0..MaxFaults
  BY <1>1, <1>2 DEF NoticesTypeOK
<1>. QED  BY <1>1, <1>2, <1>3, <1>4, <1>5, SettledTyped, LetGo

LEMMA ReleaseKept ==
    ASSUME NoticesInv, NEW r \in Finder, Release(r)
    PROVE  NoticesInv'
<1>. DEFINE n == hands[r].notice[1]
            x == [rows[n] EXCEPT !.claim = Free]
<1>1. NoticesTypeOK /\ hands[r].notice \in Notice /\ n \in Note /\ hands[r].step = "failed"
  BY NoticeAtHand DEF NoticesInv, Release
<1>2. /\ rows' = IF There(n) THEN [rows EXCEPT ![n].claim = Free] ELSE rows
      /\ Settled(r) /\ UNCHANGED <<indexed, asked, told, excused, overrun, faults>>
  BY DEF Release, ghosts
<1>. HIDE DEF n
<1>3. There(n) => x \in Row /\ x.who = rows[n].who /\ x # NoRow
  <2>1. Free \in Free..Claim
    BY ClaimAssumption DEF Free
  <2>. QED  BY <1>1, <2>1, RowTyped, NoticeAssumption DEF Row
<1>4. There(n) => rows' = [rows EXCEPT ![n] = x]
  BY <1>1, <1>2 DEF NoticesTypeOK
<1>. HIDE DEF x
<1>5. /\ rows' \in [Note -> Row \cup {NoRow}]
      /\ \A m \in Note : There(m)' => There(m) /\ rows'[m].who = rows[m].who
      /\ \A m \in Note : m # n => rows'[m] = rows[m]
  <2>1. CASE There(n)
    BY <1>1, <1>3, <1>4, <2>1 DEF NoticesTypeOK, There
  <2>2. CASE ~There(n)
    BY <1>1, <1>2, <2>2 DEF NoticesTypeOK, There
  <2>. QED  BY <2>1, <2>2
<1>6. excused' \in SUBSET Notice /\ faults' \in 0..MaxFaults
  BY <1>1, <1>2 DEF NoticesTypeOK
<1>7. \A m \in Note : rows'[m] = rows[m] \/ hands[r].notice[1] = m
  BY <1>5 DEF n
<1>. QED  BY <1>1, <1>2, <1>5, <1>6, <1>7, SettledTyped, LetGo

\* What a read that stops, or whose statement is refused, leaves excused.
LEMMA NowExcused ==
    ASSUME NoticesInv, NEW r \in Finder, Fault,
           excused' = IF hands[r].step = "left" THEN excused \cup {hands[r].notice} ELSE excused
    PROVE  /\ excused' \in SUBSET Notice /\ excused \subseteq excused' /\ faults' \in 0..MaxFaults
           /\ hands[r].step = "left" => hands[r].notice \in excused'
<1>1. NoticesTypeOK
  BY DEF NoticesInv
<1>2. hands[r].step = "left" => hands[r].notice \in Notice
  BY NoticeAtHand
<1>. QED  BY <1>1, <1>2, BoundAssumption DEF NoticesTypeOK, Fault

LEMMA UnwrittenKept ==
    ASSUME NoticesInv, NEW r \in Finder, Unwritten(r)
    PROVE  NoticesInv'
<1>1. NoticesTypeOK /\ Fault /\ Settled(r) /\ UNCHANGED <<rows, indexed, asked, told, overrun>>
      /\ excused' = IF hands[r].step = "left" THEN excused \cup {hands[r].notice} ELSE excused
  BY DEF NoticesInv, Unwritten, table
<1>2. rows' \in [Note -> Row \cup {NoRow}] /\ \A n \in Note : There(n)' => There(n) /\ rows'[n].who = rows[n].who
  BY <1>1 DEF NoticesTypeOK, There
<1>. QED  BY <1>1, <1>2, NowExcused, SettledTyped, LetGo

LEMMA StopsKept ==
    ASSUME NoticesInv, NEW r \in Finder, Stops(r)
    PROVE  NoticesInv'
<1>1. NoticesTypeOK /\ Fault /\ UNCHANGED <<rows, indexed, asked, told, overrun>>
      /\ hands' = [hands EXCEPT ![r] = Empty]
      /\ excused' = IF hands[r].step = "left" THEN excused \cup {hands[r].notice} ELSE excused
  BY DEF NoticesInv, Stops, table
<1>2. rows' \in [Note -> Row \cup {NoRow}] /\ \A n \in Note : There(n)' => There(n) /\ rows'[n].who = rows[n].who
  BY <1>1 DEF NoticesTypeOK, There
<1>3. /\ hands' \in [Finder -> Hand] /\ hands'[r] = Empty
      /\ \A s \in Finder : s # r => hands'[s] = hands[s]
  BY <1>1, EmptyTyped DEF NoticesTypeOK
<1>4. hands'[r].work = {} /\ hands'[r].notice = NoNotice /\ hands'[r].step = "next"
  BY <1>3, EmptyTyped
<1>. QED  BY <1>1, <1>2, <1>3, <1>4, NowExcused, LetGo

-----------------------------------------------------------------------------
(* Time.                                                                     *)

LEMMA LessTyped ==
    ASSUME NEW low \in {Free, RanOut}, NEW high \in Nat, NEW left \in low..high
    PROVE  /\ Less(left) \in low..high /\ Less(left) \in Int
           /\ left > 0 => Less(left) >= 0
BY DEF Less, Free, RanOut

LEMMA NoticesTickKept ==
    ASSUME NoticesInv, NoticesTick
    PROVE  NoticesInv'
<1>. DEFINE late == {v \in Finder : hands[v].claim <= 0}
            x(n) == [rows[n] EXCEPT !.keeps = Less(@), !.claim = Less(@)]
            h(r) == [hands[r] EXCEPT !.claim = Less(@)]
<1>1. NoticesTypeOK
  BY DEF NoticesInv
<1>2. /\ rows' = [n \in Note |-> IF There(n) THEN x(n) ELSE NoRow]
      /\ hands' = [r \in Finder |-> h(r)]
      /\ overrun' = overrun \cup {q[1] : q \in UNION {Held(r) : r \in late}}
      /\ UNCHANGED <<indexed, asked, told, excused, faults>>
  BY DEF NoticesTick
<1>3. ASSUME NEW n \in Note, There(n)
      PROVE  /\ x(n) \in Row /\ x(n).who = rows[n].who /\ x(n).claim = Less(rows[n].claim)
             /\ x(n) # NoRow
  <2>1. /\ rows[n] \in Row /\ rows[n].keeps \in RanOut..Keep /\ rows[n].claim \in Free..Claim
    BY <1>1, <1>3, RowTyped
  <2>2. Less(rows[n].keeps) \in RanOut..Keep /\ Less(rows[n].claim) \in Free..Claim
    BY <2>1, LessTyped, KeepAssumption, ClaimAssumption
  <2>. QED  BY <2>1, <2>2, NoticeAssumption DEF Row
<1>4. ASSUME NEW r \in Finder
      PROVE  /\ h(r) \in Hand /\ h(r).work = hands[r].work /\ h(r).notice = hands[r].notice
             /\ h(r).step = hands[r].step /\ h(r).claim = Less(hands[r].claim)
  <2>1. hands[r] \in Hand /\ hands[r].claim \in RanOut..Claim
    BY <1>1, HandTyped
  <2>2. Less(hands[r].claim) \in RanOut..Claim
    BY <2>1, LessTyped, ClaimAssumption
  <2>. QED  BY <2>1, <2>2 DEF Hand
<1>. HIDE DEF x, h
<1>5. /\ rows' \in [Note -> Row \cup {NoRow}]
      /\ \A n \in Note : /\ There(n)' <=> There(n)
                         /\ There(n) => /\ rows'[n].who = rows[n].who
                                        /\ rows'[n].claim = Less(rows[n].claim)
  BY <1>2, <1>3 DEF There
<1>6. /\ hands' \in [Finder -> Hand]
      /\ \A r \in Finder : /\ hands'[r].work = hands[r].work /\ hands'[r].notice = hands[r].notice
                           /\ hands'[r].step = hands[r].step
                           /\ hands'[r].claim = Less(hands[r].claim)
  BY <1>2, <1>4
<1>7. \A r \in Finder, q \in Notice : Has(r, q)' <=> Has(r, q)
  BY <1>6 DEF Has
<1>8. overrun \subseteq overrun' /\ overrun' \subseteq Note
  <2>1. \A r \in Finder : Held(r) \subseteq Notice
    BY <1>1, HandTyped DEF Held
  <2>2. {q[1] : q \in UNION {Held(r) : r \in late}} \subseteq Note
    BY <2>1, NoticeParts
  <2>. QED  BY <1>1, <1>2, <2>2 DEF NoticesTypeOK
<1>9. ASSUME NEW r \in Finder, NEW q \in Notice, Has(r, q), q[1] \notin overrun'
      PROVE  hands[r].claim > 0
  <2>1. r \notin late
    <3>1. q \in Held(r)
      BY <1>9, HeldIsHad
    <3>. HIDE DEF late
    <3>2. ASSUME r \in late PROVE FALSE
      <4>1. q \in UNION {Held(v) : v \in late}
        BY <3>1, <3>2
      <4>. QED  BY <1>2, <1>9, <4>1
    <3>. QED  BY <3>2
  <2>2. hands[r].claim \in Int
    BY <1>1, HandTyped
  <2>. QED  BY <2>1, <2>2
<1>10. NoticesTypeOK'
  <2>1. \A n \in Note : rows'[n] # NoRow => n \in indexed' /\ <<n, rows'[n].who>> \in asked'
    BY <1>1, <1>2, <1>5 DEF NoticesTypeOK, There
  <2>. QED  BY <1>1, <1>2, <1>5, <1>6, <1>8, <2>1 DEF NoticesTypeOK
<1>11. OneAfterTheOther'
  BY <1>6 DEF NoticesInv, OneAfterTheOther
<1>12. TakenWasAsked'
  BY <1>2, <1>7 DEF NoticesInv, TakenWasAsked
<1>13. ClaimsHold'
  <2>. SUFFICES ASSUME NEW r \in Finder, NEW q \in Notice, Has(r, q)', q[1] \notin overrun'
                PROVE  /\ There(q[1])' /\ rows'[q[1]].who = q[2]
                       /\ rows'[q[1]].claim = hands'[r].claim /\ hands'[r].claim >= 0
    BY DEF ClaimsHold
  <2>1. Has(r, q) /\ q[1] \notin overrun /\ hands[r].claim > 0 /\ q[1] \in Note
    BY <1>7, <1>8, <1>9, NoticeParts
  <2>2. There(q[1]) /\ rows[q[1]].who = q[2] /\ rows[q[1]].claim = hands[r].claim
    BY <2>1 DEF NoticesInv, ClaimsHold
  <2>3. Less(hands[r].claim) >= 0
    BY <1>1, <2>1, HandTyped, LessTyped, ClaimAssumption
  <2>. QED  BY <1>5, <1>6, <2>1, <2>2, <2>3
<1>14. OneReadHasIt'
  BY <1>7, <1>8 DEF NoticesInv, OneReadHasIt
<1>15. ToldAndGone'
  <2>. SUFFICES ASSUME NEW q \in Notice, told[q] > 0, q \notin excused, q[1] \notin overrun'
                PROVE  /\ told[q] = 1
                       /\ \A r \in Finder :
                            q \notin hands'[r].work /\ (hands'[r].notice = q => hands'[r].step = "left")
                       /\ There(q[1])' /\ rows'[q[1]].who = q[2] =>
                            \E r \in Finder : hands'[r].notice = q
    BY <1>2 DEF ToldAndGone
  <2>1. /\ told[q] = 1
        /\ \A r \in Finder :
             q \notin hands[r].work /\ (hands[r].notice = q => hands[r].step = "left")
        /\ There(q[1]) /\ rows[q[1]].who = q[2] => \E r \in Finder : hands[r].notice = q
    BY <1>8 DEF NoticesInv, ToldAndGone
  <2>. QED  BY <1>5, <1>6, <2>1, NoticeParts
<1>16. LeftWasTold'
  BY <1>2, <1>6 DEF NoticesInv, LeftWasTold
<1>. QED  BY <1>10, <1>11, <1>12, <1>13, <1>14, <1>15, <1>16 DEF NoticesInv

-----------------------------------------------------------------------------
(* The invariant, and what follows from it.                                  *)

LEMMA NoticesInvInit == NoticesInit => NoticesInv
<1>. SUFFICES ASSUME NoticesInit  PROVE NoticesInv
  OBVIOUS
<1>1. \A r \in Finder : hands[r] = Empty
  BY DEF NoticesInit
<1>2. \A r \in Finder, q \in Notice : ~Has(r, q)
  BY <1>1, EmptyTyped, NoticeAssumption DEF Has
<1>3. NoticesTypeOK
  BY EmptyTyped, BoundAssumption DEF NoticesInit, NoticesTypeOK
<1>4. OneAfterTheOther /\ LeftWasTold
  BY <1>1, EmptyTyped DEF OneAfterTheOther, LeftWasTold
<1>5. TakenWasAsked /\ ToldAndGone
  BY <1>2 DEF NoticesInit, TakenWasAsked, ToldAndGone
<1>6. ClaimsHold /\ OneReadHasIt
  BY <1>2 DEF ClaimsHold, OneReadHasIt
<1>. QED  BY <1>3, <1>4, <1>5, <1>6 DEF NoticesInv

LEMMA NoticesInvStep == NoticesInv /\ [NoticesNext]_noticesVars => NoticesInv'
<1>. SUFFICES ASSUME NoticesInv, [NoticesNext]_noticesVars  PROVE NoticesInv'
  OBVIOUS
<1>1. ASSUME NEW n \in Note, NEW p \in Person, Watch(n, p)  PROVE NoticesInv'
  BY <1>1, WatchKept
<1>2. ASSUME NEW n \in Note, Forget(n)  PROVE NoticesInv'
  <2>1. Withdrawn({n}) /\ indexed' = indexed \ {n}
    BY <1>2 DEF Forget
  <2>. QED  BY <2>1, WithdrawnKept
<1>3. ASSUME NEW p \in Person, AccountGoes(p)  PROVE NoticesInv'
  <2>1. Withdrawn({n \in Note : There(n) /\ rows[n].who = p}) /\ indexed' = indexed
    BY <1>3 DEF AccountGoes
  <2>. QED  BY <2>1, WithdrawnKept
<1>4. CASE TurnedOff
  <2>1. Withdrawn(Note) /\ indexed' = indexed
    BY <1>4 DEF TurnedOff
  <2>. QED  BY <2>1, WithdrawnKept
<1>5. CASE Sweep
  <2>1. Withdrawn({n \in Note : There(n) /\ rows[n].keeps = RanOut}) /\ indexed' = indexed
    BY <1>5 DEF Sweep
  <2>. QED  BY <2>1, WithdrawnKept
<1>6. CASE TakeUnanswered
  BY <1>6, TakeUnansweredKept
<1>7. CASE NoticesTick
  BY <1>7, NoticesTickKept
<1>8. ASSUME NEW r \in Finder,
             Take(r) \/ Send(r) \/ Sent(r) \/ Release(r) \/ Unwritten(r) \/ Stops(r)
      PROVE  NoticesInv'
  BY <1>8, TakeKept, SendKept, SentKept, ReleaseKept, UnwrittenKept, StopsKept
<1>9. CASE UNCHANGED noticesVars
  BY <1>9 DEF noticesVars, NoticesInv, NoticesTypeOK, OneAfterTheOther, TakenWasAsked,
              ClaimsHold, OneReadHasIt, ToldAndGone, LeftWasTold, Has, There
<1>. QED  BY <1>1, <1>2, <1>3, <1>4, <1>5, <1>6, <1>7, <1>8, <1>9 DEF NoticesNext

LEMMA NoticesInvHolds == NoticesSpec => []NoticesInv
BY NoticesInvInit, NoticesInvStep, PTL DEF NoticesSpec

\* The rows are of notes of the index and of who asked, and every read has what it took.
THEOREM NoticesTypeCorrect == NoticesSpec => []NoticesTypeOK
<1>1. NoticesInv => NoticesTypeOK
  BY DEF NoticesInv
<1>. QED  BY <1>1, NoticesInvHolds, PTL

\* However many reads find a note done, a person is told of it once, unless the removal failed,
\* the answer of the provider was lost, or a read outlived its claim or the row.
THEOREM EveryoneIsToldOnce == NoticesSpec => []ToldOnce
<1>1. NoticesInv => ToldOnce
  <2>. SUFFICES ASSUME NoticesInv, NEW q \in Notice, told[q] > 1,
                       q \notin excused, q[1] \notin overrun
                PROVE  FALSE
    BY DEF ToldOnce
  <2>1. told[q] \in 0..2
    BY DEF NoticesInv, NoticesTypeOK
  <2>2. told[q] = 1
    BY <2>1 DEF NoticesInv, ToldAndGone
  <2>. QED  BY <2>2
<1>. QED  BY <1>1, NoticesInvHolds, PTL

\* No refused message, lost answer or stop of a process removes the row of a notice that
\* nobody was told of.
THEOREM NoMessageIsLost == NoticesSpec => NothingIsLost
<1>. DEFINE Excuse(n) ==
                \/ told[<<n, rows[n].who>>] > 0 \/ <<n, rows[n].who>> \in excused
                \/ n \in overrun
                \/ rows[n].keeps = RanOut
                \/ n \notin indexed'
                \/ rows[n].who \in Account /\ AccountGoes(rows[n].who)
                \/ TurnedOff
            Lost(n) == /\ There(n) /\ rows'[n] # rows[n]
                       /\ rows'[n] = NoRow \/ rows'[n].who # rows[n].who
<1>1. ASSUME NoticesInv, [NoticesNext]_noticesVars, NEW n \in Note, Lost(n)
      PROVE  Excuse(n)
  <2>1. NoticesTypeOK
    BY <1>1 DEF NoticesInv
  <2>2. ASSUME NEW m \in Note, NEW p \in Person, Watch(m, p)  PROVE Excuse(n)
    <3>1. rows' = [rows EXCEPT ![m] = [who |-> p, keeps |-> Keep, claim |-> Free]] /\ ~There(m)
      BY <2>2 DEF Watch
    <3>. QED  BY <1>1, <2>1, <3>1 DEF NoticesTypeOK
  <2>3. ASSUME NEW m \in Note, Forget(m)  PROVE Excuse(n)
    <3>1. rows' = [k \in Note |-> IF k \in {m} THEN NoRow ELSE rows[k]] /\ indexed' = indexed \ {m}
      BY <2>3 DEF Forget, Withdrawn
    <3>. QED  BY <1>1, <3>1
  <2>4. ASSUME NEW p \in Person, AccountGoes(p)  PROVE Excuse(n)
    <3>1. /\ rows' = [k \in Note |-> IF k \in {m \in Note : There(m) /\ rows[m].who = p} THEN NoRow
                                     ELSE rows[k]]
          /\ p \in Account
      BY <2>4 DEF AccountGoes, Withdrawn
    <3>2. rows[n].who = p
      BY <1>1, <3>1
    <3>. QED  BY <2>4, <3>1, <3>2
  <2>5. CASE Sweep
    <3>1. rows' = [k \in Note |-> IF k \in {m \in Note : There(m) /\ rows[m].keeps = RanOut}
                                  THEN NoRow ELSE rows[k]]
      BY <2>5 DEF Sweep, Withdrawn
    <3>. QED  BY <1>1, <3>1
  <2>6. ASSUME NEW taken \in SUBSET Note, \A k \in taken : Claimable(k), rows' = Claimed(taken)
        PROVE  FALSE
    <3>1. There(n)' /\ rows'[n].who = rows[n].who
      BY <1>1, <2>6, ClaimedTyped
    <3>. QED  BY <1>1, <3>1 DEF There
  <2>7. CASE TakeUnanswered
    <3>1. PICK done \in SUBSET Note : rows' = Claimed({k \in done : Claimable(k)})
      BY <2>7 DEF TakeUnanswered
    <3>. QED  BY <2>6, <3>1
  <2>8. ASSUME NEW r \in Finder, Take(r)  PROVE Excuse(n)
    <3>1. PICK done \in SUBSET Note : rows' = Claimed({k \in done : Claimable(k)})
      BY <2>8 DEF Take
    <3>. QED  BY <2>6, <3>1
  <2>9. ASSUME NEW r \in Finder, Sent(r)  PROVE Excuse(n)
    <3>1. /\ rows' = [rows EXCEPT ![hands[r].notice[1]] = NoRow] /\ hands[r].step = "left"
          /\ hands[r].notice \in Notice /\ Has(r, hands[r].notice)
      BY <1>1, <2>9, NoticeAtHand DEF Sent
    <3>2. n = hands[r].notice[1]
      BY <1>1, <2>1, <3>1 DEF NoticesTypeOK
    <3>3. n \in overrun \/ rows[n].who = hands[r].notice[2]
      BY <1>1, <3>1, <3>2 DEF NoticesInv, ClaimsHold
    <3>4. n \in overrun \/ <<n, rows[n].who>> = hands[r].notice
      BY <3>1, <3>2, <3>3, NoticeParts
    <3>5. told[hands[r].notice] > 0 \/ hands[r].notice \in excused
      BY <1>1, <3>1 DEF NoticesInv, LeftWasTold
    <3>. QED  BY <3>4, <3>5
  <2>10. ASSUME NEW r \in Finder, Release(r)  PROVE Excuse(n)
    <3>1. rows' = IF There(hands[r].notice[1]) THEN [rows EXCEPT ![hands[r].notice[1]].claim = Free]
                  ELSE rows
      BY <2>10 DEF Release
    <3>2. rows[n] \in Row
      BY <1>1, <2>1, RowTyped
    <3>3. [rows[n] EXCEPT !.claim = Free] # NoRow /\ [rows[n] EXCEPT !.claim = Free].who = rows[n].who
      <4>1. Free \in Free..Claim
        BY ClaimAssumption DEF Free
      <4>. QED  BY <3>2, <4>1, NoticeAssumption DEF Row
    <3>4. rows'[n] = rows[n] \/ rows'[n] = [rows[n] EXCEPT !.claim = Free]
      BY <2>1, <3>1 DEF NoticesTypeOK
    <3>. QED  BY <1>1, <3>3, <3>4
  <2>11. CASE NoticesTick
    <3>1. rows'[n] = [rows[n] EXCEPT !.keeps = Less(@), !.claim = Less(@)]
      BY <1>1, <2>11 DEF NoticesTick
    <3>2. rows[n] \in Row /\ rows[n].keeps \in RanOut..Keep /\ rows[n].claim \in Free..Claim
      BY <1>1, <2>1, RowTyped
    <3>3. Less(rows[n].keeps) \in RanOut..Keep /\ Less(rows[n].claim) \in Free..Claim
      BY <3>2, LessTyped, KeepAssumption, ClaimAssumption
    <3>. QED  BY <1>1, <3>1, <3>2, <3>3, NoticeAssumption DEF Row
  <2>12. ASSUME rows' = rows  PROVE FALSE
    BY <1>1, <2>12
  <2>. HIDE DEF Excuse, Lost
  <2>13. ASSUME NEW r \in Finder, Send(r) \/ Unwritten(r) \/ Stops(r)  PROVE Excuse(n)
    BY <2>12, <2>13 DEF Send, Unwritten, Stops, table
  <2>14. CASE TurnedOff
    BY <2>14 DEF Excuse
  <2>15. CASE UNCHANGED noticesVars
    BY <2>12, <2>15 DEF noticesVars
  <2>. QED  BY <1>1, <2>2, <2>3, <2>4, <2>5, <2>7, <2>8, <2>9, <2>10, <2>11, <2>13, <2>14, <2>15
            DEF NoticesNext
<1>2. NoticesInv /\ [NoticesNext]_noticesVars =>
        [\A n \in Note : There(n) /\ rows'[n] # rows[n]
              /\ (rows'[n] = NoRow \/ rows'[n].who # rows[n].who) =>
          \/ told[<<n, rows[n].who>>] > 0 \/ <<n, rows[n].who>> \in excused
          \/ n \in overrun
          \/ rows[n].keeps = RanOut
          \/ n \notin indexed'
          \/ rows[n].who \in Account /\ AccountGoes(rows[n].who)
          \/ TurnedOff]_noticesVars
  BY <1>1
<1>. QED  BY <1>2, NoticesInvHolds, PTL DEF NoticesSpec, NothingIsLost
=============================================================================
