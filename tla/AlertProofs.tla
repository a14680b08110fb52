----------------------------- MODULE AlertProofs -----------------------------
(***************************************************************************)
(* From snapshot to signal, for any number of types, any length of the     *)
(* event array and of the queue, and any profile; and the counting of      *)
(* confirmations, for any configurations saved between the snapshots.      *)
(*                                                                         *)
(* The events of a batch, the reminders that fall due and the events of    *)
(* the types are folded over with recursive functions.  What they compute  *)
(* is proved by induction on the index; the induction principle is itself  *)
(* a lemma, from the well-foundedness of < on Nat.                         *)
(***************************************************************************)
EXTENDS AlertPipeline, AlertConfirmation, SequenceTheorems, WellFoundedInduction, TLAPS

-----------------------------------------------------------------------------
(* Induction *)

\* Every set of naturals has a least element.
LEMMA LeastNatural ==
  ASSUME NEW S \in SUBSET Nat, S # {}
  PROVE  \E x \in S : \A y \in S : x <= y
<1> DEFINE Less == OpToRel(<, Nat)
<1>1. IsWellFoundedOn(Less, Nat)
  BY NatLessThanWellFounded
<1>2. \A x, y \in Nat : x < y => <<x, y>> \in Less
  BY DEF OpToRel
<1> HIDE DEF Less
<1>3. PICK x \in S : \A y \in S : ~(<<y, x>> \in Less)
  BY <1>1, WFMin
<1>4. \A y \in S : ~(y < x)
  BY <1>2, <1>3
<1>5. \A y \in S : x <= y
  BY <1>4
<1>6. QED
  BY <1>5

\* Min of the community modules, which the queue searches are written with.
LEMMA MinIsLeast ==
  ASSUME NEW S \in SUBSET Nat, S # {}
  PROVE  Min(S) \in S /\ \A y \in S : Min(S) <= y
BY LeastNatural, Zenon DEF Min

\* Induction from first to last, as a set that is closed under "plus one".
LEMMA Upwards ==
  ASSUME NEW first \in Nat, NEW last \in Nat, NEW D,
         first \in D, \A i \in first..(last - 1) : i \in D => i + 1 \in D
  PROVE  \A i \in first..last : i \in D
<1> DEFINE Bad == {i \in first..last : i \notin D}
<1> SUFFICES ASSUME Bad # {}
             PROVE  FALSE
  OBVIOUS
<1>1. Bad \in SUBSET Nat
  OBVIOUS
<1>2. PICK x \in Bad : \A y \in Bad : x <= y
  BY <1>1, LeastNatural
<1>3. x - 1 \in first..(last - 1) /\ x - 1 \notin Bad
  BY <1>2
<1>4. x - 1 \in D /\ (x - 1) + 1 = x
  BY <1>3
<1>5. QED
  BY <1>2, <1>3, <1>4

\* The functions that a recursion from first to last can describe when every
\* step stays in S.
Steps(first, last, S) == [(first + 1)..last -> [S -> S]]

Solutions(first, last, S, base, step) ==
  {f \in [first..last -> S] :
     f[first] = base /\ \A i \in (first + 1)..last : f[i] = step[i][f[i - 1]]}

\* Such a recursion has a solution.
LEMMA FoldExists ==
  ASSUME NEW first \in Nat, NEW last \in Nat, first <= last,
         NEW S, NEW base \in S, NEW step \in Steps(first, last, S)
  PROVE  Solutions(first, last, S, base, step) # {}
<1> DEFINE Solves(f, k) ==
             f[first] = base /\ \A i \in (first + 1)..k : f[i] = step[i][f[i - 1]]
           D == {k \in first..last : \E f \in [first..k -> S] : Solves(f, k)}
<1>1. first \in D
  <2> DEFINE f == [i \in first..first |-> base]
  <2>1. f \in [first..first -> S] /\ Solves(f, first)
    OBVIOUS
  <2> HIDE DEF f
  <2>2. QED
    BY <2>1
<1>2. ASSUME NEW k \in first..(last - 1), k \in D
      PROVE  k + 1 \in D
  <2>1. PICK f \in [first..k -> S] : Solves(f, k)
    BY <1>2
  <2>2. step[k + 1] \in [S -> S] /\ f[k] \in S
    BY DEF Steps
  <2>3. step[k + 1][f[k]] \in S
    BY <2>2
  <2> DEFINE g == [i \in first..(k + 1) |-> IF i <= k THEN f[i] ELSE step[k + 1][f[k]]]
  <2>4. g \in [first..(k + 1) -> S] /\ g[first] = base
    BY <2>1, <2>3
  <2>5. ASSUME NEW i \in (first + 1)..(k + 1)
        PROVE  g[i] = step[i][g[i - 1]]
    <3>1. CASE i <= k
      <4>1. g[i] = f[i] /\ g[i - 1] = f[i - 1] /\ i \in (first + 1)..k
        BY <3>1
      <4>2. QED
        BY <2>1, <4>1
    <3>2. CASE i = k + 1
      <4>1. g[i] = step[k + 1][f[k]] /\ g[i - 1] = f[k]
        BY <3>2
      <4>2. QED
        BY <3>2, <4>1
    <3>3. QED
      BY <3>1, <3>2
  <2> HIDE DEF g
  <2>6. Solves(g, k + 1) /\ k + 1 \in first..last
    BY <2>4, <2>5
  <2>7. QED
    BY <2>4, <2>6
<1>3. \A k \in first..last : k \in D
  <2> HIDE DEF D
  <2>1. QED
    BY <1>1, <1>2, Upwards
<1>4. PICK f \in [first..last -> S] : Solves(f, last)
  BY <1>3
<1>5. QED
  BY <1>4 DEF Solutions

-----------------------------------------------------------------------------
(* The queue *)

\* InsertAt, entry by entry.
LEMMA InsertAtEntries ==
  ASSUME NEW S, NEW q \in Seq(S), NEW e \in S, NEW k \in 1..(Len(q) + 1)
  PROVE  /\ InsertAt(q, k, e) \in Seq(S)
         /\ Len(InsertAt(q, k, e)) = Len(q) + 1
         /\ \A i \in 1..(Len(q) + 1) :
              InsertAt(q, k, e)[i] = IF i < k THEN q[i]
                                     ELSE IF i = k THEN e ELSE q[i - 1]
<1> DEFINE l == SubSeq(q, 1, k - 1)
           r == SubSeq(q, k, Len(q))
<1>1. Len(q) \in Nat
  BY LenProperties
<1>2. /\ l \in Seq(S) /\ Len(l) = k - 1
      /\ \A i \in 1..(k - 1) : l[i] = q[i]
  BY <1>1, SubSeqProperties
<1>3. /\ r \in Seq(S) /\ Len(r) = Len(q) + 1 - k
      /\ \A i \in 1..(Len(q) + 1 - k) : r[i] = q[k + i - 1]
  BY <1>1, SubSeqProperties
<1>4. <<e>> \in Seq(S) /\ Len(<<e>>) = 1 /\ <<e>>[1] = e
  OBVIOUS
<1>5. InsertAt(q, k, e) = (l \o <<e>>) \o r
  BY DEF InsertAt
<1> HIDE DEF l, r
<1>6. QED
  BY <1>1, <1>2, <1>3, <1>4, <1>5

\* The queue is sorted by rank: what waits longer behind is never more urgent.
ByRank(q) == \A i, j \in 1..Len(q) : i < j => Rank(q[i].what) >= Rank(q[j].what)

\* push() coalesces: nothing waits twice.
NoDouble(q) == \A i, j \in 1..Len(q) : q[i].what = q[j].what => i = j

QueueOK(q) ==
  /\ q \in Seq(Entries)
  /\ Len(q) <= Depth
  /\ NoDouble(q)
  /\ ByRank(q)

LEMMA RankType == \A e \in Entries : e.what \in Notifications /\ Rank(e.what) \in 1..4
BY DEF Entries, Notifications, Test, Rank

\* push() keeps the queue bounded, without duplicates and sorted, and adds
\* nothing but its argument.
LEMMA PushKeeps ==
  ASSUME NEW q, QueueOK(q), NEW n \in Entries
  PROVE  /\ QueueOK(Push(q, n))
         /\ \A m : Queued(Push(q, n), m) => m = n.what \/ Queued(q, m)
<1>1. q \in Seq(Entries) /\ Len(q) \in Nat /\ DOMAIN q = 1..Len(q)
  BY LenProperties DEF QueueOK
<1>2. \A i \in 1..Len(q) : q[i] \in Entries
  BY <1>1
<1>3. CASE Queued(q, n.what) \/ Len(q) >= Depth
  BY <1>3 DEF Push
<1>4. CASE ~Queued(q, n.what) /\ ~(Len(q) >= Depth)
  <2> DEFINE Worse == {i \in 1..Len(q) : Better(n, q[i])}
             k == IF Worse = {} THEN Len(q) + 1 ELSE Min(Worse)
             r == InsertAt(q, k, n)
  <2>1. Push(q, n) = r
    BY <1>1, <1>4, MinIsLeast DEF Push, SelectInSeq
  <2>2. /\ k \in 1..(Len(q) + 1)
        /\ k <= Len(q) => Better(n, q[k])
        /\ \A i \in 1..Len(q) : i < k => ~Better(n, q[i])
    <3>1. CASE Worse = {}
      BY <1>1, <3>1
    <3>2. CASE Worse # {}
      <4>1. Worse \in SUBSET Nat
        OBVIOUS
      <4>2. Min(Worse) \in Worse /\ \A i \in Worse : Min(Worse) <= i
        BY <3>2, <4>1, MinIsLeast
      <4>3. k \in Worse /\ \A i \in Worse : k <= i
        BY <3>2, <4>2
      <4> HIDE DEF k
      <4>4. k \in 1..Len(q) /\ Better(n, q[k])
        BY <4>3
      <4>5. \A i \in 1..Len(q) : i < k => ~Better(n, q[i])
        BY <1>1, <4>3
      <4>6. QED
        BY <1>1, <4>4, <4>5
    <3>3. QED
      BY <3>1, <3>2
  <2> HIDE DEF k, Worse
  <2>3. /\ r \in Seq(Entries) /\ Len(r) = Len(q) + 1
        /\ \A i \in 1..(Len(q) + 1) :
             r[i] = IF i < k THEN q[i] ELSE IF i = k THEN n ELSE q[i - 1]
    <3>1. q \in Seq(Entries) /\ k \in 1..(Len(q) + 1)
      BY <1>1, <2>2
    <3>2. r \in Seq(Entries)
      BY <3>1, InsertAtEntries
    <3>3. Len(r) = Len(q) + 1
      BY <3>1, InsertAtEntries
    <3>4. \A i \in 1..(Len(q) + 1) : r[i] = IF i < k THEN q[i] ELSE IF i = k THEN n ELSE q[i - 1]
      BY <3>1, InsertAtEntries
    <3>5. QED
      BY <3>2, <3>3, <3>4
  <2> HIDE DEF r
  <2>4. Len(r) <= Depth
    BY <1>1, <1>4, <2>3, DepthAssumption
  <2>5. \A m : Queued(r, m) => m = n.what \/ Queued(q, m)
    BY <1>1, <2>2, <2>3, LenProperties DEF Queued
  <2>6. ASSUME NEW i \in 1..Len(r), NEW j \in 1..Len(r), i < j
        PROVE  r[i].what # r[j].what /\ Rank(r[i].what) >= Rank(r[j].what)
    <3> DEFINE old(x) == IF x < k THEN x ELSE x - 1
    <3>1. CASE i # k /\ j # k
      <4>1. /\ old(i) \in 1..Len(q) /\ old(j) \in 1..Len(q) /\ old(i) < old(j)
            /\ r[i] = q[old(i)] /\ r[j] = q[old(j)]
        BY <1>1, <2>2, <2>3, <2>6, <3>1
      <4>2. q[old(i)].what # q[old(j)].what /\ Rank(q[old(i)].what) >= Rank(q[old(j)].what)
        BY <1>1, <4>1 DEF QueueOK, NoDouble, ByRank
      <4>3. QED
        BY <4>1, <4>2
    <3>2. CASE i = k
      <4>1. r[i] = n /\ r[j] = q[j - 1] /\ j - 1 \in 1..Len(q) /\ k <= j - 1
        BY <1>1, <2>2, <2>3, <2>6, <3>2
      <4>2. n.what # q[j - 1].what
        BY <1>4, <4>1 DEF Queued
      <4>3. Better(n, q[k]) /\ q[k] \in Entries /\ k \in 1..Len(q)
        BY <1>1, <1>2, <2>2, <4>1
      <4>4. Rank(q[k].what) >= Rank(q[j - 1].what)
        <5>1. CASE k = j - 1
          BY <5>1, <4>3, RankType
        <5>2. CASE k < j - 1
          BY <4>1, <4>3, <5>2 DEF QueueOK, ByRank
        <5>3. QED
          BY <1>1, <2>2, <4>1, <5>1, <5>2
      <4>5. Rank(n.what) >= Rank(q[k].what)
        BY <4>3, RankType DEF Better
      <4>6. QED
        BY <1>2, <4>1, <4>2, <4>3, <4>4, <4>5, RankType
    <3>3. CASE j = k
      <4>1. r[j] = n /\ r[i] = q[i] /\ i \in 1..Len(q) /\ i < k
        BY <1>1, <2>2, <2>3, <2>6, <3>3
      <4>2. n.what # q[i].what
        BY <1>4, <4>1 DEF Queued
      <4>3. ~Better(n, q[i]) /\ q[i] \in Entries
        BY <1>2, <2>2, <4>1
      <4>4. Rank(q[i].what) >= Rank(n.what)
        BY <4>3, RankType DEF Better
      <4>5. QED
        BY <4>1, <4>2, <4>4
    <3>4. QED
      BY <3>1, <3>2, <3>3
  <2>7. ByRank(r)
    BY <2>6 DEF ByRank
  <2>8. DOMAIN r = 1..Len(r) /\ Len(r) \in Nat
    BY <2>3, LenProperties
  <2>9. NoDouble(r)
    <3> SUFFICES ASSUME NEW i \in 1..Len(r), NEW j \in 1..Len(r), r[i].what = r[j].what, i # j
                 PROVE  FALSE
      BY <2>8 DEF NoDouble
    <3>1. CASE i < j
      BY <2>6, <3>1
    <3>2. CASE j < i
      BY <2>6, <3>2
    <3>3. QED
      BY <2>8, <3>1, <3>2
  <2>10. QED
    BY <2>1, <2>3, <2>4, <2>5, <2>7, <2>9 DEF QueueOK
<1>5. QED
  BY <1>3, <1>4

-----------------------------------------------------------------------------
(* The NotificationEngine, one call at a time *)

\* What every call keeps true of the engine's state n, when C are the types that
\* may be announced as started: the conjuncts are QuietAtBoot, MutedTypesSilent
\* and NoReminderOverStart, with the shape of the queue they need.
MayStart(n, C) ==
  \A t \in Types :
    n.playing = Signal("Start", t) \/ Queued(n.queue, Signal("Start", t)) => t \in C

\* A mute begins with nothing playing, and covers the types that are then active.
MuteHeard(n) ==
  n.playing \notin {Nothing, Test} /\ n.scope # "None" => n.playing.type \notin n.muted

StartsFirst(n) ==
  n.playing.signal = "Reminder" => \A t \in Types : ~Queued(n.queue, Signal("Start", t))

Sound(n, C) ==
  /\ n \in NotifyStates
  /\ QueueOK(n.queue)
  /\ MayStart(n, C)
  /\ MuteHeard(n)
  /\ StartsFirst(n)

\* The notifications told apart.
LEMMA Signals ==
  /\ \A s \in {"Start", "Escalation", "Reminder", "End"}, t \in Types :
       /\ Signal(s, t) \in Notifications
       /\ Signal(s, t).signal = s /\ Signal(s, t).type = t
       /\ Signal(s, t) \notin {Nothing, Test}
  /\ Test \in Notifications
  /\ \A n \in Notifications : n # Test =>
       /\ n.signal \in {"Start", "Escalation", "Reminder", "End"} /\ n.type \in Types
       /\ n = Signal(n.signal, n.type)
  /\ Nothing.signal = "Nothing" /\ Nothing \notin Notifications
BY DEF Notifications, Signal, Test, Nothing, NoType, Types

\* What a signal is queued as
LEMMA EntryType ==
  ASSUME policy \in Policies, NEW s \in {"Start", "Escalation", "Reminder", "End"}, NEW t \in Types
  PROVE  Entry(s, t) \in Entries /\ Entry(s, t).what = Signal(s, t)
<1>1. policy.priority[t] \in Nat
  BY DEF Policies, Types
<1>2. QED
  BY <1>1, Signals DEF Entry, Entries

\* QueueIf touches the queue only, and adds at most its own signal to it.
LEMMA QueueIfKeeps ==
  ASSUME policy \in Policies, NEW n \in NotifyStates, QueueOK(n.queue),
         NEW s \in {"Start", "Escalation", "Reminder", "End"}, NEW t \in Types,
         NEW m, m = n \/ m = [n EXCEPT !.queue = Push(n.queue, Entry(s, t))]
  PROVE  /\ m \in NotifyStates
         /\ QueueOK(m.queue)
         /\ m.playing = n.playing /\ m.active = n.active
         /\ m.scope = n.scope /\ m.muted = n.muted
         /\ \A x : Queued(m.queue, x) => Queued(n.queue, x) \/ x = Signal(s, t)
<1>1. CASE m = [n EXCEPT !.queue = Push(n.queue, Entry(s, t))]
  <2> DEFINE q == Push(n.queue, Entry(s, t))
  <2>1. /\ QueueOK(q)
        /\ \A x : Queued(q, x) => x = Signal(s, t) \/ Queued(n.queue, x)
    BY EntryType, PushKeeps
  <2>2. m = [n EXCEPT !.queue = q]
    BY <1>1
  <2> HIDE DEF q
  <2>3. q \in Seq(Entries)
    BY <2>1 DEF QueueOK
  <2>4. m \in NotifyStates /\ m.queue = q
    BY <2>2, <2>3 DEF NotifyStates
  <2>5. m.playing = n.playing /\ m.active = n.active /\ m.scope = n.scope /\ m.muted = n.muted
    BY <2>2 DEF NotifyStates
  <2>6. QED
    BY <2>1, <2>4, <2>5
<1>2. CASE m = n
  BY <1>2
<1>3. QED
  BY <1>1, <1>2

\* The part of n that OnStarted and OnEnded change first.
LEMMA ActiveSet ==
  ASSUME NEW n \in NotifyStates, NEW A \in SUBSET Types, NEW m, m = [n EXCEPT !.active = A]
  PROVE  /\ m \in NotifyStates /\ m.active = A /\ m.queue = n.queue
         /\ m.playing = n.playing /\ m.scope = n.scope /\ m.muted = n.muted
BY DEF NotifyStates, Types

LEMMA StartQueued ==
  ASSUME policy \in Policies, NEW C, NEW a, Sound(a, C), NEW t \in Types, t \in C,
         NEW m, m = a \/ m = [a EXCEPT !.queue = Push(a.queue, Entry("Start", t))]
  PROVE  /\ m \in NotifyStates /\ QueueOK(m.queue) /\ MayStart(m, C) /\ MuteHeard(m)
         /\ m.playing = a.playing /\ m.active = a.active
<1>1. /\ m \in NotifyStates /\ QueueOK(m.queue)
      /\ m.playing = a.playing /\ m.active = a.active
      /\ m.scope = a.scope /\ m.muted = a.muted
      /\ \A x : Queued(m.queue, x) => Queued(a.queue, x) \/ x = Signal("Start", t)
  BY QueueIfKeeps DEF Sound
<1>2. \A u \in Types : Queued(m.queue, Signal("Start", u)) =>
        Queued(a.queue, Signal("Start", u)) \/ u \in C
  BY <1>1, Signals
<1>3. MayStart(m, C)
  BY <1>1, <1>2 DEF MayStart, Sound
<1>4. MuteHeard(m)
  BY <1>1 DEF MuteHeard, Sound
<1>5. QED
  BY <1>1, <1>3, <1>4

LEMMA StartedKeeps ==
  ASSUME policy \in Policies, NEW C, NEW n, Sound(n, C),
         NEW t \in Types, NEW voiced \in BOOLEAN, voiced => t \in C
  PROVE  /\ Sound(OnStarted(n, t, voiced), C)
         /\ OnStarted(n, t, voiced).active = n.active \cup {t}
         /\ OnStarted(n, t, voiced).playing \in {n.playing, Nothing}
<1> DEFINE a == [n EXCEPT !.active = n.active \cup {t}]
           m == [a EXCEPT !.queue = Push(a.queue, Entry("Start", t))]
           r == OnStarted(n, t, voiced)
<1>1. /\ a \in NotifyStates /\ a.active = n.active \cup {t} /\ a.queue = n.queue
      /\ a.playing = n.playing /\ a.scope = n.scope /\ a.muted = n.muted
  <2>1. n \in NotifyStates /\ n.active \cup {t} \in SUBSET Types
    BY DEF Sound, NotifyStates, Types
  <2> HIDE DEF a
  <2>2. QED
    BY <2>1, ActiveSet DEF a
<1>2. Sound(a, C)
  <2> HIDE DEF a
  <2>1. QED
    BY <1>1 DEF Sound, MayStart, MuteHeard, StartsFirst
<1>3. CASE voiced /\ t \in policy.enabled
  <2>1. IF n.playing.signal = "Reminder" THEN r = [m EXCEPT !.playing = Nothing] ELSE r = m
    BY <1>3 DEF OnStarted, QueueIf
  <2>2. t \in C /\ (m = a \/ m = [a EXCEPT !.queue = Push(a.queue, Entry("Start", t))])
    BY <1>3
  <2> HIDE DEF r, a, m
  <2>3. /\ m \in NotifyStates /\ QueueOK(m.queue) /\ MayStart(m, C) /\ MuteHeard(m)
        /\ m.playing = n.playing /\ m.active = a.active
    BY <1>1, <1>2, <2>2, StartQueued
  <2>4. CASE n.playing.signal = "Reminder"
    <3>1. /\ r \in NotifyStates /\ r.playing = Nothing /\ r.queue = m.queue
          /\ r.active = m.active
      BY <2>1, <2>3, <2>4 DEF NotifyStates
    <3>2. MayStart(r, C)
      BY <2>3, <3>1, Signals DEF MayStart
    <3>3. MuteHeard(r) /\ StartsFirst(r)
      BY <3>1, Signals DEF MuteHeard, StartsFirst
    <3>4. QED
      BY <1>1, <2>3, <3>1, <3>2, <3>3 DEF Sound, r
  <2>5. CASE n.playing.signal # "Reminder"
    <3>1. StartsFirst(m)
      BY <2>3, <2>5 DEF StartsFirst
    <3>2. QED
      BY <1>1, <2>1, <2>3, <2>5, <3>1 DEF Sound, r
  <2>6. QED
    BY <2>4, <2>5
<1>4. CASE ~(voiced /\ t \in policy.enabled)
  <2>1. r = a
    BY <1>4 DEF OnStarted, QueueIf
  <2>2. QED
    BY <1>1, <1>2, <2>1
<1>5. QED
  BY <1>3, <1>4

\* A signal that is no start may be queued at any time.
LEMMA QueueIfSound ==
  ASSUME policy \in Policies, NEW C, NEW n, Sound(n, C),
         NEW s \in {"Escalation", "Reminder", "End"}, NEW t \in Types,
         NEW m, m = n \/ m = [n EXCEPT !.queue = Push(n.queue, Entry(s, t))]
  PROVE  Sound(m, C) /\ m.active = n.active /\ m.playing = n.playing
<1>1. /\ m \in NotifyStates /\ QueueOK(m.queue)
      /\ m.playing = n.playing /\ m.active = n.active
      /\ m.scope = n.scope /\ m.muted = n.muted
      /\ \A x : Queued(m.queue, x) => Queued(n.queue, x) \/ x = Signal(s, t)
  BY QueueIfKeeps DEF Sound
<1>2. \A u \in Types : Queued(m.queue, Signal("Start", u)) => Queued(n.queue, Signal("Start", u))
  BY <1>1, Signals
<1>3. MayStart(m, C) /\ MuteHeard(m) /\ StartsFirst(m)
  BY <1>1, <1>2 DEF Sound, MayStart, MuteHeard, StartsFirst
<1>4. QED
  BY <1>1, <1>3 DEF Sound

LEMMA EndedKeeps ==
  ASSUME policy \in Policies, NEW C, NEW n, Sound(n, C),
         NEW t \in Types, NEW voiced \in BOOLEAN
  PROVE  /\ Sound(OnEnded(n, t, voiced), C)
         /\ OnEnded(n, t, voiced).active = n.active \ {t}
         /\ OnEnded(n, t, voiced).playing = n.playing
<1> DEFINE a == [n EXCEPT !.active = @ \ {t}]
           m == QueueIf(a, voiced, "End", t)
           r == OnEnded(n, t, voiced)
<1>1. n \in NotifyStates /\ n.active \in SUBSET Types
  BY DEF Sound, NotifyStates, Types
<1>2. /\ a \in NotifyStates /\ a.active = n.active \ {t} /\ a.queue = n.queue
      /\ a.playing = n.playing /\ a.scope = n.scope /\ a.muted = n.muted
  <2>1. n.active \ {t} \in SUBSET Types /\ a = [n EXCEPT !.active = n.active \ {t}]
    BY <1>1
  <2> HIDE DEF a
  <2>2. QED
    BY <1>1, <2>1, ActiveSet
<1>3. r = IF m.active = {} /\ m.scope = "UntilClear"
          THEN [m EXCEPT !.scope = "None", !.muted = {}] ELSE m
  BY DEF OnEnded
<1>4. m = a \/ m = [a EXCEPT !.queue = Push(a.queue, Entry("End", t))]
  BY DEF QueueIf
<1> HIDE DEF a, r, m
<1>5. Sound(a, C)
  BY <1>2 DEF Sound, MayStart, MuteHeard, StartsFirst
<1>6. Sound(m, C) /\ m.active = n.active \ {t} /\ m.playing = n.playing
  BY <1>2, <1>5, <1>4, QueueIfSound
<1>7. CASE m.active = {} /\ m.scope = "UntilClear"
  <2>1. r = [m EXCEPT !.scope = "None", !.muted = {}]
    BY <1>3, <1>7
  <2>2. /\ r \in NotifyStates /\ r.playing = m.playing /\ r.queue = m.queue
        /\ r.active = m.active /\ r.scope = "None"
    BY <1>6, <2>1 DEF Sound, NotifyStates
  <2>3. QED
    BY <1>6, <2>2 DEF Sound, MayStart, MuteHeard, StartsFirst, r
<1>8. CASE ~(m.active = {} /\ m.scope = "UntilClear")
  BY <1>3, <1>6, <1>8 DEF r
<1>9. QED
  BY <1>7, <1>8

Kinds == {"Started", "Escalated", "CoverageReduced", "LocationAdded", "Ended"}
EngineEvents == [kind : Kinds, type : Types]

\* onEngineEvent(): only a voiced start needs leave to be announced, and only
\* starts and ends change the set of active types.
LEMMA EventKeeps ==
  ASSUME policy \in Policies, NEW C, NEW n, Sound(n, C), NEW ev \in EngineEvents, NEW voiced \in BOOLEAN,
         ev.kind = "Started" /\ voiced => ev.type \in C
  PROVE  /\ Sound(OnEngineEvent(n, ev, voiced), C)
         /\ OnEngineEvent(n, ev, voiced).active =
              CASE ev.kind = "Started" -> n.active \cup {ev.type}
                [] ev.kind = "Ended" -> n.active \ {ev.type}
                [] OTHER -> n.active
         /\ OnEngineEvent(n, ev, voiced).playing \in {n.playing, Nothing}
<1>1. ev.kind \in Kinds /\ ev.type \in Types
  BY DEF EngineEvents
<1>2. CASE ev.kind = "Started"
  BY <1>1, <1>2, StartedKeeps DEF OnEngineEvent
<1>3. CASE ev.kind = "Ended"
  BY <1>1, <1>3, EndedKeeps DEF OnEngineEvent
<1>4. CASE ev.kind \in {"Escalated", "LocationAdded"}
  <2> DEFINE m == OnEngineEvent(n, ev, voiced)
  <2>1. m = n \/ m = [n EXCEPT !.queue = Push(n.queue, Entry("Escalation", ev.type))]
    BY <1>4 DEF OnEngineEvent, QueueIf
  <2> HIDE DEF m
  <2>2. Sound(m, C) /\ m.active = n.active /\ m.playing = n.playing
    BY <1>1, <2>1, QueueIfSound
  <2>3. QED
    BY <1>4, <2>2 DEF m
<1>5. CASE ev.kind = "CoverageReduced"
  BY <1>5 DEF OnEngineEvent
<1>6. QED
  BY <1>1, <1>2, <1>3, <1>4, <1>5 DEF Kinds

\* The reminders that fall due keep the queue in order and bring no start.
LEMMA RemindersKeep ==
  ASSUME policy \in Policies, NEW q, QueueOK(q), NEW due \in SUBSET Types
  PROVE  /\ QueueOK(PushReminders(q, due))
         /\ \A u \in Types : Queued(PushReminders(q, due), Signal("Start", u)) =>
              Queued(q, Signal("Start", u))
<1> DEFINE next(t, r) == IF t \in due THEN Push(r, Entry("Reminder", t)) ELSE r
           S == {r \in Seq(Entries) :
                   /\ QueueOK(r)
                   /\ \A u \in Types : Queued(r, Signal("Start", u)) =>
                        Queued(q, Signal("Start", u))}
           step == [t \in 1..NTypes |-> [r \in S |-> next(t, r)]]
           after[t \in 0..NTypes] == IF t = 0 THEN q ELSE next(t, after[t - 1])
<1>1. NTypes \in Nat
  BY NTypesAssumption
<1>2. q \in S
  BY DEF QueueOK
<1>3. ASSUME NEW t \in Types, NEW r \in S
      PROVE  next(t, r) \in S
  <2>1. CASE t \in due
    <3>1. /\ QueueOK(Push(r, Entry("Reminder", t)))
          /\ \A m : Queued(Push(r, Entry("Reminder", t)), m) =>
               m = Signal("Reminder", t) \/ Queued(r, m)
      BY EntryType, PushKeeps
    <3>2. \A u \in Types : Signal("Start", u) # Signal("Reminder", t)
      BY Signals
    <3>3. QED
      BY <2>1, <3>1, <3>2 DEF QueueOK
  <2>2. CASE t \notin due
    BY <2>2
  <2>3. QED
    BY <2>1, <2>2
<1>4. step \in Steps(0, NTypes, S)
  BY <1>1, <1>3 DEF Types, Steps
<1>5. \A t \in 1..NTypes, r \in S : step[t][r] = next(t, r)
  OBVIOUS
<1> HIDE DEF S, step, next
<1>6. PICK f : f \in Solutions(0, NTypes, S, q, step)
  BY <1>1, <1>2, <1>4, FoldExists
<1>7. f = [t \in 0..NTypes |-> IF t = 0 THEN q ELSE next(t, f[t - 1])]
  <2> DEFINE h == [t \in 0..NTypes |-> IF t = 0 THEN q ELSE next(t, f[t - 1])]
  <2>1. f \in [0..NTypes -> S] /\ f[0] = q
    BY <1>6 DEF Solutions
  <2>2. \A t \in 1..NTypes : f[t] = next(t, f[t - 1])
    BY <1>1, <1>5, <1>6, <2>1 DEF Solutions
  <2>3. \A t \in 0..NTypes : f[t] = h[t]
    BY <1>1, <2>1, <2>2
  <2>4. QED
    BY <2>1, <2>3
<1>8. after = [t \in 0..NTypes |-> IF t = 0 THEN q ELSE next(t, after[t - 1])]
  <2> DEFINE Solves(h) == h = [t \in 0..NTypes |-> IF t = 0 THEN q ELSE next(t, h[t - 1])]
  <2>1. Solves(f)
    BY <1>7
  <2>2. Solves(CHOOSE h : Solves(h))
    BY <2>1, Zenon
  <2>3. QED
    BY <2>2
<1> HIDE DEF after
<1>9. after[0] = q /\ \A t \in 1..NTypes : after[t] = next(t, after[t - 1])
  BY <1>1, <1>8
<1>10. \A t \in 0..NTypes : t \in {i \in Nat : after[i] \in S}
  <2>1. 0 \in {i \in Nat : after[i] \in S}
    BY <1>2, <1>9
  <2>2. ASSUME NEW t \in 0..(NTypes - 1), after[t] \in S
        PROVE  after[t + 1] \in S
    <3>1. t + 1 \in 1..NTypes /\ (t + 1) - 1 = t
      BY <1>1
    <3>2. QED
      BY <1>3, <1>9, <2>2, <3>1 DEF Types
  <2>3. \A t \in 0..(NTypes - 1) : t \in {i \in Nat : after[i] \in S} =>
          t + 1 \in {i \in Nat : after[i] \in S}
    BY <2>2
  <2>4. QED
    BY <1>1, <2>1, <2>3, Upwards
<1>11. after[NTypes] \in S
  BY <1>1, <1>10
<1>12. PushReminders(q, due) = after[NTypes]
  BY DEF PushReminders, after, next
<1>13. QED
  BY <1>11, <1>12 DEF S

\* What is left of a queue after its first k entries.
LEMMA DropKeeps ==
  ASSUME NEW q, QueueOK(q), NEW k \in 0..Len(q)
  PROVE  /\ QueueOK(SubSeq(q, k + 1, Len(q)))
         /\ Len(SubSeq(q, k + 1, Len(q))) = Len(q) - k
         /\ \A i \in 1..(Len(q) - k) : SubSeq(q, k + 1, Len(q))[i] = q[k + i]
<1> DEFINE r == SubSeq(q, k + 1, Len(q))
<1>1. q \in Seq(Entries) /\ Len(q) \in Nat /\ DOMAIN q = 1..Len(q)
  BY LenProperties DEF QueueOK
<1>2. r \in Seq(Entries) /\ Len(r) = Len(q) - k
  <2>1. \A i \in (k + 1)..Len(q) : q[i] \in Entries
    BY <1>1
  <2>2. CASE k + 1 <= Len(q)
    BY <1>1, <2>1, <2>2, SubSeqProperties
  <2>3. CASE k = Len(q)
    BY <1>1, <2>1, <2>3, SubSeqProperties
  <2>4. k + 1 <= Len(q) \/ k = Len(q)
    <3>1. Len(q) \in Nat
      BY <1>1
    <3> DEFINE l == Len(q)
    <3>2. l \in Nat /\ k \in 0..l
      BY <3>1
    <3> HIDE DEF l
    <3>3. k + 1 <= l \/ k = l
      BY <3>2
    <3>4. QED
      BY <3>3 DEF l
  <2> HIDE DEF r
  <2>5. QED
    BY <2>2, <2>3, <2>4
<1>3. \A i \in 1..(Len(q) - k) : r[i] = q[k + i]
  <2> TAKE i \in 1..(Len(q) - k)
  <2>1. r[i] = q[(k + 1) + i - 1]
    BY <1>1
  <2>2. (k + 1) + i - 1 = k + i
    BY <1>1
  <2>3. QED
    BY <2>1, <2>2
<1> HIDE DEF r
<1>4. Len(r) <= Depth
  BY <1>1, <1>2, DepthAssumption DEF QueueOK
<1>5. ByRank(r)
  BY <1>1, <1>2, <1>3 DEF QueueOK, ByRank
<1>6. NoDouble(r)
  BY <1>1, <1>2, <1>3 DEF QueueOK, NoDouble
<1>7. QED
  BY <1>2, <1>3, <1>4, <1>5, <1>6 DEF QueueOK, r

\* No mute covers what is playing.
Unmuted(n) == n.playing \notin {Nothing, Test} => ~Silenced(n, n.playing.type, FALSE)

\* The pop loop plays nothing that is muted, and no reminder while a start waits:
\* a start is ahead of every reminder in the queue.
LEMMA PlayNextKeeps ==
  ASSUME NEW C, NEW n, Sound(n, C), NEW snoozeOver \in BOOLEAN,
         snoozeOver => n.scope = "Snooze"
  PROVE  /\ Sound(PlayNext(n, snoozeOver), C)
         /\ PlayNext(n, snoozeOver).active = n.active
         /\ Unmuted(PlayNext(n, snoozeOver))
<1> DEFINE sounds(e) == /\ <<e.what.signal, e.what.type>> \notin policy.soundless
                        /\ e.what = Test \/ ~Silenced(n, e.what.type, snoozeOver)
           first == SelectInSeq(n.queue, sounds)
           popped == IF first = 0 THEN Len(n.queue) ELSE first
           wakes == /\ n.scope = "Snooze" /\ snoozeOver
                    /\ \E i \in 1..popped : n.queue[i].what # Test
           q == SubSeq(n.queue, popped + 1, Len(n.queue))
           p == IF first = 0 THEN Nothing ELSE n.queue[first].what
           r == PlayNext(n, snoozeOver)
<1>1. /\ n \in NotifyStates /\ QueueOK(n.queue)
      /\ n.queue \in Seq(Entries) /\ Len(n.queue) \in Nat
      /\ \A i \in 1..Len(n.queue) : n.queue[i] \in Entries /\ n.queue[i].what \in Notifications
  BY LenProperties, RankType DEF Sound, QueueOK
<1>2. /\ first \in 0..Len(n.queue)
      /\ first # 0 => sounds(n.queue[first])
  <2> DEFINE I == {i \in 1..Len(n.queue) : sounds(n.queue[i])}
  <2>1. first = IF I # {} THEN Min(I) ELSE 0
    BY DEF SelectInSeq
  <2>2. I \in SUBSET Nat
    OBVIOUS
  <2>3. \A i \in I : i \in 1..Len(n.queue) /\ sounds(n.queue[i])
    OBVIOUS
  <2> HIDE DEF first, I, sounds
  <2>4. I # {} => Min(I) \in I
    BY <2>2, MinIsLeast
  <2>5. QED
    BY <1>1, <2>1, <2>3, <2>4
<1>3. r = [n EXCEPT !.queue = q, !.playing = p,
                    !.scope = IF wakes THEN "None" ELSE n.scope,
                    !.muted = IF wakes THEN {} ELSE n.muted]
  BY DEF PlayNext
<1> HIDE DEF first
<1>4. popped \in 0..Len(n.queue) /\ (first # 0 => popped = first)
  BY <1>1, <1>2
<1> HIDE DEF popped
<1>5. /\ QueueOK(q) /\ Len(q) = Len(n.queue) - popped
      /\ \A i \in 1..(Len(n.queue) - popped) : q[i] = n.queue[popped + i]
  BY <1>1, <1>4, DropKeeps
<1>6. p \in Notifications \cup {Nothing}
  BY <1>1, <1>2
<1> HIDE DEF q, p, wakes
<1>7. /\ r \in NotifyStates /\ r.queue = q /\ r.playing = p /\ r.active = n.active
      /\ r.scope = IF wakes THEN "None" ELSE n.scope
      /\ r.muted = IF wakes THEN {} ELSE n.muted
  BY <1>1, <1>3, <1>5, <1>6 DEF NotifyStates, QueueOK
<1> HIDE DEF r
<1>8. \A x : Queued(q, x) => Queued(n.queue, x)
  <2> SUFFICES ASSUME NEW i \in 1..Len(q)
               PROVE  \E j \in 1..Len(n.queue) : n.queue[j] = q[i]
    <3>1. DOMAIN q = 1..Len(q) /\ DOMAIN n.queue = 1..Len(n.queue)
      BY <1>1, <1>5, LenProperties DEF QueueOK
    <3>2. QED
      BY <3>1 DEF Queued
  <2>1. popped + i \in 1..Len(n.queue) /\ n.queue[popped + i] = q[i]
    BY <1>1, <1>4, <1>5
  <2>2. QED
    BY <2>1
<1>9. MayStart(r, C)
  <2>1. p # Nothing => Queued(n.queue, p)
    BY <1>1, <1>2, LenProperties DEF Queued, p
  <2>2. QED
    BY <1>7, <1>8, <2>1, Signals DEF MayStart, Sound
<1>10. Unmuted(r)
  <2> SUFFICES ASSUME p \notin {Nothing, Test}
               PROVE  ~Silenced(r, p.type, FALSE)
    BY <1>7 DEF Unmuted
  <2>1. first # 0 /\ p = n.queue[first].what
    BY DEF p
  <2>2. ~Silenced(n, p.type, snoozeOver)
    BY <1>2, <2>1
  <2>3. CASE wakes
    BY <1>7, <2>3 DEF Silenced
  <2>4. CASE ~wakes
    <3>1. ~(n.scope = "Snooze" /\ snoozeOver)
      BY <1>1, <1>2, <1>4, <2>1, <2>4 DEF wakes
    <3>2. QED
      BY <1>7, <2>2, <2>4, <3>1 DEF Silenced
  <2>5. QED
    BY <2>3, <2>4
<1>11. StartsFirst(r)
  <2> SUFFICES ASSUME p.signal = "Reminder", NEW t \in Types, Queued(q, Signal("Start", t))
               PROVE  FALSE
    BY <1>7 DEF StartsFirst
  <2>1. first # 0 /\ p = n.queue[first].what
    BY Signals DEF p
  <2>2. PICK i \in 1..Len(q) : q[i].what = Signal("Start", t)
    BY <1>5, LenProperties DEF Queued, QueueOK
  <2>3. /\ popped + i \in 1..Len(n.queue) /\ first \in 1..Len(n.queue)
        /\ first < popped + i /\ n.queue[popped + i].what = Signal("Start", t)
    BY <1>1, <1>2, <1>4, <1>5, <2>1, <2>2
  <2>4. Rank(n.queue[first].what) >= Rank(n.queue[popped + i].what)
    BY <1>1, <2>3 DEF QueueOK, ByRank
  <2>5. Rank(p) = 1
    BY DEF Rank
  <2>6. Rank(Signal("Start", t)) = 3
    BY Signals DEF Rank
  <2>7. QED
    BY <2>1, <2>3, <2>4, <2>5, <2>6
<1>12. MuteHeard(r)
  BY <1>10 DEF MuteHeard, Unmuted, Silenced
<1>13. QED
  BY <1>5, <1>7, <1>9, <1>10, <1>11, <1>12 DEF Sound, r

-----------------------------------------------------------------------------
(* The handlers *)

\* tick(): reminders, then the end of a pattern or the next signal.
LEMMA TickKeeps ==
  ASSUME policy \in Policies, NEW C, Sound(notify, C), NEW due \in SUBSET Types,
         NEW finished \in BOOLEAN, NEW snoozeOver \in BOOLEAN,
         NotifyTick(due, finished, snoozeOver)
  PROVE  /\ Sound(notify', C) /\ notify'.active = notify.active
         /\ notify'.playing \in {notify.playing, Nothing} \/ Unmuted(notify')
<1> DEFINE q == PushReminders(notify.queue, due)
           n == [notify EXCEPT !.queue = q]
<1>1. notify \in NotifyStates /\ QueueOK(notify.queue)
  BY DEF Sound
<1>2. /\ QueueOK(q)
      /\ \A u \in Types : Queued(q, Signal("Start", u)) =>
           Queued(notify.queue, Signal("Start", u))
  BY <1>1, RemindersKeep
<1>3. /\ snoozeOver => notify.scope = "Snooze"
      /\ finished => notify.playing # Nothing
  BY DEF NotifyTick
<1> DEFINE next == PlayNext(n, snoozeOver)
           cut  == [n EXCEPT !.playing = Nothing]
<1>4. notify' = CASE notify.playing = Nothing -> next
                  [] finished -> cut
                  [] OTHER -> n
  BY DEF NotifyTick
<1> HIDE DEF q, n, next, cut
<1>5. /\ notify.playing = Nothing => notify' = next
      /\ notify.playing # Nothing /\ finished => notify' = cut
      /\ notify.playing # Nothing /\ ~finished => notify' = n
  BY <1>3, <1>4
<1> USE DEF n
<1>6. /\ n \in NotifyStates /\ n.queue = q /\ n.playing = notify.playing
      /\ n.active = notify.active /\ n.scope = notify.scope /\ n.muted = notify.muted
  BY <1>1, <1>2 DEF NotifyStates, QueueOK
<1> HIDE DEF n
<1>7. Sound(n, C)
  BY <1>2, <1>6 DEF Sound, MayStart, MuteHeard, StartsFirst
<1>8. CASE notify.playing = Nothing
  <2>1. notify' = PlayNext(n, snoozeOver)
    BY <1>5, <1>8 DEF next
  <2>2. /\ Sound(PlayNext(n, snoozeOver), C) /\ PlayNext(n, snoozeOver).active = n.active
        /\ Unmuted(PlayNext(n, snoozeOver))
    BY <1>3, <1>6, <1>7, PlayNextKeeps
  <2>3. QED
    BY <1>6, <2>1, <2>2
<1>9. CASE notify.playing # Nothing /\ finished
  <2>1. notify' = [n EXCEPT !.playing = Nothing]
    BY <1>5, <1>9 DEF cut
  <2>2. /\ notify' \in NotifyStates /\ notify'.playing = Nothing /\ notify'.queue = n.queue
        /\ notify'.active = n.active
    BY <1>6, <2>1 DEF NotifyStates
  <2>3. QED
    BY <1>6, <1>7, <2>2, Signals DEF Sound, MayStart, MuteHeard, StartsFirst
<1>10. CASE notify.playing # Nothing /\ ~finished
  BY <1>5, <1>6, <1>7, <1>10
<1>11. QED
  BY <1>8, <1>9, <1>10

\* A cleared queue and nothing playing.
LEMMA SilentKeeps ==
  ASSUME NEW C, NEW m \in NotifyStates, m.queue = <<>>, m.playing = Nothing
  PROVE  Sound(m, C)
<1>1. QueueOK(<<>>)
  BY DepthAssumption DEF QueueOK, NoDouble, ByRank
<1>2. \A x : ~Queued(<<>>, x)
  BY DEF Queued
<1>3. QED
  BY <1>1, <1>2, Signals DEF Sound, MayStart, MuteHeard, StartsFirst

Untouched(C) ==
  /\ Sound(notify', C)
  /\ notify'.active = notify.active
  /\ notify'.playing \in {notify.playing, Nothing}

\* The mute button, the tests, "relay off" and the reset of the alert state.
LEMMA HandlersKeep ==
  ASSUME NEW C, Sound(notify, C)
  PROVE  /\ \A scope \in {"UntilClear", "Snooze"} : DoMute(scope) =>
              Untouched(C)
         /\ Unmute => Untouched(C)
         /\ ManualTest => Untouched(C)
         /\ StopAll => Untouched(C)
         /\ \A D : ResetAlertState => Sound(notify', D) /\ notify'.active = {} /\ notify'.playing = Nothing
<1>1. /\ notify \in NotifyStates /\ QueueOK(notify.queue)
      /\ notify.active \in SUBSET Types
      /\ <<>> \in Seq(Entries) /\ Nothing \in Notifications \cup {Nothing}
  BY DEF Sound, NotifyStates, Types
<1>2. ASSUME NEW scope \in {"UntilClear", "Snooze"}, DoMute(scope)
      PROVE  Untouched(C)
  <2>1. /\ notify' \in NotifyStates /\ notify'.queue = <<>> /\ notify'.playing = Nothing
        /\ notify'.active = notify.active
    BY <1>1, <1>2 DEF DoMute, NotifyStates
  <2>2. QED
    BY <2>1, SilentKeeps DEF Untouched
<1>3. ASSUME Unmute
      PROVE  Untouched(C)
  <2>1. /\ notify' \in NotifyStates /\ notify'.queue = notify.queue
        /\ notify'.playing = notify.playing /\ notify'.active = notify.active
        /\ notify'.scope = "None"
    BY <1>1, <1>3 DEF Unmute, NotifyStates
  <2>2. QED
    BY <2>1 DEF Sound, MayStart, MuteHeard, StartsFirst, Untouched
<1>4. ASSUME ManualTest
      PROVE  Untouched(C)
  <2> DEFINE e == [what |-> Test, priority |-> 255]
             q == Push(notify.queue, e)
  <2>0. e \in Entries /\ e.what = Test
    BY Signals DEF Entries
  <2> HIDE DEF e
  <2>1. QueueOK(q) /\ \A x : Queued(q, x) => x = Test \/ Queued(notify.queue, x)
    BY <1>1, <2>0, PushKeeps
  <2>2. notify' = [notify EXCEPT !.queue = q]
    BY <1>4 DEF ManualTest, e
  <2> HIDE DEF q
  <2>3. /\ notify' \in NotifyStates /\ notify'.queue = q
        /\ notify'.playing = notify.playing /\ notify'.active = notify.active
        /\ notify'.scope = notify.scope /\ notify'.muted = notify.muted
    BY <1>1, <2>1, <2>2 DEF NotifyStates, QueueOK
  <2>4. \A u \in Types : Queued(q, Signal("Start", u)) =>
          Queued(notify.queue, Signal("Start", u))
    BY <2>1, Signals
  <2>5. QED
    BY <2>1, <2>3, <2>4 DEF Sound, MayStart, MuteHeard, StartsFirst, Untouched
<1>5. ASSUME StopAll
      PROVE  Untouched(C)
  <2>1. /\ notify' \in NotifyStates /\ notify'.queue = <<>> /\ notify'.playing = Nothing
        /\ notify'.active = notify.active
    BY <1>1, <1>5 DEF StopAll, NotifyStates
  <2>2. QED
    BY <2>1, SilentKeeps DEF Untouched
<1>6. ASSUME NEW D, ResetAlertState
      PROVE  Sound(notify', D) /\ notify'.active = {} /\ notify'.playing = Nothing
  <2>1. /\ notify' \in NotifyStates /\ notify'.queue = <<>> /\ notify'.playing = Nothing
        /\ notify'.active = {}
    BY <1>1, <1>6 DEF ResetAlertState, NotifyStates
  <2>2. QED
    BY <2>1, SilentKeeps DEF Untouched
<1>7. QED
  BY <1>2, <1>3, <1>4, <1>5, <1>6

LEMMA IdleKeeps == \A C : Sound(Idle, C) /\ Idle.active = {}
<1>1. Idle \in NotifyStates /\ Idle.queue = <<>> /\ Idle.playing = Nothing /\ Idle.active = {}
  BY DEF Idle, NotifyStates
<1>2. QED
  BY <1>1, SilentKeeps

-----------------------------------------------------------------------------
(* The batch *)

LEMMA ConcatEntries ==
  ASSUME NEW S, NEW l \in Seq(S), NEW r \in Seq(S)
  PROVE  /\ l \o r \in Seq(S)
         /\ \A e : Contains(l \o r, e) <=> Contains(l, e) \/ Contains(r, e)
<1>1. Len(l) \in Nat /\ Len(r) \in Nat
  BY LenProperties
<1>2. /\ l \o r \in Seq(S) /\ Len(l \o r) = Len(l) + Len(r)
      /\ \A i \in 1..Len(l) : (l \o r)[i] = l[i]
      /\ \A i \in 1..Len(r) : (l \o r)[Len(l) + i] = r[i]
  BY <1>1
<1>3. ASSUME NEW e, Contains(l \o r, e)
      PROVE  Contains(l, e) \/ Contains(r, e)
  <2>1. PICK i \in 1..(Len(l) + Len(r)) : (l \o r)[i] = e
    BY <1>1, <1>2, <1>3 DEF Contains
  <2>2. CASE i <= Len(l)
    BY <1>1, <1>2, <2>1, <2>2 DEF Contains
  <2>3. CASE ~(i <= Len(l))
    <3>1. i - Len(l) \in 1..Len(r) /\ Len(l) + (i - Len(l)) = i
      BY <1>1, <2>3
    <3>2. QED
      BY <1>2, <2>1, <3>1 DEF Contains
  <2>4. QED
    BY <2>2, <2>3
<1>4. ASSUME NEW e, Contains(l, e)
      PROVE  Contains(l \o r, e)
  BY <1>1, <1>2, <1>4 DEF Contains
<1>5. ASSUME NEW e, Contains(r, e)
      PROVE  Contains(l \o r, e)
  <2>1. PICK i \in 1..Len(r) : r[i] = e
    BY <1>5 DEF Contains
  <2>2. Len(l) + i \in 1..(Len(l) + Len(r)) /\ (l \o r)[Len(l) + i] = e
    BY <1>1, <1>2, <2>1
  <2>3. QED
    BY <1>2, <2>2 DEF Contains
<1>6. QED
  BY <1>2, <1>3, <1>4, <1>5

\* Of any two entries, the one behind is of the same part of seqs or of a later one.
InTurn(f, seqs, n) ==
  \A a, b \in 1..Len(f) : a < b =>
    \E i \in 1..n : \E j \in i..n : Contains(seqs[i], f[a]) /\ Contains(seqs[j], f[b])

\* A part more
LEMMA InTurnGrows ==
  ASSUME NEW S, NEW n \in Nat, NEW seqs, NEW f \in Seq(S), InTurn(f, seqs, n),
         \A e : Contains(f, e) => \E i \in 1..n : Contains(seqs[i], e),
         NEW part \in Seq(S), part = seqs[n + 1]
  PROVE  InTurn(f \o part, seqs, n + 1)
<1>1. Len(f) \in Nat /\ Len(part) \in Nat
  BY LenProperties
<1>2. /\ Len(f \o part) = Len(f) + Len(part)
      /\ \A i \in 1..Len(f) : (f \o part)[i] = f[i]
      /\ \A i \in 1..Len(part) : (f \o part)[Len(f) + i] = part[i]
  BY <1>1
<1> DEFINE r == f \o part
<1> HIDE DEF r
<1> SUFFICES ASSUME NEW a \in 1..Len(r), NEW b \in 1..Len(r), a < b
             PROVE  \E i \in 1..(n + 1) : \E j \in i..(n + 1) :
                      Contains(seqs[i], r[a]) /\ Contains(seqs[j], r[b])
  BY DEF InTurn, r
<1>3. ASSUME NEW x \in 1..Len(r), ~(x <= Len(f))
      PROVE  Contains(seqs[n + 1], r[x])
  <2>1. x - Len(f) \in 1..Len(part) /\ Len(f) + (x - Len(f)) = x
    BY <1>1, <1>2, <1>3 DEF r
  <2>2. r[x] = part[x - Len(f)]
    BY <1>2, <2>1 DEF r
  <2>3. Contains(part, r[x])
    BY <2>1, <2>2 DEF Contains
  <2>4. QED
    BY <2>3
<1>4. CASE b <= Len(f)
  <2>1. a \in 1..Len(f) /\ b \in 1..Len(f) /\ r[a] = f[a] /\ r[b] = f[b]
    BY <1>1, <1>2, <1>4 DEF r
  <2>2. PICK i \in 1..n : \E j \in i..n : Contains(seqs[i], f[a]) /\ Contains(seqs[j], f[b])
    BY <2>1 DEF InTurn
  <2>3. PICK j \in i..n : Contains(seqs[i], f[a]) /\ Contains(seqs[j], f[b])
    BY <2>2
  <2>4. i \in 1..(n + 1) /\ j \in i..(n + 1)
    BY <2>2, <2>3
  <2>5. QED
    BY <2>1, <2>3, <2>4
<1>5. CASE ~(b <= Len(f)) /\ a <= Len(f)
  <2>1. a \in 1..Len(f) /\ r[a] = f[a]
    BY <1>1, <1>2, <1>5 DEF r
  <2>2. Contains(f, r[a])
    BY <2>1 DEF Contains
  <2>3. PICK i \in 1..n : Contains(seqs[i], r[a])
    BY <2>2
  <2>4. i \in 1..(n + 1) /\ n + 1 \in i..(n + 1) /\ Contains(seqs[n + 1], r[b])
    BY <1>3, <1>5, <2>3
  <2>5. QED
    BY <2>3, <2>4
<1>6. CASE ~(b <= Len(f)) /\ ~(a <= Len(f))
  <2>1. Contains(seqs[n + 1], r[a]) /\ Contains(seqs[n + 1], r[b])
    BY <1>3, <1>6
  <2>2. n + 1 \in 1..(n + 1) /\ n + 1 \in (n + 1)..(n + 1)
    OBVIOUS
  <2>3. QED
    BY <2>1, <2>2
<1>7. QED
  BY <1>4, <1>5, <1>6

\* FlattenSeq of the community modules: what is in it is what is in its parts.
LEMMA FlattenedEntries ==
  ASSUME NEW S, NEW n \in Nat, NEW seqs \in [1..n -> Seq(S)]
  PROVE  /\ FlattenSeq(seqs) \in Seq(S)
         /\ \A e : Contains(FlattenSeq(seqs), e) <=> \E i \in 1..n : Contains(seqs[i], e)
         /\ InTurn(FlattenSeq(seqs), seqs, n)
<1>1. Len(seqs) = n /\ seqs \in Seq(Seq(S))
  <2>1. seqs \in Seq(Seq(S)) /\ DOMAIN seqs = 1..n
    OBVIOUS
  <2>2. QED
    BY <2>1, LenProperties
<1>2. CASE n = 0
  <2>1. FlattenSeq(seqs) = seqs
    BY <1>1, <1>2 DEF FlattenSeq
  <2>2. seqs \in Seq(S) /\ Len(seqs) = 0
    BY <1>1, <1>2
  <2>3. (\A e : ~Contains(seqs, e)) /\ InTurn(seqs, seqs, n)
    BY <2>2 DEF Contains, InTurn
  <2>4. QED
    BY <1>2, <2>1, <2>2, <2>3
<1>3. CASE n # 0
  <2> DEFINE step == [i \in 2..n |-> [r \in Seq(S) |-> r \o seqs[i]]]
             flatten[i \in 1..Len(seqs)] ==
               IF i = 1 THEN seqs[i] ELSE flatten[i - 1] \o seqs[i]
  <2>1. seqs[1] \in Seq(S) /\ \A i \in 1..n : seqs[i] \in Seq(S)
    BY <1>3
  <2>2. step \in Steps(1, n, Seq(S))
    BY <2>1 DEF Steps
  <2>3. \A i \in 2..n, r \in Seq(S) : step[i][r] = r \o seqs[i]
    OBVIOUS
  <2> HIDE DEF step
  <2> DEFINE base == seqs[1]
             Lists == Seq(S)
  <2>4. base \in Lists /\ step \in Steps(1, n, Lists) /\ 1 <= n
    BY <1>3, <2>1, <2>2
  <2> HIDE DEF base, Lists
  <2>5. PICK f : f \in Solutions(1, n, Lists, base, step)
    BY <2>4, FoldExists
  <2>6. f = [i \in 1..Len(seqs) |-> IF i = 1 THEN seqs[i] ELSE f[i - 1] \o seqs[i]]
    <3> DEFINE h == [i \in 1..n |-> IF i = 1 THEN seqs[i] ELSE f[i - 1] \o seqs[i]]
    <3>1. f \in [1..n -> Seq(S)] /\ f[1] = seqs[1]
      BY <2>5 DEF Solutions, base, Lists
    <3>2. ASSUME NEW i \in 2..n
          PROVE  f[i] = f[i - 1] \o seqs[i]
      <4>1. i \in (1 + 1)..n /\ i - 1 \in 1..n
        OBVIOUS
      <4>2. f[i] = step[i][f[i - 1]] /\ f[i - 1] \in Seq(S)
        BY <2>5, <3>1, <4>1 DEF Solutions
      <4>3. QED
        BY <2>3, <4>2
    <3>3. ASSUME NEW i \in 1..n
          PROVE  f[i] = h[i]
      <4>1. CASE i = 1
        BY <3>1, <4>1
      <4>2. CASE i # 1
        <5>1. i \in 2..n
          BY <4>2
        <5>2. h[i] = f[i - 1] \o seqs[i]
          BY <4>2
        <5>3. QED
          BY <3>2, <5>1, <5>2
      <4>3. QED
        BY <4>1, <4>2
    <3>4. QED
      BY <1>1, <3>1, <3>3
  <2>7. flatten = [i \in 1..Len(seqs) |->
                     IF i = 1 THEN seqs[i] ELSE flatten[i - 1] \o seqs[i]]
    <3> DEFINE Solves(h) ==
                 h = [i \in 1..Len(seqs) |-> IF i = 1 THEN seqs[i] ELSE h[i - 1] \o seqs[i]]
    <3>1. Solves(f)
      BY <2>6
    <3>2. Solves(CHOOSE h : Solves(h))
      BY <3>1, Zenon
    <3>3. QED
      BY <3>2
  <2> HIDE DEF flatten
  <2> DEFINE Upto(k) == \A e : Contains(flatten[k], e) <=> \E i \in 1..k : Contains(seqs[i], e)
             Good == {k \in Nat : flatten[k] \in Seq(S) /\ Upto(k) /\ InTurn(flatten[k], seqs, k)}
  <2>8. \A i \in 1..n : flatten[i] = IF i = 1 THEN seqs[i] ELSE flatten[i - 1] \o seqs[i]
    BY <1>1, <2>7, Zenon
  <2>9. flatten[1] = seqs[1]
    BY <1>3, <2>8
  <2>10. ASSUME NEW i \in 2..n
         PROVE  flatten[i] = flatten[i - 1] \o seqs[i]
    <3>1. i \in 1..n /\ i # 1
      OBVIOUS
    <3>2. QED
      BY <2>8, <3>1, Zenon
  <2>11. 1 \in Good
    <3>1. InTurn(seqs[1], seqs, 1)
      BY 1 \in 1..1 DEF InTurn, Contains
    <3>2. QED
      BY <2>1, <2>9, <3>1
  <2>12. ASSUME NEW k \in 1..(n - 1), k \in Good
         PROVE  k + 1 \in Good
    <3>1. k + 1 \in 2..n /\ (k + 1) - 1 = k
      OBVIOUS
    <3>2. flatten[k + 1] = flatten[k] \o seqs[k + 1] /\ k + 1 \in 1..n
      <4> HIDE DEF Good, Upto
      <4>1. flatten[k + 1] = flatten[(k + 1) - 1] \o seqs[k + 1]
        BY <2>10, <3>1
      <4>2. QED
        BY <3>1, <4>1
    <3>3. flatten[k] \in Seq(S) /\ seqs[k + 1] \in Seq(S)
      BY <2>1, <2>12, <3>2
    <3>4. \A e : Contains(flatten[k] \o seqs[k + 1], e) <=>
                   Contains(flatten[k], e) \/ Contains(seqs[k + 1], e)
      BY <3>3, ConcatEntries
    <3>5. flatten[k] \o seqs[k + 1] \in Seq(S)
      BY <3>3
    <3>6. Upto(k + 1)
      <4> TAKE e
      <4>1. Contains(flatten[k + 1], e) <=>
              (\E i \in 1..k : Contains(seqs[i], e)) \/ Contains(seqs[k + 1], e)
        <5>1. Upto(k)
          BY <2>12
        <5>2. QED
          BY <3>2, <3>4, <5>1
      <4>2. \A i : i \in 1..(k + 1) <=> i \in 1..k \/ i = k + 1
        OBVIOUS
      <4>3. QED
        BY <4>1, <4>2
    <3>7. InTurn(flatten[k + 1], seqs, k + 1)
      <4>1. /\ k \in Nat /\ InTurn(flatten[k], seqs, k)
            /\ \A e : Contains(flatten[k], e) => \E i \in 1..k : Contains(seqs[i], e)
        BY <2>12
      <4>2. InTurn(flatten[k] \o seqs[k + 1], seqs, k + 1)
        <5> HIDE DEF Good, Upto
        <5> DEFINE g == flatten[k]
                   part == seqs[k + 1]
        <5>1. g \in Seq(S) /\ part \in Seq(S) /\ part = seqs[k + 1]
          BY <3>3
        <5>2. /\ k \in Nat /\ InTurn(g, seqs, k)
              /\ \A e : Contains(g, e) => \E i \in 1..k : Contains(seqs[i], e)
          BY <4>1
        <5> HIDE DEF g, part
        <5>3. InTurn(g \o part, seqs, k + 1)
          BY <5>1, <5>2, InTurnGrows
        <5>4. QED
          BY <5>3 DEF g, part
      <4>3. QED
        BY <3>2, <4>2
    <3>8. QED
      <4> HIDE DEF Upto
      <4>1. k + 1 \in Nat
        OBVIOUS
      <4>2. QED
        BY <3>2, <3>5, <3>6, <3>7, <4>1
  <2>13. \A k \in 1..n : k \in Good
    <3> HIDE DEF Good
    <3>1. QED
      BY <2>11, <2>12, Upwards
  <2>14. flatten[n] \in Seq(S) /\ Upto(n) /\ InTurn(flatten[n], seqs, n)
    <3>1. n \in Good
      <4> HIDE DEF Good
      <4>1. n \in 1..n
        BY <1>3
      <4>2. QED
        BY <2>13, <4>1
    <3> HIDE DEF Upto
    <3>2. QED
      BY <3>1
  <2>15. FlattenSeq(seqs) = flatten[n]
    BY <1>1, <1>3 DEF FlattenSeq, flatten
  <2>16. QED
    BY <2>14, <2>15
<1>4. QED
  BY <1>2, <1>3

\* The push() calls for one type are those of its start, if it starts, and of its end.
LEMMA StepPushes ==
  ASSUME NEW ts, NEW in
  PROVE  /\ Step(ts, in).pushed \in Seq(Kinds)
         /\ Contains(Step(ts, in).pushed, "Started") <=>
              ts.state # "Active" /\ Step(ts, in).status.state = "Active"
         /\ Contains(Step(ts, in).pushed, "Ended") <=>
              ts.state = "Active" /\ Step(ts, in).status.state # "Active"
<1> DEFINE cov == Effective(in)
           kinds == Step(ts, in).pushed
           new == Step(ts, in).status
<1>1. /\ <<>> \in Seq(Kinds) /\ \A e : ~Contains(<<>>, e)
      /\ \A kind \in Kinds : <<kind>> \in Seq(Kinds) /\ \A e : Contains(<<kind>>, e) <=> e = kind
  BY DEF Contains
<1>2. CASE ts.state # "Active"
  <2>1. \/ kinds = <<>> /\ new.state = "Inactive"
        \/ kinds = <<"Started">> /\ new.state = "Active"
    BY <1>2 DEF Step, StepIdle, Becomes, Waiting, Raised
  <2> HIDE DEF kinds, new
  <2>2. QED
    BY <1>1, <1>2, <2>1 DEF kinds, new, Kinds
<1>3. CASE ts.state = "Active"
  <2>1. CASE cov # "None"
    <3> DEFINE a == CoveragePushes(ts.coverage, cov)
               b == LocationPushes(ts.locs, in.locs)
    <3>1. kinds = a \o b /\ new.state = "Active"
      BY <1>3, <2>1 DEF Step, StepActive, Becomes, Raised
    <3>2. a \in {<<>>, <<"Escalated">>, <<"CoverageReduced">>} /\ b \in {<<>>, <<"LocationAdded">>}
      BY DEF CoveragePushes, LocationPushes
    <3> HIDE DEF kinds, new, a, b
    <3>3. /\ a \in Seq(Kinds) /\ ~Contains(a, "Started") /\ ~Contains(a, "Ended")
          /\ b \in Seq(Kinds) /\ ~Contains(b, "Started") /\ ~Contains(b, "Ended")
      BY <1>1, <3>2 DEF Kinds
    <3>4. /\ a \o b \in Seq(Kinds)
          /\ \A e : Contains(a \o b, e) <=> Contains(a, e) \/ Contains(b, e)
      BY <3>3, ConcatEntries
    <3>5. QED
      BY <1>3, <3>1, <3>3, <3>4 DEF kinds, new
  <2>2. CASE cov = "None"
    <3>1. \/ kinds = <<>> /\ new = [ts EXCEPT !.endCount = @ + 1]
          \/ kinds = <<"Ended">> /\ new.state = "Inactive"
      BY <1>3, <2>2 DEF Step, StepActive, Becomes, Fresh
    <3>2. [ts EXCEPT !.endCount = @ + 1].state = ts.state
      OBVIOUS
    <3> HIDE DEF kinds, new
    <3>3. QED
      BY <1>1, <1>3, <3>1, <3>2 DEF kinds, new, Kinds
  <2>3. QED
    BY <2>1, <2>2
<1>4. QED
  BY <1>2, <1>3

Started(t) == [kind |-> "Started", type |-> t]
Ended(t) == [kind |-> "Ended", type |-> t]

\* The events of one type are its own.
LEMMA EventsOfEntries ==
  ASSUME NEW t \in Types, NEW in
  PROVE  /\ EventsOf(t, in) \in Seq(EngineEvents)
         /\ \A e : Contains(EventsOf(t, in), e) => e.type = t
         /\ \A u \in Types :
              /\ Contains(EventsOf(t, in), Started(u)) <=>
                   /\ u = t /\ types[t].state # "Active"
                   /\ Step(types[t], in).status.state = "Active"
              /\ Contains(EventsOf(t, in), Ended(u)) <=>
                   /\ u = t /\ types[t].state = "Active"
                   /\ Step(types[t], in).status.state # "Active"
<1> DEFINE kinds == Step(types[t], in).pushed
           evs == EventsOf(t, in)
<1>1. /\ kinds \in Seq(Kinds)
      /\ Contains(kinds, "Started") <=>
           types[t].state # "Active" /\ Step(types[t], in).status.state = "Active"
      /\ Contains(kinds, "Ended") <=>
           types[t].state = "Active" /\ Step(types[t], in).status.state # "Active"
  BY StepPushes
<1>2. evs = [i \in DOMAIN kinds |-> [kind |-> kinds[i], type |-> t]]
  BY DEF EventsOf
<1> HIDE DEF kinds, evs
<1>3. DOMAIN kinds = 1..Len(kinds) /\ Len(kinds) \in Nat /\ \A i \in 1..Len(kinds) : kinds[i] \in Kinds
  BY <1>1, LenProperties
<1>4. /\ evs = [i \in 1..Len(kinds) |-> [kind |-> kinds[i], type |-> t]]
      /\ \A i \in 1..Len(kinds) : [kind |-> kinds[i], type |-> t] \in EngineEvents
  BY <1>2, <1>3 DEF EngineEvents
<1>5. evs \in [1..Len(kinds) -> EngineEvents]
  BY <1>4
<1>6. evs \in Seq(EngineEvents)
  <2> DEFINE N == Len(kinds)
  <2>1. N \in Nat /\ evs \in [1..N -> EngineEvents]
    BY <1>3, <1>5
  <2> HIDE DEF N
  <2>2. QED
    BY <2>1, IsASeq
<1>7. Len(evs) = Len(kinds)
  <2>1. DOMAIN evs = 1..Len(evs) /\ Len(evs) \in Nat
    BY <1>6, LenProperties
  <2>2. DOMAIN evs = 1..Len(kinds)
    BY <1>5
  <2> DEFINE N == Len(kinds)
             M == Len(evs)
  <2>3. 1..M = 1..N /\ M \in Nat /\ N \in Nat
    BY <1>3, <2>1, <2>2
  <2> HIDE DEF M, N
  <2>4. M = N
    BY <2>3
  <2>5. QED
    BY <2>4 DEF M, N
<1>8. \A i \in 1..Len(evs) : evs[i].kind = kinds[i] /\ evs[i].type = t
                            /\ evs[i] = [kind |-> kinds[i], type |-> t]
  BY <1>4, <1>7
<1>9. \A e : Contains(evs, e) => e.type = t
  BY <1>8 DEF Contains
<1>10. \A u \in Types : /\ Contains(evs, Started(u)) <=> u = t /\ Contains(kinds, "Started")
                        /\ Contains(evs, Ended(u)) <=> u = t /\ Contains(kinds, "Ended")
  <2> SUFFICES ASSUME NEW u \in Types, NEW kind \in {"Started", "Ended"}
               PROVE  Contains(evs, [kind |-> kind, type |-> u]) <=> u = t /\ Contains(kinds, kind)
    BY DEF Started, Ended
  <2>1. ASSUME Contains(evs, [kind |-> kind, type |-> u])
        PROVE  u = t /\ Contains(kinds, kind)
    <3>1. PICK i \in 1..Len(evs) : evs[i] = [kind |-> kind, type |-> u]
      BY <2>1 DEF Contains
    <3>2. evs[i].kind = kind /\ evs[i].type = u
      BY <3>1
    <3>3. kinds[i] = kind /\ u = t /\ i \in 1..Len(kinds)
      BY <1>7, <1>8, <3>2
    <3>4. QED
      BY <3>3 DEF Contains
  <2>2. ASSUME u = t, Contains(kinds, kind)
        PROVE  Contains(evs, [kind |-> kind, type |-> u])
    BY <1>7, <1>8, <2>2 DEF Contains
  <2>3. QED
    BY <2>1, <2>2
<1>11. QED
  BY <1>1, <1>6, <1>9, <1>10 DEF evs

\* One type, one snapshot: its status stays well formed, and a type that the
\* snapshot has stays active.
LEMMA StepType ==
  ASSUME cfg \in Configs, NEW ts \in TypeStatus, NEW in \in Inputs
  PROVE  /\ Step(ts, in).status \in TypeStatus
         /\ ts.state = "Active" /\ Effective(in) # "None" => Step(ts, in).status.state = "Active"
<1>1. /\ cfg.start \in 1..MaxConf /\ cfg.end \in 1..MaxConf /\ MaxConf \in Nat
  BY ConfigsAssumption
<1>2. in.coverage \in Coverages /\ in.locs \in Nat
  BY InputsAssumption DEF Coverages
<1>3. Effective(in) \in Coverages
  BY <1>2 DEF Effective, Coverages
<1>4. CASE ts.state = "Active"
  BY <1>1, <1>2, <1>3, <1>4 DEF Step, Becomes, StepActive, Raised, Fresh, TypeStatus, Coverages
<1>5. CASE ts.state # "Active"
  BY <1>1, <1>2, <1>3, <1>5 DEF Step, Becomes, StepIdle, Waiting, Raised, TypeStatus, Coverages
<1>6. QED
  BY <1>4, <1>5

\* Every start and end is among the events, in type order; the batch has them all,
\* or it is full and what it lacks comes after what it has.
LEMMA EventsEntries ==
  ASSUME EngineTypeOK, NEW snap \in Snapshots, ApplySnapshot(snap)
  PROVE  /\ batch' \in Seq(EngineEvents) /\ Events(snap) \in Seq(EngineEvents)
         /\ \A t \in Types :
              /\ Contains(Events(snap), Started(t)) <=> ~Active(t) /\ Active(t)'
              /\ Contains(Events(snap), Ended(t)) <=> Active(t) /\ ~Active(t)'
         /\ \A e : Contains(batch', e) => Contains(Events(snap), e)
         /\ \A e : Contains(Events(snap), e) /\ ~Contains(batch', e) =>
              /\ Len(batch') = MaxEvents
              /\ \A i \in 1..Len(batch') : batch'[i].type <= e.type
<1> DEFINE lists == [t \in Types |-> EventsOf(t, snap[t])]
           all == Events(snap)
<1>1. \A t \in Types : types'[t] = Step(types[t], snap[t]).status
  BY DEF ApplySnapshot
<1>2. lists \in [1..NTypes -> Seq(EngineEvents)] /\ NTypes \in Nat
  BY EventsOfEntries, NTypesAssumption DEF Types
<1>3. all = FlattenSeq(lists)
  BY DEF Events
<1>4. \A t \in Types :
        /\ \A e : Contains(lists[t], e) => e.type = t
        /\ \A u \in Types :
             /\ Contains(lists[t], Started(u)) <=>
                  u = t /\ types[t].state # "Active" /\ types'[t].state = "Active"
             /\ Contains(lists[t], Ended(u)) <=>
                  u = t /\ types[t].state = "Active" /\ types'[t].state # "Active"
  <2> TAKE t \in Types
  <2>1. lists[t] = EventsOf(t, snap[t])
    OBVIOUS
  <2> HIDE DEF lists
  <2>2. QED
    BY <1>1, <2>1, EventsOfEntries
<1> HIDE DEF lists, all
<1>5. /\ all \in Seq(EngineEvents)
      /\ \A e : Contains(all, e) <=> \E i \in 1..NTypes : Contains(lists[i], e)
      /\ InTurn(all, lists, NTypes)
  BY <1>2, <1>3, FlattenedEntries
<1>6. \A t \in Types : /\ Contains(all, Started(t)) <=> ~Active(t) /\ Active(t)'
                       /\ Contains(all, Ended(t)) <=> Active(t) /\ ~Active(t)'
  BY <1>4, <1>5 DEF Active, Types
<1>7. \A a, b \in 1..Len(all) : a < b => all[a].type <= all[b].type
  <2> SUFFICES ASSUME NEW a \in 1..Len(all), NEW b \in 1..Len(all), a < b
               PROVE  all[a].type <= all[b].type
    OBVIOUS
  <2>1. PICK i \in 1..NTypes : \E j \in i..NTypes :
          Contains(lists[i], all[a]) /\ Contains(lists[j], all[b])
    BY <1>5 DEF InTurn
  <2>2. PICK j \in i..NTypes : Contains(lists[i], all[a]) /\ Contains(lists[j], all[b])
    BY <2>1
  <2>3. i \in Types /\ j \in Types /\ i <= j
    BY <1>2, <2>1, <2>2 DEF Types
  <2>4. all[a].type = i /\ all[b].type = j
    BY <1>4, <2>2, <2>3
  <2>5. QED
    BY <2>3, <2>4
<1>8. batch' = IF Len(all) <= MaxEvents THEN all ELSE SubSeq(all, 1, MaxEvents)
  BY DEF ApplySnapshot, Batch, all
<1>9. MaxEvents \in Nat /\ Len(all) \in Nat
  BY <1>5, MaxEventsAssumption, LenProperties
<1>10. CASE Len(all) <= MaxEvents
  BY <1>5, <1>6, <1>8, <1>10 DEF all
<1>11. CASE ~(Len(all) <= MaxEvents)
  <2> DEFINE cut == SubSeq(all, 1, MaxEvents)
  <2>1. batch' = cut /\ \A i \in 1..MaxEvents : i \in 1..Len(all) /\ all[i] \in EngineEvents
    BY <1>5, <1>8, <1>9, <1>11
  <2>2. /\ cut \in Seq(EngineEvents) /\ Len(cut) = MaxEvents
        /\ \A i \in 1..MaxEvents : cut[i] = all[i]
    BY <1>9, <2>1, SubSeqProperties
  <2> HIDE DEF cut
  <2>3. \A e : Contains(cut, e) => Contains(all, e)
    BY <2>1, <2>2 DEF Contains
  <2>4. ASSUME NEW e, Contains(all, e), ~Contains(cut, e), NEW i \in 1..Len(cut)
        PROVE  cut[i].type <= e.type
    <3>1. PICK x \in 1..Len(all) : all[x] = e
      BY <2>4 DEF Contains
    <3>2. ~(x <= MaxEvents)
      BY <1>9, <2>2, <2>4, <3>1 DEF Contains
    <3>3. i \in 1..Len(all) /\ cut[i] = all[i] /\ i < x
      BY <1>9, <2>1, <2>2, <2>4, <3>1, <3>2
    <3>4. QED
      BY <1>7, <3>1, <3>3
  <2>5. QED
    BY <1>5, <1>6, <2>1, <2>2, <2>3, <2>4 DEF all
<1>12. QED
  BY <1>10, <1>11

\* The types that change according to a list of events.
LEMMA ChangedTypes ==
  ASSUME NEW evs \in Seq(EngineEvents), NEW t \in Types
  PROVE  t \in Changed(evs) <=> Contains(evs, Started(t)) \/ Contains(evs, Ended(t))
<1>1. DOMAIN evs = 1..Len(evs) /\ \A i \in 1..Len(evs) : evs[i] \in EngineEvents
  BY LenProperties
<1>2. \A e \in EngineEvents : /\ e = Started(t) <=> e.kind = "Started" /\ e.type = t
                              /\ e = Ended(t) <=> e.kind = "Ended" /\ e.type = t
  BY DEF EngineEvents, Started, Ended
<1>3. t \in Changed(evs) <=>
        \E i \in 1..Len(evs) : evs[i].kind \in {"Started", "Ended"} /\ evs[i].type = t
  BY <1>1 DEF Changed
<1>4. QED
  BY <1>1, <1>2, <1>3 DEF Contains

LEMMA ChangedInTypes ==
  ASSUME NEW evs \in Seq(EngineEvents)
  PROVE  Changed(evs) \in SUBSET Types
<1>1. DOMAIN evs = 1..Len(evs) /\ \A i \in 1..Len(evs) : evs[i] \in EngineEvents
  BY LenProperties
<1>2. QED
  BY <1>1 DEF Changed, EngineEvents

-----------------------------------------------------------------------------
(* From the batch to the NotificationEngine *)

\* The events are delivered in turn: if every start that is voiced may be
\* announced, so is every start in the queue; and the active types change by the
\* starts and the ends, whatever their order, as no type has one of each.
LEMMA DeliveredKeeps ==
  ASSUME policy \in Policies, NEW C, Sound(notify, C),
         NEW evs \in Seq(EngineEvents), NEW new, NEW known,
         \A i \in 1..Len(evs) :
           evs[i].kind = "Started" /\ Voiced(evs[i], evs, new, known) => evs[i].type \in C,
         \A t \in Types : ~(Contains(evs, Started(t)) /\ Contains(evs, Ended(t)))
  PROVE  /\ Sound(Delivered(evs, new, known), C)
         /\ \A t \in Types : t \in Delivered(evs, new, known).active <=>
              \/ Contains(evs, Started(t))
              \/ t \in notify.active /\ ~Contains(evs, Ended(t))
         /\ Delivered(evs, new, known).playing \in {notify.playing, Nothing}
<1> DEFINE N == Len(evs)
           next(i, n) == OnEngineEvent(n, evs[i], Voiced(evs[i], evs, new, known))
           S == {n \in NotifyStates : Sound(n, C) /\ n.playing \in {notify.playing, Nothing}}
           step == [i \in 1..N |-> [n \in S |-> next(i, n)]]
           after[i \in 0..Len(evs)] == IF i = 0 THEN notify ELSE next(i, after[i - 1])
<1>1. N \in Nat /\ DOMAIN evs = 1..N /\ \A i \in 1..N : evs[i] \in EngineEvents
  BY LenProperties
<1>2. notify \in S
  BY DEF Sound
<1>3. ASSUME NEW i \in 1..N, NEW n \in S
      PROVE  /\ next(i, n) \in S
             /\ next(i, n).active = CASE evs[i].kind = "Started" -> n.active \cup {evs[i].type}
                                      [] evs[i].kind = "Ended" -> n.active \ {evs[i].type}
                                      [] OTHER -> n.active
  <2> DEFINE ev == evs[i]
             voiced == Voiced(ev, evs, new, known)
  <2>1. ev \in EngineEvents /\ Sound(n, C)
    BY <1>1
  <2>2. voiced \in BOOLEAN
    BY Zenon DEF Voiced
  <2>3. ev.kind = "Started" /\ voiced => ev.type \in C
    OBVIOUS
  <2> HIDE DEF ev, voiced
  <2>4. /\ Sound(OnEngineEvent(n, ev, voiced), C)
        /\ OnEngineEvent(n, ev, voiced).active =
             CASE ev.kind = "Started" -> n.active \cup {ev.type}
               [] ev.kind = "Ended" -> n.active \ {ev.type}
               [] OTHER -> n.active
    BY <2>1, <2>2, <2>3, EventKeeps
  <2>5. OnEngineEvent(n, ev, voiced).playing \in {notify.playing, Nothing}
    <3>1. OnEngineEvent(n, ev, voiced).playing \in {n.playing, Nothing}
      BY <2>1, <2>2, <2>3, EventKeeps
    <3>2. QED
      BY <3>1
  <2>6. OnEngineEvent(n, ev, voiced) \in NotifyStates
    BY <2>4 DEF Sound
  <2>7. QED
    BY <2>4, <2>5, <2>6 DEF ev, voiced
<1>4. step \in Steps(0, N, S)
  <2> HIDE DEF S, N, next
  <2>1. step \in [1..N -> [S -> S]]
    BY <1>3
  <2>2. (0 + 1)..N = 1..N
    OBVIOUS
  <2>3. QED
    BY <2>1, <2>2 DEF Steps
<1>5. \A i \in 1..N, n \in S : step[i][n] = next(i, n)
  OBVIOUS
<1> HIDE DEF S, step, next, N
<1>6. PICK f : f \in Solutions(0, N, S, notify, step)
  BY <1>1, <1>2, <1>4, FoldExists
<1>7. f = [i \in 0..N |-> IF i = 0 THEN notify ELSE next(i, f[i - 1])]
  <2> DEFINE h == [i \in 0..N |-> IF i = 0 THEN notify ELSE next(i, f[i - 1])]
  <2>1. f \in [0..N -> S] /\ f[0] = notify
    BY <1>6 DEF Solutions
  <2>2. \A i \in 1..N : f[i] = next(i, f[i - 1])
    BY <1>1, <1>5, <1>6, <2>1 DEF Solutions
  <2>3. \A i \in 0..N : f[i] = h[i]
    BY <1>1, <2>1, <2>2
  <2>4. QED
    BY <2>1, <2>3
<1>8. after = [i \in 0..N |-> IF i = 0 THEN notify ELSE next(i, after[i - 1])]
  <2> DEFINE Solves(h) == h = [i \in 0..N |-> IF i = 0 THEN notify ELSE next(i, h[i - 1])]
  <2>1. Solves(f)
    BY <1>7
  <2>2. Solves(CHOOSE h : Solves(h))
    BY <2>1, Zenon
  <2>3. QED
    BY <2>2 DEF N
<1> HIDE DEF after
<1>9. after[0] = notify /\ \A i \in 1..N : after[i] = next(i, after[i - 1])
  BY <1>1, <1>8
<1> DEFINE Among(k, e) == \E j \in 1..k : evs[j] = e
           Follows(k) == \A t \in Types : t \in after[k].active <=>
                           \/ Among(k, Started(t))
                           \/ t \in notify.active /\ ~Among(k, Ended(t))
           Good == {k \in Nat : after[k] \in S /\ Follows(k)}
<1>10. 0 \in Good
  <2>1. \A e : ~Among(0, e)
    OBVIOUS
  <2> HIDE DEF Among
  <2>2. QED
    BY <1>2, <1>9, <2>1
<1>11. ASSUME NEW k \in 0..(N - 1), k \in Good
       PROVE  k + 1 \in Good
  <2>1. k + 1 \in 1..N /\ (k + 1) - 1 = k
    BY <1>1
  <2>2. after[k + 1] = next(k + 1, after[k]) /\ after[k] \in S
    BY <1>9, <1>11, <2>1
  <2> DEFINE ev == evs[k + 1]
             A == after[k].active
             B == after[k + 1].active
  <2>3. /\ after[k + 1] \in S
        /\ B = CASE ev.kind = "Started" -> A \cup {ev.type}
                 [] ev.kind = "Ended" -> A \ {ev.type}
                 [] OTHER -> A
    <3> DEFINE n == after[k]
               i == k + 1
    <3>1. n \in S /\ i \in 1..N /\ after[k + 1] = next(i, n)
      BY <2>1, <2>2
    <3> HIDE DEF n, i
    <3>2. /\ next(i, n) \in S
          /\ next(i, n).active = CASE evs[i].kind = "Started" -> n.active \cup {evs[i].type}
                                   [] evs[i].kind = "Ended" -> n.active \ {evs[i].type}
                                   [] OTHER -> n.active
      BY <1>3, <3>1
    <3>3. QED
      BY <3>1, <3>2, Zenon DEF n, i
  <2>4. ev \in EngineEvents
    BY <1>1, <2>1
  <2>5. \A e : Among(k + 1, e) <=> Among(k, e) \/ ev = e
    <3>1. \A j : j \in 1..(k + 1) <=> j \in 1..k \/ j = k + 1
      BY <2>1
    <3>2. QED
      BY <3>1
  <2>6. \A t \in Types : ~(Among(k + 1, Started(t)) /\ Among(k + 1, Ended(t)))
    <3>1. \A e : Among(k + 1, e) => Contains(evs, e)
      BY <1>1, <2>1 DEF Contains, N
    <3>2. QED
      BY <3>1
  <2>7. Follows(k)
    BY <1>11
  <2> HIDE DEF ev, A, B, Among
  <2>8. \A t \in Types : t \in A <=> Among(k, Started(t)) \/ (t \in notify.active /\ ~Among(k, Ended(t)))
    BY <2>7 DEF A
  <2>9. \A t \in Types : t \in B <=>
          Among(k + 1, Started(t)) \/ (t \in notify.active /\ ~Among(k + 1, Ended(t)))
    <3>1. CASE ev.kind = "Started"
      <4>1. B = A \cup {ev.type} /\ ev = Started(ev.type) /\ ev.type \in Types
        BY <2>3, <2>4, <3>1 DEF EngineEvents, Started
      <4>2. \A t \in Types : (ev = Started(t) <=> t = ev.type) /\ ev # Ended(t)
        BY <3>1, <4>1 DEF Started, Ended
      <4>3. QED
        BY <2>5, <2>8, <4>1, <4>2
    <3>2. CASE ev.kind = "Ended"
      <4>1. B = A \ {ev.type} /\ ev = Ended(ev.type) /\ ev.type \in Types
        BY <2>3, <2>4, <3>2 DEF EngineEvents, Ended
      <4>2. \A t \in Types : (ev = Ended(t) <=> t = ev.type) /\ ev # Started(t)
        BY <3>2, <4>1 DEF Started, Ended
      <4>3. QED
        BY <2>5, <2>6, <2>8, <4>1, <4>2
    <3>3. CASE ev.kind \notin {"Started", "Ended"}
      <4>1. B = A
        BY <2>3, <3>3
      <4>2. \A t \in Types : ev # Started(t) /\ ev # Ended(t)
        BY <3>3 DEF Started, Ended
      <4>3. QED
        BY <2>5, <2>8, <4>1, <4>2
    <3>4. QED
      BY <3>1, <3>2, <3>3
  <2>10. Follows(k + 1)
    BY <2>9 DEF B
  <2> HIDE DEF Follows
  <2>11. k + 1 \in Nat
    BY <2>1
  <2>12. QED
    BY <2>3, <2>10, <2>11
<1>12. N \in Good
  <2> HIDE DEF Good
  <2>1. \A k \in 0..N : k \in Good
    BY <1>1, <1>10, <1>11, Upwards
  <2>2. QED
    BY <1>1, <2>1
<1>13. Delivered(evs, new, known) = after[N]
  BY DEF Delivered, after, next, N
<1>14. \A e : Among(N, e) <=> Contains(evs, e)
  BY <1>1 DEF Contains, N
<1> HIDE DEF Among
<1>15. after[N] \in S /\ Follows(N)
  BY <1>12
<1>16. QED
  BY <1>13, <1>14, <1>15 DEF S

-----------------------------------------------------------------------------
(* The inductive invariant *)

\* A type that every snapshot had since the first one was there before the device
\* was watching and is still to be confirmed, or it is active.
Watching ==
  IF synced THEN \A t \in Types \ calm : t \in preexisting \/ Active(t) ELSE calm = {}

StateOK ==
  /\ EngineTypeOK
  /\ preexisting \in SUBSET Types
  /\ calm \in SUBSET Types
  /\ missed \in SUBSET Types
  /\ policy \in Policies
  /\ ticked \in BOOLEAN

IInv == StateOK /\ Sound(notify, calm) /\ Watching /\ FollowsEngine

LEMMA SoundGrows ==
  ASSUME NEW C, NEW D, C \subseteq D, NEW n, Sound(n, C)
  PROVE  Sound(n, D)
BY DEF Sound, MayStart

LEMMA FreshTypes ==
  /\ [t \in Types |-> Fresh] \in [Types -> TypeStatus]
  /\ \A t \in Types : [u \in Types |-> Fresh][t].state # "Active"
<1>1. MaxConf \in Nat
  BY ConfigsAssumption
<1>2. Fresh \in TypeStatus /\ Fresh.state # "Active"
  BY <1>1 DEF Fresh, TypeStatus, Coverages
<1>3. QED
  BY <1>2

LEMMA InitInvariant == Init => IInv
<1> SUFFICES ASSUME Init
             PROVE  IInv
  OBVIOUS
<1>1. EngineTypeOK
  <2>1. synced \in BOOLEAN
    BY Zenon DEF Init, EngineInit
  <2>2. QED
    BY <2>1, FreshTypes DEF Init, EngineInit, EngineTypeOK
<1>2. StateOK
  <2>1. ticked \in BOOLEAN
    BY Zenon DEF Init
  <2>2. policy \in Policies
    BY SavesAssumption DEF Init
  <2>3. QED
    BY <1>1, <2>1, <2>2 DEF Init, StateOK
<1>3. Sound(notify, calm) /\ notify.active = {}
  BY IdleKeeps DEF Init, NotifyInit
<1>4. FollowsEngine
  BY <1>3, FreshTypes DEF Init, EngineInit, FollowsEngine, Active
<1>5. Watching
  BY DEF Init, EngineInit, Watching
<1>6. QED
  BY <1>2, <1>3, <1>4, <1>5 DEF IInv

\* doPoll() with a snapshot
LEMMA PollKeeps ==
  ASSUME IInv, NEW snap \in Snapshots, Poll(snap)
  PROVE  IInv' /\ notify'.playing \in {notify.playing, Nothing}
<1> DEFINE dropped == Changed(Events(snap)) \ Changed(batch')
           seen == {t \in Types : Effective(snap[t]) # "None"}
           known == Observe(seen)
<1>1. /\ cfg \in Configs /\ types \in [Types -> TypeStatus]
      /\ preexisting \in SUBSET Types /\ calm \in SUBSET Types
      /\ missed \in SUBSET Types /\ policy \in Policies
      /\ Sound(notify, calm) /\ Watching /\ FollowsEngine /\ EngineTypeOK
  BY DEF IInv, StateOK, EngineTypeOK
<1>2. /\ ApplySnapshot(snap) /\ ticked' = FALSE
      /\ preexisting' = {t \in known : ~Contains(batch', Started(t))}
      /\ calm' = (IF synced THEN calm ELSE {}) \cup (Types \ seen)
      /\ missed' = ((missed \cup dropped) \ (missed \cap dropped)) \ Changed(batch')
      /\ notify' = Delivered(batch', types', known)
      /\ policy' = policy
  BY DEF Poll, Started
<1>3. /\ types' = [t \in Types |-> Step(types[t], snap[t]).status]
      /\ synced' = TRUE /\ cfg' = cfg
  BY <1>2 DEF ApplySnapshot
<1>4. known = IF synced THEN preexisting \cap seen ELSE seen
  BY DEF Observe
<1> HIDE DEF known, dropped
<1>5. \A t \in Types : snap[t] \in Inputs /\ types[t] \in TypeStatus
  BY <1>1 DEF Snapshots
<1>6. \A t \in Types : /\ types'[t] \in TypeStatus
                       /\ t \in seen /\ Active(t) => Active(t)'
  <2> TAKE t \in Types
  <2>1. types'[t] = Step(types[t], snap[t]).status
    BY <1>3
  <2>2. /\ Step(types[t], snap[t]).status \in TypeStatus
        /\ types[t].state = "Active" /\ Effective(snap[t]) # "None" =>
             Step(types[t], snap[t]).status.state = "Active"
    BY <1>1, <1>5, StepType
  <2>3. QED
    BY <2>1, <2>2 DEF Active
<1>7. /\ batch' \in Seq(EngineEvents) /\ Events(snap) \in Seq(EngineEvents)
      /\ \A t \in Types :
           /\ Contains(Events(snap), Started(t)) <=> ~Active(t) /\ Active(t)'
           /\ Contains(Events(snap), Ended(t)) <=> Active(t) /\ ~Active(t)'
      /\ \A e : Contains(batch', e) => Contains(Events(snap), e)
  BY <1>1, <1>2, EventsEntries
<1>8. StateOK'
  <2>1. types' \in [Types -> TypeStatus]
    BY <1>3, <1>6
  <2>2. synced' \in BOOLEAN /\ ticked' \in BOOLEAN
    BY <1>2, <1>3, Zenon
  <2>3. missed' \in SUBSET Types
    <3>1. dropped \in SUBSET Types
      BY <1>7, ChangedInTypes DEF dropped
    <3>2. QED
      BY <1>1, <1>2, <3>1
  <2>4. preexisting' \in SUBSET Types /\ calm' \in SUBSET Types
    BY <1>1, <1>2, <1>4
  <2>5. QED
    BY <1>1, <1>2, <1>3, <2>1, <2>2, <2>3, <2>4 DEF StateOK, EngineTypeOK
<1>9. \A t \in Types \ calm' : t \in seen /\ (t \in known \/ Active(t))
  <2>1. CASE synced
    BY <1>1, <1>2, <1>4, <2>1 DEF Watching
  <2>2. CASE ~synced
    BY <1>1, <1>2, <1>4, <2>2
  <2>3. QED
    BY <2>1, <2>2
<1>10. Watching'
  <2>1. \A t \in Types \ calm' : t \in preexisting' \/ Active(t)'
    BY <1>2, <1>6, <1>7, <1>9
  <2>2. QED
    BY <1>3, <2>1 DEF Watching
<1>11. Sound(notify, calm')
  <2>1. CASE synced
    BY <1>1, <1>2, <2>1, SoundGrows
  <2>2. CASE ~synced
    BY <1>1, <2>2, SoundGrows DEF Watching
  <2>3. QED
    BY <2>1, <2>2
<1>12. \A i \in 1..Len(batch') :
         batch'[i].kind = "Started" /\ Voiced(batch'[i], batch', types', known) =>
           batch'[i].type \in calm'
  <2> SUFFICES ASSUME NEW i \in 1..Len(batch'), batch'[i].kind = "Started",
                      Voiced(batch'[i], batch', types', known), batch'[i].type \notin calm'
               PROVE  FALSE
    OBVIOUS
  <2> DEFINE t == batch'[i].type
  <2> DEFINE ev == batch'[i]
  <2>1. ev \in EngineEvents /\ ev.kind = "Started"
    BY <1>7, ElementOfSeq
  <2> HIDE DEF ev
  <2>2. /\ ev \in EngineEvents /\ ev.type \in Types /\ ev = Started(ev.type)
        /\ t = ev.type /\ batch'[i] = ev
    BY <2>1 DEF EngineEvents, Started, ev
  <2>3. Contains(batch', Started(t))
    BY <2>2 DEF Contains
  <2>4. ~Active(t)
    BY <1>7, <2>2, <2>3
  <2>5. t \notin known
    BY DEF Voiced
  <2>6. QED
    BY <1>9, <2>2, <2>4, <2>5
<1>13. \A t \in Types : ~(Contains(batch', Started(t)) /\ Contains(batch', Ended(t)))
  BY <1>7
<1>14. /\ Sound(notify', calm')
       /\ \A t \in Types : t \in notify'.active <=>
            \/ Contains(batch', Started(t))
            \/ t \in notify.active /\ ~Contains(batch', Ended(t))
       /\ notify'.playing \in {notify.playing, Nothing}
  BY <1>1, <1>2, <1>7, <1>11, <1>12, <1>13, DeliveredKeeps
<1>15. FollowsEngine'
  <2> SUFFICES ASSUME NEW t \in Types
               PROVE  t \in notify'.active <=> (Active(t)' # (t \in missed'))
    BY DEF FollowsEngine
  <2>1. t \in notify.active <=> (Active(t) # (t \in missed))
    BY <1>1 DEF FollowsEngine
  <2> DEFINE was == Active(t)
             is == Active(t)'
             m == t \in missed
             d == t \in dropped
             start == Contains(batch', Started(t))
             end == Contains(batch', Ended(t))
  <2>2. d <=> (was # is) /\ ~start /\ ~end
    <3>1. /\ t \in Changed(Events(snap)) <=>
               Contains(Events(snap), Started(t)) \/ Contains(Events(snap), Ended(t))
          /\ t \in Changed(batch') <=> start \/ end
      BY <1>7, ChangedTypes
    <3>2. d <=> t \in Changed(Events(snap)) /\ t \notin Changed(batch')
      BY DEF dropped
    <3>3. Contains(Events(snap), Started(t)) \/ Contains(Events(snap), Ended(t)) <=> (was # is)
      <4>1. Contains(Events(snap), Started(t)) <=> ~was /\ is
        BY <1>7
      <4>2. Contains(Events(snap), Ended(t)) <=> was /\ ~is
        BY <1>7
      <4>3. was \in BOOLEAN /\ is \in BOOLEAN
        BY DEF Active
      <4> HIDE DEF was, is
      <4>4. QED
        BY <4>1, <4>2, <4>3
    <3> HIDE DEF was, is, d, start, end
    <3>4. QED
      BY <3>1, <3>2, <3>3
  <2>3. t \in missed' <=> (m # d) /\ ~start /\ ~end
    <3>1. t \in Changed(batch') <=> start \/ end
      BY <1>7, ChangedTypes
    <3>2. QED
      BY <1>2, <3>1
  <2>4. (start => ~was /\ is) /\ (end => was /\ ~is)
    BY <1>7
  <2>5. t \in notify'.active <=> start \/ (t \in notify.active /\ ~end)
    BY <1>14
  <2>6. was \in BOOLEAN /\ is \in BOOLEAN /\ m \in BOOLEAN /\ d \in BOOLEAN
    BY DEF Active
  <2> HIDE DEF was, is, m, d, start, end
  <2>7. CASE start
    BY <2>3, <2>4, <2>5, <2>6, <2>7 DEF is
  <2>8. CASE end
    BY <2>3, <2>4, <2>5, <2>6, <2>8 DEF is
  <2>9. CASE ~start /\ ~end
    <3>1. /\ t \in missed' <=> (m # d)
          /\ d <=> (was # is)
          /\ t \in notify'.active <=> t \in notify.active
          /\ t \in notify.active <=> (was # m)
      BY <2>1, <2>2, <2>3, <2>5, <2>9 DEF was, m
    <3>2. QED
      BY <2>6, <3>1 DEF is
  <2>10. QED
    BY <2>7, <2>8, <2>9
<1>16. QED
  BY <1>8, <1>10, <1>14, <1>15 DEF IInv

\* tick() and the handlers that only talk to the NotificationEngine
LEMMA ElsewhereKeeps ==
  ASSUME IInv, Elsewhere, ticked' \in BOOLEAN,
         Sound(notify', calm), notify'.active = notify.active
  PROVE  IInv'
<1>1. /\ types' = types /\ synced' = synced /\ cfg' = cfg
      /\ preexisting' = preexisting /\ calm' = calm /\ missed' = missed /\ policy' = policy
  BY DEF Elsewhere
<1>2. StateOK'
  BY <1>1 DEF IInv, StateOK, EngineTypeOK
<1>3. QED
  BY <1>1, <1>2 DEF IInv, Watching, FollowsEngine, Active

\* A change of the locations, or a restart: nothing has been seen or announced.
LEMMA ForgottenKeeps ==
  ASSUME IInv, Reset, cfg' \in Configs, policy' \in Policies,
         calm' = {}, missed' = {}, ticked' = FALSE,
         preexisting' \in SUBSET Types, Sound(notify', {}), notify'.active = {}
  PROVE  IInv'
<1>1. types' = [t \in Types |-> Fresh] /\ synced' = FALSE
  BY DEF Reset
<1>2. types' \in [Types -> TypeStatus] /\ \A t \in Types : ~Active(t)'
  BY <1>1, FreshTypes DEF Active
<1>3. synced' \in BOOLEAN /\ ticked' \in BOOLEAN
  BY <1>1, Zenon
<1>4. StateOK'
  BY <1>2, <1>3 DEF StateOK, EngineTypeOK
<1>5. FollowsEngine'
  <2> SUFFICES ASSUME NEW t \in Types
               PROVE  t \in notify'.active <=> (Active(t)' # (t \in missed'))
    BY DEF FollowsEngine
  <2>1. t \notin notify'.active /\ t \notin missed'
    BY <1>2
  <2>2. ~Active(t)' /\ Active(t)' \in BOOLEAN
    BY <1>2 DEF Active
  <2>3. QED
    BY <2>1, <2>2
<1>6. QED
  BY <1>1, <1>2, <1>4, <1>5 DEF IInv, Watching

LEMMA StepInvariant == IInv /\ [Next]_vars => IInv'
<1> SUFFICES ASSUME IInv, [Next]_vars
             PROVE  IInv'
  OBVIOUS
<1>1. Sound(notify, calm) /\ policy \in Policies
  BY DEF IInv, StateOK
<1>2. ASSUME NEW snap \in Snapshots, Poll(snap)
      PROVE  IInv'
  BY <1>2, PollKeeps
<1>3. CASE Tick
  <2>1. PICK due \in SUBSET Types, finished \in BOOLEAN, snoozeOver \in BOOLEAN :
          NotifyTick(due, finished, snoozeOver)
    BY <1>3 DEF Tick
  <2>2. Sound(notify', calm) /\ notify'.active = notify.active
    BY <1>1, <2>1, TickKeeps
  <2>3. ticked' \in BOOLEAN /\ Elsewhere
    BY <1>3, Zenon DEF Tick
  <2>4. QED
    BY <2>2, <2>3, ElsewhereKeeps
<1>4. CASE MuteNow \/ UnmuteNow \/ TestNow \/ StopNow
  <2>1. Sound(notify', calm) /\ notify'.active = notify.active
    BY <1>1, <1>4, HandlersKeep DEF MuteNow, UnmuteNow, TestNow, StopNow, Untouched
  <2>2. ticked' \in BOOLEAN /\ Elsewhere
    BY <1>4, Zenon DEF MuteNow, UnmuteNow, TestNow, StopNow, Handled
  <2>3. QED
    BY <2>1, <2>2, ElsewhereKeeps
<1>5. CASE SaveConfig
  <2>1. /\ types' = types /\ synced' = synced /\ cfg' \in Configs /\ policy' \in Policies
        /\ preexisting' = preexisting /\ calm' = calm /\ missed' = missed /\ notify' = notify
    BY <1>5, SavesAssumption DEF SaveConfig, SetConfig, SetPolicy
  <2>2. ticked' \in BOOLEAN
    BY <1>5, Zenon DEF SaveConfig, Handled
  <2>3. QED
    BY <2>1, <2>2 DEF IInv, StateOK, EngineTypeOK, Watching, FollowsEngine, Active
<1>6. CASE ChangeLocations
  <2>1. Sound(notify', {}) /\ notify'.active = {}
    BY <1>1, <1>6, HandlersKeep DEF ChangeLocations
  <2>2. /\ Reset /\ cfg' \in Configs /\ policy' \in Policies
        /\ calm' = {} /\ missed' = {} /\ ticked' = FALSE
        /\ preexisting' \in SUBSET Types
    BY <1>6, SavesAssumption DEF ChangeLocations, Handled, IInv, StateOK
  <2>3. QED
    BY <2>1, <2>2, ForgottenKeeps
<1>7. CASE Restart
  <2>1. notify' = Idle
    BY <1>7 DEF Restart
  <2>2. Sound(notify', {}) /\ notify'.active = {}
    BY <2>1, IdleKeeps
  <2>3. /\ Reset /\ cfg' \in Configs /\ policy' \in Policies
        /\ calm' = {} /\ missed' = {} /\ ticked' = FALSE
        /\ preexisting' \in SUBSET Types
    BY <1>7 DEF Restart, Handled, IInv, StateOK, EngineTypeOK
  <2>4. QED
    BY <2>2, <2>3, ForgottenKeeps
<1>8. CASE UNCHANGED vars
  <2>1. /\ types' = types /\ synced' = synced /\ cfg' = cfg /\ ticked' = ticked
        /\ preexisting' = preexisting /\ calm' = calm /\ missed' = missed /\ notify' = notify
        /\ policy' = policy
    BY <1>8 DEF vars, engineVars
  <2>2. QED
    BY <2>1 DEF IInv, StateOK, EngineTypeOK, Watching, FollowsEngine, Active
<1>9. QED
  BY <1>2, <1>3, <1>4, <1>5, <1>6, <1>7, <1>8 DEF Next

\* What the invariant is for.
LEMMA InvariantSuffices == IInv => Inv /\ QuietAtBoot /\ NoReminderOverStart
<1> SUFFICES ASSUME IInv
             PROVE  Inv /\ QuietAtBoot /\ NoReminderOverStart
  OBVIOUS
<1>1. Sound(notify, calm) /\ StateOK /\ FollowsEngine
  BY DEF IInv
<1>2. NotifyTypeOK
  <2>1. DOMAIN notify.queue = 1..Len(notify.queue)
    BY <1>1, LenProperties DEF Sound, QueueOK
  <2>2. QED
    BY <1>1, <2>1 DEF Sound, StateOK, QueueOK, NoDouble, NotifyTypeOK
<1>3. TypeOK
  BY <1>1, <1>2 DEF StateOK, TypeOK
<1>4. QuietAtBoot
  BY <1>1 DEF Sound, MayStart, QuietAtBoot
<1>5. NoReminderOverStart
  BY <1>1 DEF Sound, StartsFirst, NoReminderOverStart
<1>6. QED
  BY <1>1, <1>3, <1>4, <1>5 DEF Inv

-----------------------------------------------------------------------------

LEMMA IInvHolds == Spec => []IInv
<1>1. Init => IInv
  BY InitInvariant
<1>2. IInv /\ [Next]_vars => IInv'
  BY StepInvariant
<1>3. QED
  BY <1>1, <1>2, PTL DEF Spec

\* Types, and NotificationEngine's activeMask_ differs from the set of active types in
\* exactly those whose last start or end did not fit the caller's array: what it learns
\* event by event, with the mutes, the tests and the saves in between, adds up.
THEOREM InvariantHolds == Spec => []Inv
<1>1. IInv => Inv
  BY InvariantSuffices
<1>2. QED
  BY <1>1, IInvHolds, PTL

\* SPEC 26: no alert that was there when the device began to watch is announced as
\* a start, whatever is saved, muted or confirmed in between, and whether or not
\* events were lost.
THEOREM QuietAtBootHolds == Spec => []QuietAtBoot
<1>1. IInv => QuietAtBoot
  BY InvariantSuffices
<1>2. QED
  BY <1>1, IInvHolds, PTL

\* Nothing begins that a mute covers, and nothing plays on that it silenced, however it
\* came to the head of the queue and whatever is saved meanwhile.
THEOREM MutedTypesStaySilent == Spec => MutedTypesSilent
<1> DEFINE Plays == notify'.playing \in {notify.playing, Nothing} \/ Unmuted(notify)'
           Silent == LET now == notify'.playing
                     IN  \/ now \in {Nothing, Test}
                         \/ now.type \notin Covered'
                         \/ now = notify.playing /\ now.type \notin notify'.muted
<1>1. IInv /\ [Next]_vars => Plays
  <2> SUFFICES ASSUME IInv, [Next]_vars
               PROVE  Plays
    OBVIOUS
  <2>1. Sound(notify, calm) /\ policy \in Policies /\ notify \in NotifyStates
    BY DEF IInv, StateOK, Sound
  <2>2. ASSUME NEW snap \in Snapshots, Poll(snap)
        PROVE  Plays
    BY <2>2, PollKeeps
  <2>3. CASE Tick
    <3>1. PICK due \in SUBSET Types, finished \in BOOLEAN, snoozeOver \in BOOLEAN :
            NotifyTick(due, finished, snoozeOver)
      BY <2>3 DEF Tick
    <3>2. notify'.playing \in {notify.playing, Nothing} \/ Unmuted(notify')
      BY <2>1, <3>1, TickKeeps
    <3>3. policy' = policy
      BY <2>3 DEF Tick, Elsewhere
    <3>4. QED
      BY <3>2, <3>3 DEF Unmuted, Silenced
  <2>4. CASE MuteNow \/ UnmuteNow \/ TestNow \/ StopNow
    BY <2>1, <2>4, HandlersKeep DEF MuteNow, UnmuteNow, TestNow, StopNow, Untouched
  <2>5. CASE SaveConfig
    BY <2>5 DEF SaveConfig, SetPolicy
  <2>6. CASE ChangeLocations
    BY <2>1, <2>6, HandlersKeep DEF ChangeLocations
  <2>7. CASE Restart
    BY <2>7 DEF Restart, Idle
  <2>8. CASE UNCHANGED vars
    BY <2>8 DEF vars
  <2>9. QED
    BY <2>2, <2>3, <2>4, <2>5, <2>6, <2>7, <2>8 DEF Next
<1>2. IInv' /\ Plays => Silent
  <2> SUFFICES ASSUME IInv', Plays, notify'.playing \notin {Nothing, Test},
                      notify'.playing.type \in Covered'
               PROVE  notify'.playing = notify.playing /\ notify'.playing.type \notin notify'.muted
    OBVIOUS
  <2>1. Silenced(notify, notify.playing.type, FALSE)'
    BY DEF Covered
  <2>2. notify'.scope # "None" /\ MuteHeard(notify')
    BY <2>1 DEF Silenced, IInv, Sound
  <2>3. notify'.playing.type \notin notify'.muted
    BY <2>2 DEF MuteHeard
  <2>4. ~Unmuted(notify)'
    BY <2>1 DEF Unmuted
  <2>5. QED
    BY <2>3, <2>4
<1>3. IInv /\ IInv' /\ [Next]_vars => [Silent]_<<notify, policy>>
  <2> HIDE DEF Plays, Silent
  <2>1. QED
    BY <1>1, <1>2
<1>4. QED
  BY <1>3, IInvHolds, PTL DEF Spec, MutedTypesSilent

\* SPEC 47: a start never waits behind a reminder.
THEOREM StartsPassReminders == Spec => []NoReminderOverStart
<1>1. IInv => NoReminderOverStart
  BY InvariantSuffices
<1>2. QED
  BY <1>1, IInvHolds, PTL

\* The batch announces the starts and the ends of the snapshot and no other, and lacks
\* one only if it is full and the type comes after all those in it.
THEOREM BatchAnnouncesChanges == Spec => BatchAnnounces
<1> DEFINE Announced(t) ==
             /\ Contains(batch', Started(t)) => ~Active(t) /\ Active(t)'
             /\ Contains(batch', Ended(t)) => Active(t) /\ ~Active(t)'
             /\ Active(t) # Active(t)' =>
                  \/ t \in Changed(batch')
                  \/ Len(batch') = MaxEvents /\ \A i \in DOMAIN batch' : batch'[i].type <= t
           Announces == synced' => \A t \in Types : Announced(t)
<1>1. IInv /\ [Next]_vars => [Announces]_<<types, batch>>
  <2> SUFFICES ASSUME IInv, [Next]_vars, ~UNCHANGED <<types, batch>>
               PROVE  Announces
    OBVIOUS
  <2>1. ASSUME NEW snap \in Snapshots, Poll(snap), NEW t \in Types
        PROVE  Announced(t)
    <3>1. ApplySnapshot(snap) /\ EngineTypeOK
      BY <2>1 DEF Poll, IInv, StateOK
    <3>2. /\ batch' \in Seq(EngineEvents)
          /\ Contains(Events(snap), Started(t)) <=> ~Active(t) /\ Active(t)'
          /\ Contains(Events(snap), Ended(t)) <=> Active(t) /\ ~Active(t)'
          /\ \A e : Contains(batch', e) => Contains(Events(snap), e)
          /\ \A e : Contains(Events(snap), e) /\ ~Contains(batch', e) =>
               /\ Len(batch') = MaxEvents
               /\ \A i \in 1..Len(batch') : batch'[i].type <= e.type
      BY <3>1, EventsEntries
    <3>3. DOMAIN batch' = 1..Len(batch')
      BY <3>2, LenProperties
    <3>4. t \in Changed(batch') <=> Contains(batch', Started(t)) \/ Contains(batch', Ended(t))
      BY <3>2, ChangedTypes
    <3>5. Started(t).type = t /\ Ended(t).type = t
      BY DEF Started, Ended
    <3>6. ASSUME Active(t) # Active(t)', t \notin Changed(batch')
          PROVE  Len(batch') = MaxEvents /\ \A i \in DOMAIN batch' : batch'[i].type <= t
      <4>1. (Active(t) <=> ~Active(t)') /\ Active(t) \in BOOLEAN
        BY <3>6, Zenon DEF Active
      <4>2. \E e \in {Started(t), Ended(t)} : Contains(Events(snap), e) /\ ~Contains(batch', e)
        BY <3>2, <3>4, <3>6, <4>1
      <4>3. QED
        BY <3>2, <3>3, <3>5, <4>2
    <3>7. QED
      BY <3>2, <3>6
  <2>2. CASE Tick \/ MuteNow \/ UnmuteNow \/ TestNow \/ StopNow \/ SaveConfig
    <3>1. batch' = <<>> /\ types' = types
      BY <2>2 DEF Tick, MuteNow, UnmuteNow, TestNow, StopNow, SaveConfig, Elsewhere, SetConfig
    <3>2. \A e : ~Contains(<<>>, e)
      BY DEF Contains
    <3>3. \A t \in Types : Active(t)' = Active(t)
      BY <3>1 DEF Active
    <3>4. QED
      BY <3>1, <3>2, <3>3
  <2>3. CASE ChangeLocations \/ Restart
    <3>1. synced' = FALSE
      BY <2>3 DEF ChangeLocations, Restart, Reset
    <3>2. QED
      BY <3>1
  <2>4. CASE UNCHANGED vars
    BY <2>4 DEF vars, engineVars
  <2>5. QED
    BY <2>1, <2>2, <2>3, <2>4 DEF Next
<1>2. [][Announces]_<<types, batch>> => BatchAnnounces
  BY DEF BatchAnnounces, Started, Ended
<1>3. QED
  BY <1>1, <1>2, IInvHolds, PTL DEF Spec

-----------------------------------------------------------------------------
(* Confirmation counting *)

\* One type, one snapshot: the counters go on agreeing with the history, and the
\* state changes exactly when the history has reached the configured count.
LEMMA StepCounts ==
  ASSUME cfg \in Configs,
         NEW ts \in TypeStatus, NEW in \in Inputs,
         NEW p \in 0..MaxConf, NEW a \in 0..MaxConf, Agrees(ts, p, a),
         NEW p1, p1 = IF Effective(in) # "None" THEN Count(p) ELSE 0,
         NEW a1, a1 = IF Effective(in) = "None" THEN Count(a) ELSE 0
  PROVE  /\ Step(ts, in).status \in TypeStatus
         /\ p1 \in 0..MaxConf /\ a1 \in 0..MaxConf
         /\ Agrees(Step(ts, in).status, p1, a1)
         /\ ts.state = "Active" =>
              (Step(ts, in).status.state = "Inactive" <=> a1 >= cfg.end)
         /\ ts.state # "Active" =>
              (Step(ts, in).status.state = "Active" <=> p1 >= cfg.start)
<1>1. /\ cfg.start \in 1..MaxConf /\ cfg.end \in 1..MaxConf /\ MaxConf \in Nat
      /\ cfg.partialActive \in BOOLEAN
  BY ConfigsAssumption
<1>2. in.coverage \in Coverages /\ in.locs \in Nat
  BY InputsAssumption DEF Coverages
<1>3. Effective(in) \in Coverages
  BY <1>2 DEF Effective, Coverages
<1> USE DEF Step, Becomes, Agrees, Count, TypeStatus, Coverages
<1>4. CASE ts.state = "Active"
  BY <1>1, <1>2, <1>3, <1>4 DEF StepActive, Raised, Fresh
<1>5. CASE ts.state # "Active"
  BY <1>1, <1>2, <1>3, <1>5 DEF StepIdle, Waiting, Raised
<1>6. QED
  BY <1>4, <1>5

LEMMA ConfirmInitInvariant == ConfirmInit => ConfirmInv
<1> SUFFICES ASSUME ConfirmInit
             PROVE  ConfirmInv
  OBVIOUS
<1>1. MaxConf \in Nat
  BY ConfigsAssumption
<1>2. Fresh \in TypeStatus
  BY <1>1 DEF Fresh, TypeStatus, Coverages
<1>3. ConfirmTypeOK
  <2>1. synced \in BOOLEAN
    BY Zenon DEF ConfirmInit, EngineInit
  <2>2. QED
    BY <1>1, <1>2, <2>1 DEF ConfirmInit, EngineInit, ConfirmTypeOK, EngineTypeOK, NoHistory
<1>4. CountersCount
  BY DEF ConfirmInit, EngineInit, NoHistory, CountersCount, Agrees, Fresh
<1>5. QED
  BY <1>3, <1>4 DEF ConfirmInv

\* What StepCounts says of one type holds of each of them after a snapshot.
LEMMA ReceiveCounts ==
  ASSUME ConfirmInv, NEW snap \in Snapshots, Receive(snap), NEW t \in Types
  PROVE  /\ types'[t] \in TypeStatus
         /\ present'[t] \in 0..MaxConf /\ absent'[t] \in 0..MaxConf
         /\ Agrees(types'[t], present'[t], absent'[t])
         /\ Active(t) => (types'[t].state = "Inactive" <=> absent'[t] >= cfg.end)
         /\ ~Active(t) => (types'[t].state = "Active" <=> present'[t] >= cfg.start)
<1>1. /\ cfg \in Configs /\ types[t] \in TypeStatus /\ snap[t] \in Inputs
      /\ present[t] \in 0..MaxConf /\ absent[t] \in 0..MaxConf
      /\ Agrees(types[t], present[t], absent[t])
  BY DEF ConfirmInv, ConfirmTypeOK, EngineTypeOK, CountersCount, Snapshots
<1>2. types'[t] = Step(types[t], snap[t]).status
  BY DEF Receive, ApplySnapshot
<1>3. /\ present'[t] = IF Effective(snap[t]) # "None" THEN Count(present[t]) ELSE 0
      /\ absent'[t] = IF Effective(snap[t]) = "None" THEN Count(absent[t]) ELSE 0
  BY DEF Receive
<1>4. QED
  BY <1>1, <1>2, <1>3, StepCounts DEF Active

LEMMA ConfirmStepInvariant == ConfirmInv /\ [ConfirmNext]_confirmVars => ConfirmInv'
<1> SUFFICES ASSUME ConfirmInv, [ConfirmNext]_confirmVars
             PROVE  ConfirmInv'
  OBVIOUS
<1>1. ASSUME NEW snap \in Snapshots, Receive(snap)
      PROVE  ConfirmInv'
  <2>1. /\ types' = [t \in Types |-> types'[t]]
        /\ present' = [t \in Types |-> present'[t]]
        /\ absent' = [t \in Types |-> absent'[t]]
    BY <1>1 DEF Receive, ApplySnapshot
  <2>2. /\ types' \in [Types -> TypeStatus]
        /\ present' \in [Types -> 0..MaxConf]
        /\ absent' \in [Types -> 0..MaxConf]
        /\ CountersCount'
    BY <1>1, <2>1, ReceiveCounts DEF CountersCount
  <2>3. synced' \in BOOLEAN /\ cfg' = cfg
    BY <1>1, Zenon DEF Receive, ApplySnapshot
  <2>4. QED
    BY <2>2, <2>3 DEF ConfirmInv, ConfirmTypeOK, EngineTypeOK
<1>2. CASE Forget
  <2>1. MaxConf \in Nat
    BY ConfigsAssumption
  <2>2. Fresh \in TypeStatus
    BY <2>1 DEF Fresh, TypeStatus, Coverages
  <2>3. synced' \in BOOLEAN
    BY <1>2, Zenon DEF Forget, Reset
  <2>4. ConfirmTypeOK'
    BY <1>2, <2>1, <2>2, <2>3 DEF ConfirmInv, ConfirmTypeOK, EngineTypeOK, Forget, Reset, NoHistory
  <2>5. CountersCount'
    BY <1>2 DEF Forget, Reset, NoHistory, CountersCount, Agrees, Fresh
  <2>6. QED
    BY <2>4, <2>5 DEF ConfirmInv
<1>3. CASE Save
  BY <1>3 DEF ConfirmInv, ConfirmTypeOK, EngineTypeOK, CountersCount, Save, SetConfig
<1>4. CASE UNCHANGED confirmVars
  BY <1>4 DEF ConfirmInv, ConfirmTypeOK, EngineTypeOK, CountersCount, confirmVars, engineVars
<1>5. QED
  BY <1>1, <1>2, <1>3, <1>4 DEF ConfirmNext

-----------------------------------------------------------------------------

\* ConfirmInv holds after every snapshot, reset() and save.
THEOREM CountingHolds == ConfirmSpec => []ConfirmInv
<1>1. ConfirmInit => ConfirmInv
  BY ConfirmInitInvariant
<1>2. ConfirmInv /\ [ConfirmNext]_confirmVars => ConfirmInv'
  BY ConfirmStepInvariant
<1>3. QED
  BY <1>1, <1>2, PTL DEF ConfirmSpec

\* Every type's status stays well formed, its counters within MaxConf.
THEOREM CountersTyped == ConfirmSpec => []ConfirmTypeOK
<1>1. ConfirmInv => ConfirmTypeOK
  BY DEF ConfirmInv
<1>2. QED
  BY <1>1, CountingHolds, PTL

\* startCount and endCount are the number of snapshots in a row since the last
\* reset that had, or lacked, the type.
THEOREM CountersTrue == ConfirmSpec => []CountersCount
<1>1. ConfirmInv => CountersCount
  BY DEF ConfirmInv
<1>2. QED
  BY <1>1, CountingHolds, PTL

\* SPEC 29, Invariants 5 and 10: no alert ends early, and none late, whatever was
\* saved while its absence was being confirmed.
THEOREM EndsOnTime == ConfirmSpec => EndsWhenConfirmed
<1>1. ConfirmInv /\ Received =>
        \A t \in Types : Active(t) =>
          (types'[t].state = "Inactive" <=> absent'[t] >= cfg.end)
  BY ReceiveCounts DEF Received
<1>2. QED
  BY <1>1, CountingHolds, PTL DEF EndsWhenConfirmed

\* An alert is declared in the very snapshot that confirms it.
THEOREM StartsOnTime == ConfirmSpec => StartsWhenConfirmed
<1>1. ConfirmInv /\ Received =>
        \A t \in Types : ~Active(t) =>
          (types'[t].state = "Active" <=> present'[t] >= cfg.start)
  BY ReceiveCounts DEF Received
<1>2. QED
  BY <1>1, CountingHolds, PTL DEF StartsWhenConfirmed
=============================================================================
