---------------------------- MODULE PanelProofs ----------------------------
(***************************************************************************)
(* What a person at the device meets, for any patterns, any debounce and   *)
(* long-press times and any gaps between the passes of loop(): the siren   *)
(* plays a pattern as it is written, a hold is answered once, the lamps    *)
(* show what they were told.                                               *)
(***************************************************************************)
EXTENDS Panel, WellFoundedInduction, SequenceTheorems, TLAPS

-----------------------------------------------------------------------------
(* Induction on an index *)

LEMMA Upwards ==
  ASSUME NEW N \in Nat, NEW D, 0 \in D, \A i \in 0..(N - 1) : i \in D => i + 1 \in D
  PROVE  \A i \in 0..N : i \in D
<1> DEFINE Less == OpToRel(<, Nat)
           Bad == {i \in 0..N : i \notin D}
<1> SUFFICES ASSUME Bad # {}
             PROVE  FALSE
  OBVIOUS
<1>1. Bad \in SUBSET Nat
  OBVIOUS
<1>2. \A x, y \in Nat : x < y => <<x, y>> \in Less
  BY DEF OpToRel
<1>3. IsWellFoundedOn(Less, Nat)
  BY NatLessThanWellFounded
<1> HIDE DEF Less
<1>4. PICK x \in Bad : \A y \in Bad : ~(<<y, x>> \in Less)
  BY <1>1, <1>3, WFMin
<1>5. \A y \in Bad : ~(y < x)
  BY <1>1, <1>2, <1>4
<1>6. x - 1 \in 0..(N - 1) /\ x - 1 \notin Bad /\ (x - 1) + 1 = x
  BY <1>5
<1>7. QED
  BY <1>4, <1>6

Solutions(N, S, base, step) ==
  {f \in [0..N -> S] : f[0] = base /\ \A i \in 1..N : f[i] = step[i][f[i - 1]]}

\* A recursion from 0 to N whose steps stay in S has a solution.
LEMMA Recursion ==
  ASSUME NEW N \in Nat, NEW S, NEW base \in S, NEW step \in [1..N -> [S -> S]]
  PROVE  \E f : f \in Solutions(N, S, base, step)
<1> DEFINE Solves(f, k) == f[0] = base /\ \A i \in 1..k : f[i] = step[i][f[i - 1]]
           D == {k \in 0..N : \E f \in [0..k -> S] : Solves(f, k)}
<1>1. 0 \in D
  <2> DEFINE f == [i \in 0..0 |-> base]
  <2>1. f \in [0..0 -> S] /\ Solves(f, 0)
    OBVIOUS
  <2> HIDE DEF f
  <2>2. QED
    BY <2>1
<1>2. ASSUME NEW k \in 0..(N - 1), k \in D
      PROVE  k + 1 \in D
  <2>1. PICK f \in [0..k -> S] : Solves(f, k)
    BY <1>2
  <2>2. step[k + 1] \in [S -> S] /\ f[k] \in S
    OBVIOUS
  <2>3. step[k + 1][f[k]] \in S
    BY <2>2
  <2> DEFINE g == [i \in 0..(k + 1) |-> IF i <= k THEN f[i] ELSE step[k + 1][f[k]]]
  <2>4. g \in [0..(k + 1) -> S] /\ g[0] = base
    BY <2>1, <2>3
  <2>5. ASSUME NEW i \in 1..(k + 1)
        PROVE  g[i] = step[i][g[i - 1]]
    <3>1. CASE i <= k
      <4>1. g[i] = f[i] /\ g[i - 1] = f[i - 1] /\ i \in 1..k
        BY <3>1
      <4>2. QED
        BY <2>1, <4>1
    <3>2. CASE i = k + 1
      <4>1. g[i] = step[k + 1][f[k]] /\ g[i - 1] = f[k]
        BY <3>2
      <4>2. QED
        BY <3>2, <4>1
    <3>3. QED
      BY <3>1, <3>2
  <2> HIDE DEF g
  <2>6. Solves(g, k + 1) /\ k + 1 \in 0..N
    BY <2>4, <2>5
  <2>7. QED
    BY <2>4, <2>6
<1>3. N \in D
  <2> HIDE DEF D
  <2>1. \A k \in 0..N : k \in D
    BY <1>1, <1>2, Upwards
  <2>2. QED
    BY <2>1
<1>4. PICK f \in [0..N -> S] : Solves(f, N)
  BY <1>3
<1>5. f \in Solutions(N, S, base, step)
  BY <1>4 DEF Solutions
<1>6. QED
  BY <1>5

-----------------------------------------------------------------------------
(* Patterns *)

LEMMA StepsKnown ==
  ASSUME NEW p \in Patterns
  PROVE  /\ p.enabled \in BOOLEAN /\ p.repeat \in Nat /\ Len(p.steps) \in Nat
         /\ DOMAIN p.steps = 1..Len(p.steps)
         /\ \A i \in 1..Len(p.steps) : StepMs(p, i) \in Nat \ {0}
<1>1. p \in [enabled : BOOLEAN, repeat : Nat, steps : Seq(Int \ {0})]
  BY PatternsAssumption
<1>2. \A i \in 1..Len(p.steps) : p.steps[i] \in Int \ {0}
  BY <1>1, ElementOfSeq
<1>3. QED
  BY <1>1, <1>2 DEF StepMs, StepOn

LEMMA EndsKnown ==
  ASSUME NEW p \in Patterns
  PROVE  /\ Ends(p) \in [0..Len(p.steps) -> Nat] /\ Ends(p)[0] = 0
         /\ \A i \in 1..Len(p.steps) : Ends(p)[i] = Ends(p)[i - 1] + StepMs(p, i)
<1> DEFINE N == Len(p.steps)
           step == [i \in 1..N |-> [n \in Nat |-> n + StepMs(p, i)]]
           Sums(f) == f = [i \in 0..N |-> IF i = 0 THEN 0 ELSE f[i - 1] + StepMs(p, i)]
<1>1. N \in Nat /\ \A i \in 1..N : StepMs(p, i) \in Nat
  BY StepsKnown
<1>2. step \in [1..N -> [Nat -> Nat]]
  BY <1>1
<1>3. \A i \in 1..N, n \in Nat : step[i][n] = n + StepMs(p, i)
  OBVIOUS
<1> HIDE DEF N, step
<1>4. PICK f \in [0..N -> Nat] : f[0] = 0 /\ \A i \in 1..N : f[i] = step[i][f[i - 1]]
  <2>1. N \in Nat
    BY <1>1
  <2>2. PICK f : f \in Solutions(N, Nat, 0, step)
    BY <1>2, <2>1, Recursion
  <2>3. QED
    BY <2>2 DEF Solutions
<1>5. ASSUME NEW i \in 1..N
      PROVE  f[i] = f[i - 1] + StepMs(p, i)
  <2>1. i - 1 \in 0..N
    BY <1>1
  <2>2. f[i - 1] \in Nat
    BY <2>1
  <2>3. QED
    BY <1>3, <1>4, <2>2
<1>6. Sums(f)
  <2> DEFINE h == [i \in 0..N |-> IF i = 0 THEN 0 ELSE f[i - 1] + StepMs(p, i)]
  <2>1. \A i \in 0..N : f[i] = h[i]
    BY <1>1, <1>4, <1>5
  <2>2. QED
    BY <1>4, <2>1
<1>7. Sums(CHOOSE h : Sums(h))
  BY <1>6, Zenon
<1>8. Ends(p) = CHOOSE h : Sums(h)
  BY Zenon DEF Ends, N
<1> DEFINE e == Ends(p)
<1>9. e = [i \in 0..N |-> IF i = 0 THEN 0 ELSE e[i - 1] + StepMs(p, i)]
  BY <1>7, <1>8, Zenon
<1> HIDE DEF e
<1>10. DOMAIN e = 0..N /\ e[0] = 0 /\ \A i \in 1..N : e[i] = e[i - 1] + StepMs(p, i)
  BY <1>1, <1>9
<1> DEFINE D == {i \in Nat : e[i] \in Nat}
<1>11. \A i \in 0..N : i \in D
  <2>1. 0 \in D
    BY <1>10
  <2>2. ASSUME NEW i \in 0..(N - 1), i \in D
        PROVE  i + 1 \in D
    <3>1. i + 1 \in 1..N /\ (i + 1) - 1 = i
      BY <1>1
    <3>2. QED
      BY <1>1, <1>10, <2>2, <3>1
  <2> HIDE DEF D
  <2>3. QED
    BY <1>1, <2>1, <2>2, Upwards
<1>12. e \in [0..N -> Nat]
  BY <1>9, <1>10, <1>11
<1>13. QED
  BY <1>10, <1>12 DEF e, N

\* Steps follow each other.
LEMMA EndsGrow ==
  ASSUME NEW p \in Patterns, NEW j \in 0..Len(p.steps)
  PROVE  \A i \in 0..j : Ends(p)[i] <= Ends(p)[j]
<1> DEFINE e == Ends(p)
           N == Len(p.steps)
           D == {k \in Nat : k <= N => \A i \in 0..k : e[i] <= e[k]}
<1>1. N \in Nat /\ e \in [0..N -> Nat]
      /\ \A i \in 1..N : e[i] = e[i - 1] + StepMs(p, i) /\ StepMs(p, i) \in Nat
  BY EndsKnown, StepsKnown
<1> HIDE DEF e, N
<1>2. 0 \in D
  BY <1>1
<1>3. ASSUME NEW k \in 0..(N - 1), k \in D
      PROVE  k + 1 \in D
  <2>1. k + 1 \in 1..N /\ (k + 1) - 1 = k /\ k \in 0..N
    BY <1>1
  <2>2. e[k + 1] >= e[k] /\ e[k] \in Nat /\ e[k + 1] \in Nat
    BY <1>1, <2>1
  <2>3. ASSUME NEW i \in 0..(k + 1)
        PROVE  e[i] <= e[k + 1]
    <3>1. CASE i = k + 1
      BY <2>2, <3>1
    <3>2. CASE i \in 0..k
      <4>1. e[i] <= e[k] /\ e[i] \in Nat
        BY <1>1, <1>3, <2>1, <3>2
      <4>2. QED
        BY <2>2, <4>1
    <3>3. QED
      BY <2>1, <3>1, <3>2
  <2>4. QED
    BY <2>3
<1> HIDE DEF D
<1>4. \A k \in 0..N : k \in D
  BY <1>1, <1>2, <1>3, Upwards
<1>5. j \in 0..N /\ j \in D /\ j <= N
  BY <1>1, <1>4 DEF N
<1>6. QED
  BY <1>5 DEF D, e

\* A step is over when any later one begins.
LEMMA InOrder ==
  ASSUME NEW p \in Patterns, NEW r \in Nat, NEW q \in Nat,
         NEW i \in 1..Len(p.steps), NEW j \in 1..Len(p.steps),
         r < q \/ (r = q /\ i < j)
  PROVE  Begins(p, r, i) + StepMs(p, i) <= Begins(p, q, j)
<1> DEFINE e == Ends(p)
           N == Len(p.steps)
           T == e[N]
<1>1. N \in Nat /\ e \in [0..N -> Nat] /\ e[i] = e[i - 1] + StepMs(p, i)
  BY EndsKnown, StepsKnown
<1>2. Begins(p, r, i) = r * T + e[i - 1] /\ Begins(p, q, j) = q * T + e[j - 1]
  BY DEF Begins
<1>3. N \in 0..N /\ i \in 0..N /\ i - 1 \in 0..N /\ j - 1 \in 0..N
  BY <1>1
<1>4. e[i] <= T
  BY <1>3, EndsGrow
<1>5. i < j => e[i] <= e[j - 1]
  <2>1. i < j => i \in 0..(j - 1)
    BY <1>1
  <2>2. QED
    BY <1>3, <2>1, EndsGrow
<1>6. StepMs(p, i) \in Nat
  BY StepsKnown
<1> HIDE DEF e, N
<1>7. e[i - 1] \in Nat /\ e[j - 1] \in Nat /\ e[i] \in Nat /\ T \in Nat
  BY <1>1, <1>3
<1> HIDE DEF T
<1>8. r * T \in Nat /\ q * T \in Nat
  BY <1>7
<1>9. CASE r = q
  BY <1>1, <1>2, <1>5, <1>6, <1>7, <1>8, <1>9
<1>10. CASE r < q
  <2>1. (r + 1) * T = r * T + T
    BY <1>7
  <2>2. q - (r + 1) \in Nat
    BY <1>10
  <2>3. \A d \in Nat : d * T \in Nat /\ ((r + 1) + d) * T = (r + 1) * T + d * T
    BY <1>7
  <2>4. PICK d \in Nat : q = (r + 1) + d
    BY <2>2
  <2>5. d * T \in Nat /\ q * T = (r * T + T) + d * T
    BY <2>1, <2>3, <2>4
  <2> DEFINE rT == r * T
             qT == q * T
             dT == d * T
  <2>6. rT \in Nat /\ dT \in Nat /\ qT = (rT + T) + dT
    BY <1>8, <2>5
  <2>7. Begins(p, r, i) = rT + e[i - 1] /\ Begins(p, q, j) = qT + e[j - 1]
    BY <1>2
  <2> HIDE DEF rT, qT, dT
  <2>8. Begins(p, r, i) + StepMs(p, i) = rT + e[i]
    BY <1>1, <1>6, <1>7, <2>6, <2>7
  <2>9. rT + e[i] <= ((rT + T) + dT) + e[j - 1]
    BY <1>4, <1>7, <2>6
  <2>10. QED
    BY <2>6, <2>7, <2>8, <2>9, Zenon
<1>11. QED
  BY <1>9, <1>10

\* The next step begins when one is over; after the last, the first of the next time.
LEMMA NextBegins ==
  ASSUME NEW p \in Patterns, NEW r \in Nat, NEW i \in 1..Len(p.steps)
  PROVE  /\ Begins(p, r, i) \in Nat
         /\ i < Len(p.steps) => Begins(p, r, i + 1) = Begins(p, r, i) + StepMs(p, i)
         /\ i = Len(p.steps) => Begins(p, r + 1, 1) = Begins(p, r, i) + StepMs(p, i)
<1> DEFINE e == Ends(p)
           N == Len(p.steps)
           T == e[N]
<1>1. N \in Nat /\ e \in [0..N -> Nat] /\ e[0] = 0 /\ e[i] = e[i - 1] + StepMs(p, i)
  BY EndsKnown, StepsKnown
<1>2. N \in 0..N /\ i \in 0..N /\ i - 1 \in 0..N
  BY <1>1
<1>3. StepMs(p, i) \in Nat
  BY StepsKnown
<1>4. /\ Begins(p, r, i) = r * T + e[i - 1] /\ Begins(p, r, i + 1) = r * T + e[(i + 1) - 1]
      /\ Begins(p, r + 1, 1) = (r + 1) * T + e[1 - 1]
  BY DEF Begins
<1>5. (i + 1) - 1 = i /\ 1 - 1 = 0
  OBVIOUS
<1>6. i = N => e[i] = T
  OBVIOUS
<1> HIDE DEF e, N
<1>7. e[i - 1] \in Nat /\ e[i] \in Nat /\ T \in Nat
  BY <1>1, <1>2
<1> HIDE DEF T
<1>8. r * T \in Nat /\ (r + 1) * T = r * T + T
  BY <1>7
<1>9. Begins(p, r, i + 1) = r * T + e[i] /\ Begins(p, r + 1, 1) = (r * T + T) + 0
  BY <1>1, <1>4, <1>5, <1>8
<1> DEFINE rT == r * T
<1>10. /\ rT \in Nat /\ Begins(p, r, i) = rT + e[i - 1]
       /\ Begins(p, r, i + 1) = rT + e[i] /\ Begins(p, r + 1, 1) = (rT + T) + 0
  BY <1>4, <1>8, <1>9
<1> HIDE DEF rT
<1>11. e[i] = e[i - 1] + StepMs(p, i)
  BY <1>1
<1>12. /\ Begins(p, r, i) \in Nat
       /\ Begins(p, r, i + 1) = Begins(p, r, i) + StepMs(p, i)
       /\ i = N => Begins(p, r + 1, 1) = Begins(p, r, i) + StepMs(p, i)
  BY <1>3, <1>6, <1>7, <1>10, <1>11
<1>13. QED
  BY <1>12 DEF N

-----------------------------------------------------------------------------
(* The player *)

\* What is kept of a pattern that was started t ago: the current step began when the
\* pattern says, and an ON step is left; or else the pattern is over.
Playing(s, t) ==
  LET p == s.pattern
  IN  IF s.running
      THEN /\ p.enabled /\ HasOn(p) /\ s.rep < p.repeat /\ s.idx \in 1..Len(p.steps)
           /\ Begins(p, s.rep, s.idx) + s.phase = t
           /\ \/ s.rep + 1 < p.repeat
              \/ \E i \in s.idx..Len(p.steps) : StepOn(p, i)
      ELSE Over(p, t)

\* Repetition r of step i is an ON step of the signal.
Tone(p, r, i) ==
  p.enabled /\ r \in 0..(p.repeat - 1) /\ i \in 1..Len(p.steps) /\ StepOn(p, i)

LEMMA OverKnown ==
  ASSUME NEW p \in Patterns, NEW t \in Nat
  PROVE  Over(p, t) <=> \A r, i : Tone(p, r, i) => Begins(p, r, i) + StepMs(p, i) <= t
<1>1. DOMAIN p.steps = 1..Len(p.steps)
  BY StepsKnown
<1>2. \A r, i : Tone(p, r, i) <=>
        r \in {n \in 0..(p.repeat - 1) : p.enabled} /\ i \in {n \in DOMAIN p.steps : StepOn(p, n)}
  BY <1>1 DEF Tone
<1> DEFINE B(r, i) == Begins(p, r, i)
           E(r, i) == Begins(p, r, i) + StepMs(p, i)
           R == {n \in 0..(p.repeat - 1) : p.enabled}
           I == {n \in DOMAIN p.steps : StepOn(p, n)}
<1>3. Over(p, t) <=> \A tone \in {<<B(r, i), E(r, i)>> : r \in R, i \in I} : tone[2] <= t
  BY DEF Over, Tones
<1> DEFINE S == {<<B(r, i), E(r, i)>> : r \in R, i \in I}
<1>4. \A r, i : Tone(p, r, i) <=> r \in R /\ i \in I
  BY <1>2
<1> HIDE DEF B, E, R, I
<1>5. Over(p, t) <=> \A r \in R, i \in I : E(r, i) <= t
  <2>1. \A r, i : <<B(r, i), E(r, i)>>[2] = E(r, i)
    OBVIOUS
  <2>2. \A r \in R, i \in I : <<B(r, i), E(r, i)>> \in S
    OBVIOUS
  <2>3. \A tone \in S : \E r \in R, i \in I : tone = <<B(r, i), E(r, i)>>
    OBVIOUS
  <2>4. Over(p, t) <=> \A tone \in S : tone[2] <= t
    BY <1>3
  <2> HIDE DEF S
  <2>5. ASSUME Over(p, t), NEW r \in R, NEW i \in I
        PROVE  E(r, i) <= t
    BY <2>1, <2>2, <2>4, <2>5
  <2>6. ASSUME \A r \in R, i \in I : E(r, i) <= t, NEW tone \in S
        PROVE  tone[2] <= t
    <3>1. PICK r \in R, i \in I : tone = <<B(r, i), E(r, i)>>
      BY <2>3
    <3>2. tone[2] = E(r, i)
      BY <2>1, <3>1
    <3>3. QED
      BY <2>6, <3>2
  <2>7. QED
    BY <2>4, <2>5, <2>6
<1>6. QED
  BY <1>4, <1>5 DEF E

LEMMA SoundsKnown ==
  ASSUME NEW p \in Patterns, NEW t \in Nat
  PROVE  Sounds(p, t) <=>
           \E r, i : /\ Tone(p, r, i) /\ Begins(p, r, i) <= t
                     /\ t < Begins(p, r, i) + StepMs(p, i)
<1>1. DOMAIN p.steps = 1..Len(p.steps)
  BY StepsKnown
<1>2. \A r, i : Tone(p, r, i) <=>
        r \in {n \in 0..(p.repeat - 1) : p.enabled} /\ i \in {n \in DOMAIN p.steps : StepOn(p, n)}
  BY <1>1 DEF Tone
<1> DEFINE B(r, i) == Begins(p, r, i)
           E(r, i) == Begins(p, r, i) + StepMs(p, i)
           R == {n \in 0..(p.repeat - 1) : p.enabled}
           I == {n \in DOMAIN p.steps : StepOn(p, n)}
<1>3. Sounds(p, t) <=>
        \E tone \in {<<B(r, i), E(r, i)>> : r \in R, i \in I} : tone[1] <= t /\ t < tone[2]
  BY DEF Sounds, Tones
<1> DEFINE S == {<<B(r, i), E(r, i)>> : r \in R, i \in I}
<1>4. \A r, i : Tone(p, r, i) <=> r \in R /\ i \in I
  BY <1>2
<1> HIDE DEF B, E, R, I
<1>5. Sounds(p, t) <=> \E r \in R, i \in I : B(r, i) <= t /\ t < E(r, i)
  <2>1. \A r, i : <<B(r, i), E(r, i)>>[1] = B(r, i) /\ <<B(r, i), E(r, i)>>[2] = E(r, i)
    OBVIOUS
  <2>2. \A r \in R, i \in I : <<B(r, i), E(r, i)>> \in S
    OBVIOUS
  <2>3. \A tone \in S : \E r \in R, i \in I : tone = <<B(r, i), E(r, i)>>
    OBVIOUS
  <2>4. Sounds(p, t) <=> \E tone \in S : tone[1] <= t /\ t < tone[2]
    BY <1>3
  <2> HIDE DEF S
  <2>5. ASSUME NEW r \in R, NEW i \in I, B(r, i) <= t, t < E(r, i)
        PROVE  Sounds(p, t)
    BY <2>1, <2>2, <2>4, <2>5
  <2>6. ASSUME Sounds(p, t)
        PROVE  \E r \in R, i \in I : B(r, i) <= t /\ t < E(r, i)
    <3>1. PICK tone \in S : tone[1] <= t /\ t < tone[2]
      BY <2>4, <2>6
    <3>2. PICK r \in R, i \in I : tone = <<B(r, i), E(r, i)>>
      BY <2>3
    <3>3. tone[1] = B(r, i) /\ tone[2] = E(r, i)
      BY <2>1, <3>2
    <3>4. QED
      BY <3>1, <3>3
  <2>7. QED
    BY <2>5, <2>6
<1>6. QED
  BY <1>4, <1>5 DEF B, E

\* A step that begins in time is played on, unless no ON step is left.
LEMMA SkipPlays ==
  ASSUME NEW u \in Schedulers, NEW t \in Nat,
         u.running, u.pattern.enabled, HasOn(u.pattern), u.idx \in 1..Len(u.pattern.steps),
         Begins(u.pattern, u.rep, u.idx) + u.phase = t
  PROVE  /\ SkipSilence(u) \in Schedulers /\ SkipSilence(u).pattern = u.pattern
         /\ SkipSilence(u).phase = u.phase /\ Playing(SkipSilence(u), t)
<1> DEFINE v == SkipSilence(u)
           p == u.pattern
           more == \/ u.rep + 1 < p.repeat
                   \/ \E i \in u.idx..Len(p.steps) : StepOn(p, i)
<1>1. p \in Patterns /\ u.rep \in Nat /\ u.phase \in Nat
  BY DEF Schedulers
<1>2. /\ v.pattern = p /\ v.rep = u.rep /\ v.idx = u.idx /\ v.phase = u.phase
      /\ v.running = (u.rep < p.repeat /\ more) /\ v \in Schedulers
  BY DEF SkipSilence, Schedulers
<1>3. CASE v.running
  BY <1>2, <1>3 DEF Playing
<1>4. CASE ~v.running
  <2> SUFFICES ASSUME NEW r, NEW i, Tone(p, r, i)
               PROVE  Begins(p, r, i) + StepMs(p, i) <= t
    BY <1>1, <1>2, <1>4, OverKnown DEF Playing
  <2>1. /\ r \in 0..(p.repeat - 1) /\ i \in 1..Len(p.steps) /\ StepOn(p, i)
        /\ p.repeat \in Nat /\ Len(p.steps) \in Nat
    BY <1>1, StepsKnown DEF Tone
  <2>2. r \in Nat /\ r < p.repeat
    BY <2>1
  <2>3. ~(u.rep < p.repeat /\ more)
    BY <1>2, <1>4, Zenon
  <2>4. r < u.rep \/ (r = u.rep /\ i < u.idx)
    BY <1>1, <2>1, <2>2, <2>3
  <2>5. Begins(p, r, i) + StepMs(p, i) <= Begins(p, u.rep, u.idx)
    BY <1>1, <2>1, <2>2, <2>4, InOrder
  <2>6. /\ Begins(p, r, i) \in Nat /\ StepMs(p, i) \in Nat
        /\ Begins(p, u.rep, u.idx) \in Nat
    BY <1>1, <2>1, <2>2, StepsKnown, NextBegins
  <2>7. QED
    BY <1>1, <2>5, <2>6
<1>5. QED
  BY <1>2, <1>3, <1>4

LEMMA StartPlays ==
  ASSUME NEW p \in Patterns
  PROVE  Start(p) \in Schedulers /\ Start(p).pattern = p /\ Playing(Start(p), 0)
<1> DEFINE can == p.enabled /\ p.repeat > 0 /\ HasOn(p)
           u == [pattern |-> p, rep |-> 0, idx |-> 1, phase |-> 0, running |-> can]
<1>1. /\ Start(p) = SkipSilence(u) /\ u \in Schedulers
      /\ u.pattern = p /\ u.rep = 0 /\ u.idx = 1 /\ u.phase = 0 /\ u.running = can
  BY DEF Start, Schedulers
<1> HIDE DEF u
<1>2. CASE can
  <2>1. 1 \in 1..Len(p.steps)
    BY <1>2, StepsKnown DEF HasOn
  <2>2. Begins(p, 0, 1) = 0
    <3>1. 0 \in 0..Len(p.steps) /\ Len(p.steps) \in 0..Len(p.steps)
      BY StepsKnown
    <3>2. Ends(p)[0] = 0 /\ Ends(p)[Len(p.steps)] \in Nat
      BY <3>1, EndsKnown
    <3>3. 0 * Ends(p)[Len(p.steps)] = 0 /\ 1 - 1 = 0
      BY <3>2
    <3>4. QED
      BY <3>2, <3>3 DEF Begins
  <2>3. Begins(u.pattern, u.rep, u.idx) + u.phase = 0
    BY <1>1, <2>2
  <2>4. QED
    BY <1>1, <1>2, <2>1, <2>3, SkipPlays
<1>3. CASE ~can
  <2>1. /\ SkipSilence(u) \in Schedulers /\ ~SkipSilence(u).running
        /\ SkipSilence(u).pattern = p
    BY <1>1, <1>3 DEF SkipSilence, Schedulers
  <2>2. \A r, i : ~Tone(p, r, i)
    BY <1>3, StepsKnown DEF Tone, HasOn
  <2>3. Over(p, 0)
    BY <2>2, OverKnown
  <2>4. QED
    BY <1>1, <2>1, <2>3 DEF Playing
<1>4. QED
  BY <1>2, <1>3

LEMMA NextStepPlays ==
  ASSUME NEW s \in Schedulers, NEW t \in Nat, Playing(s, t), Passed(s)
  PROVE  /\ NextStep(s) \in Schedulers /\ NextStep(s).pattern = s.pattern
         /\ NextStep(s).phase < s.phase /\ Playing(NextStep(s), t)
<1> DEFINE p == s.pattern
           last == s.idx = Len(p.steps)
           u == [s EXCEPT !.phase = @ - StepMs(p, s.idx),
                          !.idx = IF last THEN 1 ELSE @ + 1,
                          !.rep = IF last THEN @ + 1 ELSE @]
<1>1. NextStep(s) = SkipSilence(u)
  BY DEF NextStep
<1>2. /\ p \in Patterns /\ s.rep \in Nat /\ s.phase \in Nat /\ s.running
      /\ s.phase >= StepMs(p, s.idx)
  BY DEF Passed, Schedulers
<1>3. /\ p.enabled /\ HasOn(p) /\ s.idx \in 1..Len(p.steps)
      /\ Begins(p, s.rep, s.idx) + s.phase = t
  BY <1>2 DEF Playing
<1>4. StepMs(p, s.idx) \in Nat \ {0} /\ Len(p.steps) \in Nat
  BY <1>2, <1>3, StepsKnown
<1> DEFINE f == s.phase - StepMs(p, s.idx)
           k == IF last THEN 1 ELSE s.idx + 1
           n == IF last THEN s.rep + 1 ELSE s.rep
<1>5. f \in Nat /\ k \in Nat \ {0} /\ n \in Nat
  BY <1>2, <1>3, <1>4
<1>6. s \in [pattern : Patterns, rep : Nat, idx : Nat \ {0}, phase : Nat, running : BOOLEAN]
  BY DEF Schedulers
<1>7. u = [s EXCEPT !.phase = f, !.idx = k, !.rep = n]
  BY <1>6
<1> HIDE DEF f, k, n, u
<1>8. /\ u \in Schedulers /\ u.pattern = p /\ u.running = s.running
      /\ u.phase = f /\ u.idx = k /\ u.rep = n
  BY <1>5, <1>6, <1>7 DEF Schedulers
<1>9. /\ u \in Schedulers /\ u.pattern = p /\ u.running /\ u.phase = s.phase - StepMs(p, s.idx)
      /\ u.idx = (IF last THEN 1 ELSE s.idx + 1) /\ u.rep = (IF last THEN s.rep + 1 ELSE s.rep)
  BY <1>2, <1>8 DEF f, k, n
<1>10. u.idx \in 1..Len(p.steps)
  BY <1>3, <1>4, <1>9
<1>11. Begins(p, s.rep, s.idx) \in Nat
      /\ Begins(p, u.rep, u.idx) = Begins(p, s.rep, s.idx) + StepMs(p, s.idx)
  <2>1. /\ Begins(p, s.rep, s.idx) \in Nat
        /\ s.idx < Len(p.steps) =>
             Begins(p, s.rep, s.idx + 1) = Begins(p, s.rep, s.idx) + StepMs(p, s.idx)
        /\ s.idx = Len(p.steps) =>
             Begins(p, s.rep + 1, 1) = Begins(p, s.rep, s.idx) + StepMs(p, s.idx)
    BY <1>2, <1>3, NextBegins
  <2>2. CASE last
    BY <1>9, <2>1, <2>2
  <2>3. CASE ~last
    BY <1>3, <1>4, <1>9, <2>1, <2>3
  <2>4. QED
    BY <2>2, <2>3
<1>12. Begins(u.pattern, u.rep, u.idx) + u.phase = t
  BY <1>2, <1>3, <1>4, <1>9, <1>11
<1>13. /\ SkipSilence(u) \in Schedulers /\ SkipSilence(u).pattern = p
       /\ SkipSilence(u).phase = u.phase /\ Playing(SkipSilence(u), t)
  BY <1>3, <1>9, <1>10, <1>12, SkipPlays
<1>14. QED
  BY <1>1, <1>2, <1>4, <1>9, <1>13

\* tick()'s loop passes every step that is over, and no other.
LEMMA AdvancePlays ==
  ASSUME NEW s \in Schedulers, NEW t \in Nat, Playing(s, t)
  PROVE  /\ Advance(s) \in Schedulers /\ Advance(s).pattern = s.pattern
         /\ Playing(Advance(s), t) /\ ~Passed(Advance(s))
<1> DEFINE N == s.phase
           Moved(x) == IF Passed(x) THEN NextStep(x) ELSE x
           S == {x \in Schedulers : x.pattern = s.pattern /\ Playing(x, t)}
           step == [n \in 1..N |-> [x \in S |-> Moved(x)]]
           Loop(f) == f = [n \in 0..N |-> IF n = 0 THEN s ELSE Moved(f[n - 1])]
<1>1. N \in Nat /\ s \in S
  BY DEF Schedulers
<1>2. ASSUME NEW x \in S
      PROVE  Moved(x) \in S /\ (Passed(x) => Moved(x).phase < x.phase)
  BY NextStepPlays
<1>3. \A n \in 1..N, x \in S : step[n][x] = Moved(x)
  OBVIOUS
<1> HIDE DEF N, Moved, S
<1>4. step \in [1..N -> [S -> S]]
  BY <1>2
<1> HIDE DEF step
<1>5. PICK f : f \in Solutions(N, S, s, step)
  BY <1>1, <1>4, Recursion
<1>6. f \in [0..N -> S] /\ f[0] = s /\ \A n \in 1..N : f[n] = Moved(f[n - 1])
  <2>1. f \in [0..N -> S] /\ f[0] = s /\ \A n \in 1..N : f[n] = step[n][f[n - 1]]
    BY <1>5 DEF Solutions
  <2>2. ASSUME NEW n \in 1..N
        PROVE  f[n] = Moved(f[n - 1])
    <3>1. n - 1 \in 0..N
      BY <1>1
    <3>2. f[n - 1] \in S
      BY <2>1, <3>1
    <3>3. QED
      BY <1>3, <2>1, <3>2
  <2>3. QED
    BY <2>1, <2>2
<1>7. Loop(f)
  <2> DEFINE h == [n \in 0..N |-> IF n = 0 THEN s ELSE Moved(f[n - 1])]
  <2>1. \A n \in 0..N : f[n] = h[n]
    BY <1>1, <1>6
  <2>2. QED
    BY <1>6, <2>1
<1>8. Loop(CHOOSE h : Loop(h))
  BY <1>7, Zenon
<1> DEFINE e == CHOOSE h : Loop(h)
<1>9. Advance(s) = e[N]
  BY Zenon DEF Advance, Moved, N
<1>10. e = [n \in 0..N |-> IF n = 0 THEN s ELSE Moved(e[n - 1])]
  BY <1>8, Zenon
<1> HIDE DEF e
<1>11. e[0] = s /\ \A n \in 1..N : e[n] = Moved(e[n - 1])
  BY <1>1, <1>10
<1> DEFINE D == {n \in Nat : /\ e[n] \in S
                             /\ Passed(e[n]) => e[n].phase <= N - n}
<1>12. 0 \in D
  BY <1>1, <1>11 DEF N
<1>13. ASSUME NEW n \in 0..(N - 1), n \in D
       PROVE  n + 1 \in D
  <2>1. n + 1 \in 1..N /\ (n + 1) - 1 = n
    BY <1>1
  <2>2. e[n + 1] = Moved(e[n]) /\ e[n] \in S
    BY <1>11, <1>13, <2>1
  <2>3. e[n + 1] \in S
    BY <1>2, <2>2
  <2>4. \A x \in S : x.phase \in Nat
    BY DEF S, Schedulers
  <2>5. CASE Passed(e[n])
    <3>1. e[n + 1].phase < e[n].phase /\ e[n].phase <= N - n
      BY <1>2, <1>13, <2>2, <2>5
    <3>2. e[n + 1].phase \in Nat /\ e[n].phase \in Nat
      BY <2>2, <2>3, <2>4
    <3>3. e[n + 1].phase <= N - (n + 1)
      BY <1>1, <3>1, <3>2
    <3>4. QED
      BY <2>3, <3>3
  <2>6. CASE ~Passed(e[n])
    <3>1. e[n + 1] = e[n]
      BY <2>2, <2>6 DEF Moved
    <3>2. ~Passed(e[n + 1])
      BY <2>6, <3>1, Zenon
    <3>3. QED
      BY <2>3, <3>2
  <2>7. QED
    BY <2>5, <2>6
<1> HIDE DEF D
<1>14. N \in D
  <2>1. \A n \in 0..N : n \in D
    BY <1>1, <1>12, <1>13, Upwards
  <2>2. QED
    BY <1>1, <2>1
<1>15. e[N] \in S /\ (Passed(e[N]) => e[N].phase <= 0)
  BY <1>1, <1>14 DEF D
<1>16. ~Passed(e[N])
  <2> SUFFICES ASSUME Passed(e[N])
               PROVE  FALSE
    OBVIOUS
  <2>1. e[N].pattern \in Patterns /\ e[N].running /\ Playing(e[N], t)
        /\ e[N].phase >= StepMs(e[N].pattern, e[N].idx) /\ e[N].phase \in Nat
    BY <1>15 DEF S, Schedulers, Passed
  <2>2. e[N].idx \in 1..Len(e[N].pattern.steps)
    BY <2>1 DEF Playing
  <2>3. StepMs(e[N].pattern, e[N].idx) \in Nat \ {0}
    BY <2>1, <2>2, StepsKnown
  <2>4. QED
    BY <1>15, <2>1, <2>3
<1>17. QED
  BY <1>9, <1>15, <1>16 DEF S

\* What tick() then answers is what the pattern says.
LEMMA OutputTrue ==
  ASSUME NEW s \in Schedulers, NEW t \in Nat, Playing(s, t), ~Passed(s)
  PROVE  /\ Output(s) = (s.running /\ Sounds(s.pattern, t))
         /\ s.running => ~Over(s.pattern, t)
<1> DEFINE p == s.pattern
           ms == StepMs(p, s.idx)
           b == Begins(p, s.rep, s.idx)
<1>1. /\ p \in Patterns /\ s.rep \in Nat /\ s.phase \in Nat /\ s.running \in BOOLEAN
  BY DEF Schedulers
<1>2. CASE ~s.running
  BY <1>2 DEF Output
<1>3. CASE s.running
  <2>1. /\ p.enabled /\ HasOn(p) /\ s.rep < p.repeat /\ s.idx \in 1..Len(p.steps)
        /\ b + s.phase = t /\ p.repeat \in Nat /\ Len(p.steps) \in Nat
    BY <1>1, <1>3, StepsKnown DEF Playing
  <2>2. ms \in Nat \ {0} /\ b \in Nat
    BY <1>1, <2>1, StepsKnown, NextBegins
  <2>3. s.phase < ms
    BY <1>1, <1>3, <2>2 DEF Passed
  <2>4. b <= t /\ t < b + ms
    BY <1>1, <2>1, <2>2, <2>3
  <2>5. s.rep \in 0..(p.repeat - 1)
    BY <1>1, <2>1
  <2>6. StepOn(p, s.idx) => Sounds(p, t)
    <3>1. StepOn(p, s.idx) => Tone(p, s.rep, s.idx)
      BY <2>1, <2>5 DEF Tone
    <3>2. QED
      BY <1>1, <2>4, <3>1, SoundsKnown
  <2>7. ASSUME Sounds(p, t)
        PROVE  StepOn(p, s.idx)
    <3>1. PICK r, i : /\ Tone(p, r, i) /\ Begins(p, r, i) <= t
                      /\ t < Begins(p, r, i) + StepMs(p, i)
      BY <1>1, <2>7, SoundsKnown
    <3>2. r \in Nat /\ i \in 1..Len(p.steps) /\ StepOn(p, i)
      BY <2>1, <3>1 DEF Tone
    <3>3. Begins(p, r, i) \in Nat /\ StepMs(p, i) \in Nat
      BY <1>1, <3>2, NextBegins, StepsKnown
    <3>4. ~(r < s.rep \/ (r = s.rep /\ i < s.idx))
      <4>1. r < s.rep \/ (r = s.rep /\ i < s.idx) => Begins(p, r, i) + StepMs(p, i) <= b
        BY <1>1, <2>1, <3>2, InOrder
      <4>2. QED
        BY <2>2, <2>4, <3>1, <3>3, <4>1
    <3>5. ~(s.rep < r \/ (r = s.rep /\ s.idx < i))
      <4>1. s.rep < r \/ (r = s.rep /\ s.idx < i) => b + ms <= Begins(p, r, i)
        BY <1>1, <2>1, <3>2, InOrder
      <4>2. QED
        BY <2>2, <2>4, <3>1, <3>3, <4>1
    <3>6. r = s.rep /\ i = s.idx
      BY <1>1, <2>1, <3>2, <3>4, <3>5
    <3>7. QED
      BY <3>2, <3>6
  <2>8. ~Over(p, t)
    <3>1. ASSUME NEW r, NEW i, Tone(p, r, i), r \in Nat,
                 s.rep < r \/ (r = s.rep /\ s.idx <= i)
          PROVE  ~Over(p, t)
      <4>1. i \in 1..Len(p.steps)
        BY <3>1 DEF Tone
      <4>2. Begins(p, r, i) \in Nat /\ StepMs(p, i) \in Nat
        BY <1>1, <3>1, <4>1, NextBegins, StepsKnown
      <4>3. t < Begins(p, r, i) + StepMs(p, i)
        <5>1. CASE r = s.rep /\ i = s.idx
          BY <2>4, <5>1
        <5>2. CASE s.rep < r \/ (r = s.rep /\ s.idx < i)
          <6>1. b + ms <= Begins(p, r, i)
            BY <1>1, <2>1, <3>1, <4>1, <5>2, InOrder
          <6>2. QED
            BY <2>2, <2>4, <4>2, <6>1
        <5>3. QED
          BY <1>1, <2>1, <3>1, <4>1, <5>1, <5>2
      <4>4. QED
        BY <1>1, <3>1, <4>2, <4>3, OverKnown
    <3>2. CASE s.rep + 1 < p.repeat
      <4>1. PICK i \in 1..Len(p.steps) : StepOn(p, i)
        BY <1>1, <2>1, StepsKnown DEF HasOn
      <4>2. Tone(p, s.rep + 1, i) /\ s.rep + 1 \in Nat /\ s.rep < s.rep + 1
        BY <1>1, <2>1, <3>2, <4>1 DEF Tone
      <4>3. QED
        BY <3>1, <4>2
    <3>3. CASE \E i \in s.idx..Len(p.steps) : StepOn(p, i)
      <4>1. PICK i \in s.idx..Len(p.steps) : StepOn(p, i)
        BY <3>3
      <4>2. i \in 1..Len(p.steps) /\ s.idx <= i
        BY <2>1
      <4>3. Tone(p, s.rep, i)
        BY <2>1, <2>5, <4>1, <4>2 DEF Tone
      <4>4. QED
        BY <1>1, <3>1, <4>2, <4>3
    <3>4. QED
      BY <1>3, <3>2, <3>3 DEF Playing
  <2>9. QED
    BY <1>3, <2>6, <2>7, <2>8 DEF Output
<1>4. QED
  BY <1>1, <1>2, <1>3

-----------------------------------------------------------------------------
(* The invariant *)

PlayerOK ==
  /\ sched \in Schedulers
  /\ playing = sched.running /\ played \in Nat
  /\ playing => Playing(sched, played)

\* Nothing has happened since tick().
TickTrue ==
  ticked => /\ siren = (playing /\ Sounds(sched.pattern, played))
            /\ playing => ~Over(sched.pattern, played)

HoldOK ==
  /\ deb.stable /\ ~deb.longFired => answers = 0
  /\ button = "mute" /\ deb.stable /\ deb.longFired => answers = 1
  /\ answers <= 1

\* The caches are what the pins show, and what was last told.
LampsOK ==
  /\ lamps.cur = shown
  /\ lamps.pin.system = lamps.cur.system
  /\ (lamps.pin.alert = lamps.ah) = lamps.cur.alert

PanelInv == TypeOK /\ PlayerOK /\ TickTrue /\ HoldOK /\ LampsOK

\* The invariant suffices for the one the runs check.
LEMMA InvFollows == PanelInv => Inv
<1> SUFFICES ASSUME PanelInv
             PROVE  Inv
  OBVIOUS
<1>1. Lit = shown
  BY DEF PanelInv, TypeOK, LampsOK, Lamps, Lit
<1>2. QED
  BY <1>1 DEF PanelInv, Inv, LampsShow

LEMMA InitOK == Init => PanelInv
<1> SUFFICES ASSUME Init
             PROVE  PanelInv
  OBVIOUS
<1>1. /\ Start(TestPattern) \in Schedulers
      /\ sched = Stop(Start(TestPattern)) /\ ~playing /\ playing \in BOOLEAN
  BY StartPlays, PatternsAssumption DEF Init
<1>2. sched \in Schedulers /\ sched.running = FALSE
  BY <1>1 DEF Stop, Schedulers
<1>3. PlayerOK
  BY <1>1, <1>2 DEF PlayerOK, Init
<1>4. TickTrue
  BY DEF TickTrue, Init
<1>5. HoldOK
  BY DEF HoldOK, Init
<1>6. /\ shown = Dark /\ lamps.cur = Dark /\ lamps.ah \in BOOLEAN
      /\ lamps.pin = [system |-> FALSE, alert |-> ~lamps.ah]
      /\ lamps = [ah |-> lamps.ah, cur |-> lamps.cur, pin |-> lamps.pin]
  BY DEF Init
<1>7. Dark \in Lamps /\ Dark.system = FALSE /\ Dark.alert = FALSE
  BY DEF Dark, Lamps
<1>8. lamps.pin \in Lamps /\ lamps.pin.system = FALSE /\ lamps.pin.alert = ~lamps.ah
  BY <1>6 DEF Lamps
<1>9. (lamps.pin.alert = lamps.ah) = FALSE
  BY <1>6, <1>8
<1>10. LampsOK
  <2>1. lamps.pin.system = lamps.cur.system
    BY <1>6, <1>7, <1>8, Zenon
  <2>2. (lamps.pin.alert = lamps.ah) = lamps.cur.alert
    BY <1>6, <1>7, <1>9, Zenon
  <2>3. QED
    BY <1>6, <2>1, <2>2, Zenon DEF LampsOK
<1>11. lamps \in [ah : BOOLEAN, cur : Lamps, pin : Lamps] /\ shown \in Lamps
  BY <1>6, <1>7, <1>8
<1>12. deb \in Debouncers
  BY PanelAssumption DEF Init, Debouncers
<1>13. /\ button \in Buttons /\ finger \in BOOLEAN /\ answers \in 0..2
       /\ wanted \in Patterns \cup {NoTest} /\ playing \in BOOLEAN /\ siren \in BOOLEAN
  <2>1. /\ button \in Buttons /\ finger = FALSE /\ answers = 0
        /\ wanted = NoTest /\ playing = FALSE /\ siren = FALSE
    BY Zenon DEF Init
  <2>2. answers \in 0..2
    BY <2>1
  <2>3. QED
    BY <2>1, <2>2, Zenon
<1>14. TypeOK
  BY <1>2, <1>11, <1>12, <1>13 DEF TypeOK
<1>15. QED
  BY <1>3, <1>4, <1>5, <1>10, <1>14 DEF PanelInv

-----------------------------------------------------------------------------
(* The button of one pass *)

LEMMA EventKnown ==
  ASSUME NEW e \in Debouncers
  PROVE  /\ Noticed(e, TRUE) \in Debouncers /\ Noticed(e, FALSE) \in Debouncers
         /\ Updated(e) \in Debouncers
         /\ \A raw : Noticed(e, raw).stable = e.stable /\ Noticed(e, raw).longFired = e.longFired
         /\ \/ /\ Event(e) = "Press" /\ ~e.stable
               /\ Updated(e).stable /\ ~Updated(e).longFired
            \/ /\ Event(e) = "Release" /\ e.stable
               /\ ~Updated(e).stable /\ Updated(e).longFired = e.longFired
            \/ /\ Event(e) = "LongPress" /\ e.stable /\ ~e.longFired
               /\ Updated(e).stable /\ Updated(e).longFired
            \/ Event(e) = "None" /\ Updated(e) = e
<1>1. e \in [lastRaw : BOOLEAN, stable : BOOLEAN, longFired : BOOLEAN,
             rawAge : 0..Debounce, pressAge : 0..LongPress]
      /\ 0 \in 0..Debounce /\ 0 \in 0..LongPress
  BY PanelAssumption DEF Debouncers
<1>2. /\ Noticed(e, TRUE) \in Debouncers /\ Noticed(e, FALSE) \in Debouncers
      /\ \A raw : Noticed(e, raw).stable = e.stable /\ Noticed(e, raw).longFired = e.longFired
  BY <1>1 DEF Noticed, Debouncers
<1>3. CASE Event(e) = "Press"
  <2>1. ~e.stable
    BY <1>1, <1>3 DEF Event, Settled
  <2>2. Updated(e) = [e EXCEPT !.stable = TRUE, !.rawAge = 0, !.longFired = FALSE]
    BY <1>3 DEF Updated
  <2>3. QED
    BY <1>1, <1>2, <1>3, <2>1, <2>2 DEF Debouncers
<1>4. CASE Event(e) = "Release"
  <2>1. e.stable
    BY <1>1, <1>4 DEF Event, Settled
  <2>2. Updated(e) = [e EXCEPT !.stable = FALSE, !.rawAge = 0, !.pressAge = 0]
    BY <1>4 DEF Updated
  <2>3. QED
    BY <1>1, <1>2, <1>4, <2>1, <2>2 DEF Debouncers
<1>5. CASE Event(e) = "LongPress"
  <2>1. e.stable /\ ~e.longFired
    BY <1>1, <1>5 DEF Event, Due
  <2>2. Updated(e) = [e EXCEPT !.longFired = TRUE, !.pressAge = 0]
    BY <1>5 DEF Updated
  <2>3. QED
    BY <1>1, <1>2, <1>5, <2>1, <2>2 DEF Debouncers
<1>6. CASE Event(e) = "None"
  <2>1. Updated(e) = e
    BY <1>6 DEF Updated
  <2>2. QED
    BY <1>2, <1>6, <2>1
<1>7. Event(e) \in {"Press", "Release", "LongPress", "None"}
  BY DEF Event
<1>8. QED
  BY <1>3, <1>4, <1>5, <1>6, <1>7

\* What one look does: a hold is answered, and counted.
LEMMA LooksCount ==
  ASSUME PanelInv, Looks
  PROVE  /\ deb' \in Debouncers /\ answers' \in 0..1
         /\ deb'.stable /\ ~deb'.longFired => answers' = 0
         /\ button = "mute" /\ deb'.stable /\ deb'.longFired => answers' = 1
         /\ button = "mute" /\ deb.stable /\ ~deb'.stable => answers' = 1
<1> DEFINE e == Noticed(deb, finger)
<1>1. /\ button \in Buttons /\ finger \in BOOLEAN /\ deb \in Debouncers /\ answers \in 0..2
      /\ HoldOK
  BY DEF PanelInv, TypeOK
<1>2. e \in Debouncers /\ e.stable = deb.stable /\ e.longFired = deb.longFired
  BY <1>1, EventKnown
<1>3. /\ deb' = Updated(e)
      /\ answers' = CASE Event(e) = "Press" -> 0
                       [] Answer(e) # "nothing" -> Smaller(answers + 1, 2)
                       [] OTHER -> answers
  BY Zenon DEF Looks
<1> HIDE DEF e
<1>4. Updated(e) \in Debouncers
  BY <1>2, EventKnown
<1>5. CASE Event(e) = "Press"
  <2>1. Answer(e) = "nothing"
    BY <1>5 DEF Answer
  <2>2. answers' = 0
    BY <1>3, <1>5, <2>1
  <2>3. deb'.stable /\ ~deb'.longFired /\ ~deb.stable
    BY <1>2, <1>3, <1>5, EventKnown
  <2>4. QED
    BY <1>3, <1>4, <2>2, <2>3
<1>6. CASE Event(e) = "LongPress"
  <2>1. Answer(e) # "nothing"
    BY <1>6 DEF Answer
  <2>2. deb.stable /\ ~deb.longFired /\ deb'.stable /\ deb'.longFired
    BY <1>2, <1>3, <1>6, EventKnown
  <2>3. answers = 0
    BY <1>1, <2>2 DEF HoldOK
  <2>4. answers' = 1
    BY <1>3, <1>6, <2>1, <2>3 DEF Smaller
  <2>5. QED
    BY <1>3, <1>4, <2>2, <2>4
<1>7. CASE Event(e) = "Release"
  <2>1. deb.stable /\ ~deb'.stable /\ Updated(e).longFired = deb.longFired
    BY <1>2, <1>3, <1>7, EventKnown
  <2>2. CASE button = "mute" /\ ~deb.longFired
    <3>1. Answer(e) = "short"
      BY <1>7, <2>1, <2>2 DEF Answer
    <3>2. answers = 0
      BY <1>1, <2>1, <2>2 DEF HoldOK
    <3>3. answers' = 1
      BY <1>3, <1>7, <3>1, <3>2 DEF Smaller
    <3>4. QED
      BY <1>3, <1>4, <2>1, <3>3
  <2>3. CASE ~(button = "mute" /\ ~deb.longFired)
    <3>1. Answer(e) = "nothing"
      BY <1>7, <2>1, <2>3 DEF Answer
    <3>2. answers' = answers
      BY <1>3, <1>7, <3>1
    <3>3. button = "mute" => answers = 1
      BY <1>1, <2>1, <2>3 DEF HoldOK
    <3>4. answers \in 0..1
      BY <1>1 DEF HoldOK
    <3>5. QED
      BY <1>3, <1>4, <2>1, <3>2, <3>3, <3>4
  <2>4. QED
    BY <2>2, <2>3
<1>8. CASE Event(e) = "None"
  <2>1. Answer(e) = "nothing"
    BY <1>8 DEF Answer
  <2>2. answers' = answers
    BY <1>3, <1>8, <2>1
  <2>3. deb' = e
    BY <1>2, <1>3, <1>8, EventKnown
  <2>4. answers \in 0..1
    BY <1>1 DEF HoldOK
  <2>5. QED
    BY <1>1, <1>2, <2>2, <2>3, <2>4 DEF HoldOK
<1>9. QED
  BY <1>2, <1>5, <1>6, <1>7, <1>8, EventKnown

\* A mute is an answer to the hold, and so is a test.
LEMMA AnswerCounted ==
  ASSUME PanelInv, Looks, Answer(Noticed(deb, finger)) # "nothing"
  PROVE  answers' > answers
<1> DEFINE e == Noticed(deb, finger)
<1>1. finger \in BOOLEAN /\ deb \in Debouncers /\ HoldOK
  BY DEF PanelInv, TypeOK
<1>2. e \in Debouncers /\ e.stable = deb.stable /\ e.longFired = deb.longFired
  BY <1>1, EventKnown
<1>3. answers' = CASE Event(e) = "Press" -> 0
                   [] Answer(e) # "nothing" -> Smaller(answers + 1, 2)
                   [] OTHER -> answers
  BY Zenon DEF Looks
<1> HIDE DEF e
<1>4. Answer(e) # "nothing"
  BY DEF e
<1>5. Event(e) # "Press"
  BY <1>4 DEF Answer
<1>6. e.stable /\ ~e.longFired
  BY <1>2, <1>4, EventKnown DEF Answer
<1>7. answers = 0
  BY <1>1, <1>2, <1>6 DEF HoldOK
<1>8. QED
  BY <1>3, <1>4, <1>5, <1>7 DEF Smaller

-----------------------------------------------------------------------------
(* The player of one pass *)

\* After a tick the player is where its pattern says, and the siren does what it says.
LEMMA Ticked ==
  ASSUME NEW s \in Schedulers, NEW t \in Nat, Playing(s, t),
         sched' = Advance(s), playing' = sched'.running, siren' = Output(sched'), played' = t
  PROVE  /\ PlayerOK' /\ TickTrue' /\ siren' \in BOOLEAN
         /\ ~playing' => Over(s.pattern, t)
<1> DEFINE n == Advance(s)
<1>1. n \in Schedulers /\ n.pattern = s.pattern /\ Playing(n, t) /\ ~Passed(n)
  BY AdvancePlays
<1> HIDE DEF n
<1>2. Output(n) = (n.running /\ Sounds(n.pattern, t)) /\ (n.running => ~Over(n.pattern, t))
  BY <1>1, OutputTrue
<1>3. sched' = n /\ playing' = n.running /\ siren' = Output(n) /\ played' = t
  BY DEF n
<1>4. PlayerOK'
  BY <1>1, <1>3 DEF PlayerOK
<1>5. TickTrue'
  BY <1>2, <1>3 DEF TickTrue
<1>6. siren' \in BOOLEAN
  BY <1>2, <1>3
<1>7. ~playing' => Over(s.pattern, t)
  BY <1>1, <1>3 DEF Playing
<1>8. QED
  BY <1>4, <1>5, <1>6, <1>7

LEMMA TickPlays ==
  ASSUME PanelInv, NEW test \in Patterns \cup {NoTest}, NEW silenced \in BOOLEAN,
         NotifyTick(test, silenced)
  PROVE  /\ PlayerOK' /\ TickTrue' /\ siren' \in BOOLEAN
         /\ wanted' \in Patterns \cup {NoTest}
         /\ playing /\ ~silenced /\ ~playing' => Over(sched.pattern, played)
         /\ ~playing /\ test # NoTest /\ ~playing' => Over(test, 0)
<1> DEFINE on == playing /\ ~silenced
           fresh == ~on /\ test # NoTest
           next == CASE on -> Advance(sched)
                     [] fresh -> Advance(Start(test))
                     [] OTHER -> Stop(sched)
<1>1. /\ sched \in Schedulers /\ playing = sched.running /\ played \in Nat
      /\ playing => Playing(sched, played)
      /\ playing \in BOOLEAN
  BY DEF PanelInv, TypeOK, PlayerOK
<1>2. /\ sched' = next /\ playing' = sched'.running /\ siren' = Output(sched')
      /\ wanted' = (IF on THEN test ELSE NoTest)
      /\ played' = (IF on THEN played ELSE 0) /\ ticked'
  BY DEF NotifyTick
<1>3. wanted' \in Patterns \cup {NoTest}
  BY <1>2
<1>4. CASE on
  <2>1. sched' = Advance(sched) /\ played' = played
    BY <1>2, <1>4
  <2> HIDE DEF next
  <2>2. /\ PlayerOK' /\ TickTrue' /\ siren' \in BOOLEAN
        /\ ~playing' => Over(sched.pattern, played)
    BY <1>1, <1>2, <1>4, <2>1, Ticked
  <2>3. QED
    BY <1>3, <1>4, <2>2
<1>5. CASE fresh
  <2>1. sched' = Advance(Start(test)) /\ played' = 0 /\ test \in Patterns
    BY <1>2, <1>5
  <2> HIDE DEF next
  <2>2. Start(test) \in Schedulers /\ Start(test).pattern = test /\ Playing(Start(test), 0)
    BY <2>1, StartPlays
  <2>3. /\ PlayerOK' /\ TickTrue' /\ siren' \in BOOLEAN
        /\ ~playing' => Over(Start(test).pattern, 0)
    BY <1>2, <2>1, <2>2, Ticked
  <2>4. ~playing' => Over(test, 0)
    BY <2>2, <2>3
  <2>5. QED
    BY <1>3, <1>5, <2>3, <2>4
<1>6. CASE ~on /\ ~fresh
  <2>1. sched' = Stop(sched) /\ played' = 0
    BY <1>2, <1>6
  <2> HIDE DEF next
  <2>2. sched' \in Schedulers /\ sched'.running = FALSE
    BY <1>1, <2>1 DEF Stop, Schedulers
  <2>3. playing' = FALSE
    BY <1>2, <2>2, Zenon
  <2>4. siren' = FALSE
    BY <1>2, <2>2 DEF Output
  <2>5. PlayerOK'
    BY <2>1, <2>2, <2>3 DEF PlayerOK
  <2>6. TickTrue'
    BY <2>3, <2>4 DEF TickTrue
  <2>7. QED
    BY <1>3, <1>6, <2>4, <2>5, <2>6
<1>7. QED
  BY <1>4, <1>5, <1>6

\* The pass: what the button and the player do in it
LEMMA LooksPlay ==
  ASSUME PanelInv, Looks
  PROVE  /\ PlayerOK' /\ TickTrue' /\ siren' \in BOOLEAN
         /\ wanted' \in Patterns \cup {NoTest}
         /\ playing /\ ~playing' => Over(sched.pattern, played) \/ answers' > answers
         /\ ~playing /\ wanted # NoTest /\ ~playing' => Over(wanted, 0) \/ answers' > answers
<1> DEFINE answer == Answer(Noticed(deb, finger))
           muted == answer \in {"short", "snooze"}
           test == CASE answer = "test" -> TestPattern
                     [] muted -> NoTest
                     [] OTHER -> wanted
<1>1. NotifyTick(test, muted)
  BY Zenon DEF Looks
<1>2. wanted \in Patterns \cup {NoTest}
  BY DEF PanelInv, TypeOK
<1>3. answer # "nothing" => answers' > answers
  BY AnswerCounted
<1> HIDE DEF answer
<1>4. test \in Patterns \cup {NoTest} /\ muted \in BOOLEAN
  BY <1>2, PatternsAssumption
<1>5. answer = "nothing" => test = wanted /\ ~muted
  OBVIOUS
<1> HIDE DEF muted, test
<1>6. /\ PlayerOK' /\ TickTrue' /\ siren' \in BOOLEAN
      /\ wanted' \in Patterns \cup {NoTest}
      /\ playing /\ ~muted /\ ~playing' => Over(sched.pattern, played)
      /\ ~playing /\ test # NoTest /\ ~playing' => Over(test, 0)
  BY <1>1, <1>4, TickPlays
<1>7. QED
  BY <1>3, <1>5, <1>6

-----------------------------------------------------------------------------
(* The steps *)

\* The invariant, after a step that leaves the player and the siren as they were
LEMMA PlayerKept ==
  ASSUME PanelInv, UNCHANGED <<sched, playing, siren, played>>, ticked' = ticked
  PROVE  PlayerOK' /\ TickTrue' /\ siren' \in BOOLEAN
BY DEF PanelInv, TypeOK, PlayerOK, TickTrue

LEMMA LightsKept ==
  ASSUME PanelInv, UNCHANGED light
  PROVE  LampsOK' /\ lamps' \in [ah : BOOLEAN, cur : Lamps, pin : Lamps] /\ shown' \in Lamps
BY DEF PanelInv, TypeOK, LampsOK, light

LEMMA ButtonKept ==
  ASSUME PanelInv, UNCHANGED <<button, deb, answers>>
  PROVE  HoldOK' /\ button' \in Buttons /\ deb' \in Debouncers /\ answers' \in 0..2
BY DEF PanelInv, TypeOK, HoldOK

\* The index of a player that runs is in its sequence.
LEMMA Assembled ==
  ASSUME PlayerOK', TickTrue', siren' \in BOOLEAN,
         LampsOK', lamps' \in [ah : BOOLEAN, cur : Lamps, pin : Lamps], shown' \in Lamps,
         HoldOK', button' \in Buttons, deb' \in Debouncers, answers' \in 0..2,
         finger' \in BOOLEAN, wanted' \in Patterns \cup {NoTest}
  PROVE  PanelInv'
<1>1. sched' \in Schedulers /\ playing' = sched'.running /\ sched'.pattern \in Patterns
      /\ sched'.running \in BOOLEAN
  BY DEF PlayerOK, Schedulers
<1>2. sched'.running => sched'.idx \in DOMAIN sched'.pattern.steps
  <2>1. sched'.running => sched'.idx \in 1..Len(sched'.pattern.steps)
    BY <1>1 DEF PlayerOK, Playing
  <2>2. QED
    BY <1>1, <2>1, StepsKnown
<1>3. TypeOK'
  BY <1>1, <1>2 DEF TypeOK
<1>4. QED
  BY <1>3 DEF PanelInv

\* The lamps of one pass: whatever the caches skip, the pins show what they are told.
LEMMA LightsTold ==
  ASSUME PanelInv, Lights
  PROVE  LampsOK' /\ lamps' \in [ah : BOOLEAN, cur : Lamps, pin : Lamps] /\ shown' \in Lamps
<1>0. PICK relayOn \in BOOLEAN :
        \E on \in [system : SystemStates, alert : AlertStates(relayOn)] :
          lamps' = Written(on) /\ shown' = on
  BY DEF Lights
<1>1. PICK on \in [system : SystemStates, alert : AlertStates(relayOn)] :
        lamps' = Written(on) /\ shown' = on
  BY <1>0
<1>2. SystemStates \subseteq BOOLEAN
  <2> DEFINE F(sys, blink) == sys = "Ok" \/ blink
  <2>1. SystemStates = {F(sys, blink) : sys \in {"Ok", "Degraded", "Setup"}, blink \in BOOLEAN}
    BY DEF SystemStates
  <2>2. \A sys, blink : F(sys, blink) \in BOOLEAN
    OBVIOUS
  <2> HIDE DEF F
  <2>3. QED
    BY <2>1, <2>2
<1>3. AlertStates(relayOn) \subseteq BOOLEAN
  <2> DEFINE F(view, muted, blink) ==
               view # "None" /\ (Steady \/ (view = "Full" /\ ~muted /\ ~relayOn) \/ blink)
  <2>1. AlertStates(relayOn) =
          {F(view, muted, blink) : view \in {"None", "Partial", "Full"},
                                   muted \in BOOLEAN, blink \in BOOLEAN}
    BY DEF AlertStates
  <2>2. \A view, muted, blink : F(view, muted, blink) \in BOOLEAN
    OBVIOUS
  <2> HIDE DEF F
  <2>3. QED
    BY <2>1, <2>2
<1>4. on \in Lamps
  BY <1>2, <1>3 DEF Lamps
<1>5. /\ lamps \in [ah : BOOLEAN, cur : Lamps, pin : Lamps]
      /\ lamps.pin.system = lamps.cur.system
      /\ (lamps.pin.alert = lamps.ah) = lamps.cur.alert
  BY DEF PanelInv, TypeOK, LampsOK
<1>6. /\ lamps.ah \in BOOLEAN /\ lamps.cur.system \in BOOLEAN /\ lamps.cur.alert \in BOOLEAN
      /\ lamps.pin.system \in BOOLEAN /\ lamps.pin.alert \in BOOLEAN
      /\ on.system \in BOOLEAN /\ on.alert \in BOOLEAN
  BY <1>4, <1>5 DEF Lamps
<1> DEFINE sys == IF on.system = lamps.cur.system THEN lamps.pin.system ELSE on.system
           al == IF on.alert = lamps.cur.alert THEN lamps.pin.alert ELSE on.alert = lamps.ah
<1>7. sys = on.system /\ (al = lamps.ah) = on.alert /\ al \in BOOLEAN
  BY <1>5, <1>6
<1>8. lamps' = [lamps EXCEPT !.cur = on, !.pin = [system |-> sys, alert |-> al]]
  BY <1>1, <1>5 DEF Written
<1> HIDE DEF sys, al
<1>9. [system |-> sys, alert |-> al] \in Lamps
  BY <1>6, <1>7 DEF Lamps
<1>10. /\ lamps' \in [ah : BOOLEAN, cur : Lamps, pin : Lamps] /\ lamps'.cur = on
       /\ lamps'.ah = lamps.ah /\ lamps'.pin.system = sys /\ lamps'.pin.alert = al
  BY <1>4, <1>5, <1>8, <1>9
<1>11. QED
  BY <1>1, <1>4, <1>7, <1>10, Zenon DEF LampsOK

LEMMA PassOK == PanelInv /\ Pass => PanelInv'
<1> SUFFICES ASSUME PanelInv, Pass
             PROVE  PanelInv'
  OBVIOUS
<1>1. Looks /\ Lights /\ button' = button /\ finger' = finger
  BY DEF Pass
<1>2. /\ PlayerOK' /\ TickTrue' /\ siren' \in BOOLEAN
      /\ wanted' \in Patterns \cup {NoTest}
  BY <1>1, LooksPlay
<1>3. /\ deb' \in Debouncers /\ answers' \in 0..1
      /\ deb'.stable /\ ~deb'.longFired => answers' = 0
      /\ button = "mute" /\ deb'.stable /\ deb'.longFired => answers' = 1
  BY <1>1, LooksCount
<1>4. HoldOK' /\ answers' \in 0..2
  BY <1>1, <1>3 DEF HoldOK
<1>5. LampsOK' /\ lamps' \in [ah : BOOLEAN, cur : Lamps, pin : Lamps] /\ shown' \in Lamps
  BY <1>1, LightsTold
<1>6. button' \in Buttons /\ finger' \in BOOLEAN
  BY <1>1 DEF PanelInv, TypeOK
<1>7. QED
  BY <1>2, <1>3, <1>4, <1>5, <1>6, Assembled

LEMMA PlayTestOK == ASSUME PanelInv, NEW p \in Patterns, PlayTest(p) PROVE PanelInv'
<1>1. wanted' \in Patterns \cup {NoTest} /\ finger' \in BOOLEAN
  BY DEF PlayTest, PanelInv, TypeOK, buttons
<1>2. /\ UNCHANGED <<sched, playing, siren, played>> /\ ticked' = ticked
      /\ UNCHANGED light /\ UNCHANGED <<button, deb, answers>>
  BY DEF PlayTest, buttons
<1>3. QED
  BY <1>1, <1>2, PlayerKept, LightsKept, ButtonKept, Assembled

LEMMA StopAllOK == PanelInv /\ StopAll => PanelInv'
<1> SUFFICES ASSUME PanelInv, StopAll
             PROVE  PanelInv'
  OBVIOUS
<1>1. /\ wanted' = NoTest /\ finger' = finger /\ ticked' = FALSE /\ playing' = FALSE
      /\ sched' = Stop(sched) /\ UNCHANGED <<siren, played>>
      /\ UNCHANGED light /\ UNCHANGED <<button, deb, answers>>
  BY DEF StopAll, buttons
<1>2. sched' \in Schedulers /\ sched'.running = FALSE
  BY <1>1 DEF PanelInv, PlayerOK, Schedulers, Stop
<1>3. PlayerOK' /\ TickTrue' /\ siren' \in BOOLEAN
  BY <1>1, <1>2 DEF PanelInv, TypeOK, PlayerOK, TickTrue
<1>4. finger' \in BOOLEAN /\ wanted' \in Patterns \cup {NoTest}
  BY <1>1 DEF PanelInv, TypeOK
<1>5. QED
  BY <1>1, <1>3, <1>4, LightsKept, ButtonKept, Assembled

LEMMA SaveConfigOK == ASSUME PanelInv, NEW ah \in BOOLEAN, SaveConfig(ah) PROVE PanelInv'
<1>1. /\ wanted' = wanted /\ finger' = finger /\ ticked' = ticked
      /\ UNCHANGED <<sched, playing, siren, played>> /\ UNCHANGED <<button, deb, answers>>
      /\ lamps' = [ah |-> ah, cur |-> Dark, pin |-> [system |-> FALSE, alert |-> ~ah]]
      /\ shown' = Dark
  BY DEF SaveConfig, buttons, player, Darkened
<1>2. Dark \in Lamps /\ Dark.system = FALSE /\ Dark.alert = FALSE
      /\ [system |-> FALSE, alert |-> ~ah] \in Lamps
  BY DEF Dark, Lamps
<1>3. /\ lamps'.ah = ah /\ lamps'.cur = Dark
      /\ lamps'.pin.system = FALSE /\ lamps'.pin.alert = ~ah
  BY <1>1
<1>4. LampsOK' /\ lamps' \in [ah : BOOLEAN, cur : Lamps, pin : Lamps] /\ shown' \in Lamps
  <2>1. lamps' \in [ah : BOOLEAN, cur : Lamps, pin : Lamps] /\ shown' \in Lamps
    BY <1>1, <1>2
  <2>2. lamps'.pin.system = lamps'.cur.system
    BY <1>2, <1>3, Zenon
  <2>3. (lamps'.pin.alert = lamps'.ah) = lamps'.cur.alert
    <3>1. (~ah = ah) = FALSE
      OBVIOUS
    <3>2. QED
      BY <1>2, <1>3, <3>1, Zenon
  <2>4. QED
    BY <1>1, <1>3, <2>1, <2>2, <2>3, Zenon DEF LampsOK
<1>5. finger' \in BOOLEAN /\ wanted' \in Patterns \cup {NoTest}
  BY <1>1 DEF PanelInv, TypeOK
<1>6. QED
  BY <1>1, <1>4, <1>5, PlayerKept, ButtonKept, Assembled

LEMMA TouchOK == PanelInv /\ Touch => PanelInv'
<1> SUFFICES ASSUME PanelInv, Touch
             PROVE  PanelInv'
  OBVIOUS
<1>1. wanted' \in Patterns \cup {NoTest} /\ finger' \in BOOLEAN
  BY DEF Touch, PanelInv, TypeOK, player
<1>2. /\ UNCHANGED <<sched, playing, siren, played>> /\ ticked' = ticked
      /\ UNCHANGED light /\ UNCHANGED <<button, deb, answers>>
  BY DEF Touch, player
<1>3. QED
  BY <1>1, <1>2, PlayerKept, LightsKept, ButtonKept, Assembled

LEMMA OlderKnown ==
  ASSUME NEW d \in Debouncers, NEW t \in Nat
  PROVE  /\ Older(d, t) \in Debouncers
         /\ Older(d, t).stable = d.stable /\ Older(d, t).longFired = d.longFired
<1> DEFINE a == IF d.lastRaw = d.stable THEN d.rawAge ELSE Smaller(d.rawAge + t, Debounce)
           b == IF d.stable /\ ~d.longFired THEN Smaller(d.pressAge + t, LongPress)
                ELSE d.pressAge
<1>1. d \in [lastRaw : BOOLEAN, stable : BOOLEAN, longFired : BOOLEAN,
             rawAge : 0..Debounce, pressAge : 0..LongPress]
  BY DEF Debouncers
<1>2. d.rawAge \in 0..Debounce /\ d.pressAge \in 0..LongPress
  BY <1>1
<1>3. a \in 0..Debounce /\ b \in 0..LongPress
  BY <1>2, PanelAssumption DEF Smaller
<1>4. Older(d, t) = [d EXCEPT !.rawAge = a, !.pressAge = b]
  BY <1>1 DEF Older
<1> HIDE DEF a, b
<1>5. QED
  BY <1>1, <1>3, <1>4 DEF Debouncers

LEMMA ElapseOK == ASSUME PanelInv, NEW t \in Gaps, Elapse(t) PROVE PanelInv'
<1>1. /\ deb' = Older(deb, t)
      /\ sched' = (IF playing THEN [sched EXCEPT !.phase = @ + t] ELSE sched)
      /\ played' = (IF playing THEN played + t ELSE 0) /\ ticked' = FALSE
      /\ UNCHANGED <<button, finger, answers, wanted, playing, siren>> /\ UNCHANGED light
  BY DEF Elapse
<1>2. /\ t \in Nat /\ deb \in Debouncers /\ finger \in BOOLEAN /\ siren \in BOOLEAN
      /\ wanted \in Patterns \cup {NoTest} /\ button \in Buttons /\ answers \in 0..2
  BY PanelAssumption DEF PanelInv, TypeOK
<1>3. deb' \in Debouncers /\ deb'.stable = deb.stable /\ deb'.longFired = deb.longFired
  BY <1>1, <1>2, OlderKnown
<1>4. HoldOK'
  BY <1>1, <1>3 DEF PanelInv, HoldOK
<1>5. /\ sched \in Schedulers /\ playing = sched.running /\ played \in Nat
      /\ playing => Playing(sched, played)
  BY DEF PanelInv, PlayerOK
<1>6. ASSUME playing
      PROVE  PlayerOK'
  <2>1. sched \in [pattern : Patterns, rep : Nat, idx : Nat \ {0}, phase : Nat,
                   running : BOOLEAN]
    BY <1>5 DEF Schedulers
  <2>2. /\ sched' \in Schedulers /\ sched'.pattern = sched.pattern /\ sched'.rep = sched.rep
        /\ sched'.idx = sched.idx /\ sched'.running = sched.running
        /\ sched'.phase = sched.phase + t /\ sched.phase \in Nat
    BY <1>1, <1>2, <1>6, <2>1 DEF Schedulers
  <2>3. /\ sched.running /\ sched.idx \in 1..Len(sched.pattern.steps)
        /\ Begins(sched.pattern, sched.rep, sched.idx) + sched.phase = played
        /\ Begins(sched.pattern, sched.rep, sched.idx) \in Nat
    BY <1>5, <1>6, <2>1, NextBegins DEF Playing
  <2>4. Begins(sched.pattern, sched.rep, sched.idx) + (sched.phase + t) = played + t
    BY <1>2, <1>5, <2>2, <2>3
  <2>5. Playing(sched', played + t)
    BY <1>5, <1>6, <2>2, <2>3, <2>4 DEF Playing
  <2>6. playing' = sched'.running /\ played' = played + t /\ played' \in Nat
    <3>1. playing' = sched'.running
      BY <1>1, <1>5, <2>2, Zenon
    <3>2. played' = played + t
      BY <1>1, <1>6
    <3>3. QED
      BY <1>2, <1>5, <3>1, <3>2
  <2>7. QED
    BY <2>2, <2>5, <2>6 DEF PlayerOK
<1>7. ASSUME ~playing
      PROVE  PlayerOK'
  BY <1>1, <1>5, <1>7 DEF PlayerOK
<1>8. PlayerOK'
  BY <1>6, <1>7
<1>9. TickTrue'
  BY <1>1 DEF TickTrue
<1>10. QED
  BY <1>1, <1>2, <1>3, <1>4, <1>8, <1>9, LightsKept, Assembled

LEMMA StepOK == PanelInv /\ [Next]_vars => PanelInv'
<1> SUFFICES ASSUME PanelInv, [Next]_vars
             PROVE  PanelInv'
  OBVIOUS
<1>1. CASE Next
  BY <1>1, PassOK, PlayTestOK, StopAllOK, SaveConfigOK, TouchOK, ElapseOK DEF Next
<1>2. CASE UNCHANGED vars
  <2>1. /\ UNCHANGED <<sched, playing, siren, played>> /\ ticked' = ticked
        /\ UNCHANGED light /\ UNCHANGED <<button, deb, answers>>
        /\ wanted' = wanted /\ finger' = finger
    BY <1>2 DEF vars, buttons, player
  <2>2. finger' \in BOOLEAN /\ wanted' \in Patterns \cup {NoTest}
    BY <2>1 DEF PanelInv, TypeOK
  <2>3. QED
    BY <2>1, <2>2, PlayerKept, LightsKept, ButtonKept, Assembled
<1>3. QED
  BY <1>1, <1>2

-----------------------------------------------------------------------------
(* The theorems *)

\* The buttons, the player and the lamps are well formed, and the lamps' pins show what
\* the last pass told them, whatever saves came before and whichever way they turned the
\* polarity: no write is skipped on a stale cache.
THEOREM PanelHolds == Spec => []Inv
<1>1. Spec => []PanelInv
  BY InitOK, StepOK, PTL DEF Spec
<1>2. QED
  BY <1>1, InvFollows, PTL

\* A hold is answered once: the mute button's by the short mute or the snooze, never by
\* both or by neither, the test button's at most by a test.
THEOREM HoldsAnswered == Spec => HoldAnsweredOnce
<1> DEFINE Once == /\ button = "mute" /\ deb.stable /\ ~deb'.stable => answers' = 1
                   /\ answers' <= 1
<1>1. PanelInv /\ [Next]_vars => [Once]_vars
  <2> SUFFICES ASSUME PanelInv, Next
               PROVE  Once
    BY DEF vars
  <2>1. answers' <= 1
    BY StepOK DEF PanelInv, HoldOK
  <2>2. ASSUME button = "mute", deb.stable, ~deb'.stable
        PROVE  answers' = 1
    <3>1. CASE Pass
      BY <2>2, <3>1, LooksCount DEF Pass
    <3>2. CASE \E t \in Gaps : Elapse(t)
      <4>1. PICK t \in Gaps : Elapse(t)
        BY <3>2
      <4>2. deb' = Older(deb, t) /\ deb \in Debouncers /\ t \in Nat
        BY <4>1, PanelAssumption DEF Elapse, PanelInv, TypeOK
      <4>3. deb'.stable = deb.stable
        BY <4>2, OlderKnown
      <4>4. QED
        BY <2>2, <4>3
    <3>3. CASE ~Pass /\ ~\E t \in Gaps : Elapse(t)
      <4>1. deb' = deb
        BY <3>3 DEF Next, PlayTest, StopAll, SaveConfig, Touch, buttons
      <4>2. QED
        BY <2>2, <4>1
    <3>4. QED
      BY <3>1, <3>2, <3>3
  <2>3. QED
    BY <2>1, <2>2
<1>2. Spec => []PanelInv
  BY InitOK, StepOK, PTL DEF Spec
<1>3. QED
  BY <1>1, <1>2, PTL DEF Spec, HoldAnsweredOnce

\* For any pattern, any ticks and any time between them: the siren does what the pattern,
\* read step by step, says for that moment; a pattern that can sound begins, and ends
\* exactly when no ON step is left, or is muted.
THEOREM PlayedAsWritten == Spec => PlaysAsWritten
<1> DEFINE Ended == playing /\ ~playing' /\ ticked' =>
                      Over(sched.pattern, played) \/ answers' > answers
           Begun == ~playing /\ wanted # NoTest /\ wanted' = NoTest /\ ticked' =>
                        playing' \/ Over(wanted, 0) \/ answers' > answers
<1>1. PanelInv /\ [Next]_vars => [Ended /\ Begun]_vars
  <2> SUFFICES ASSUME PanelInv, Next
               PROVE  Ended /\ Begun
    BY DEF vars
  <2>1. CASE Pass
    BY <2>1, LooksPlay DEF Pass
  <2>2. CASE StopAll
    BY <2>2 DEF StopAll
  <2>3. CASE \E p \in Patterns : PlayTest(p)
    BY <2>3, PanelAssumption DEF PlayTest
  <2>4. CASE \E ah \in BOOLEAN : SaveConfig(ah)
    BY <2>4 DEF SaveConfig, player
  <2>5. CASE Touch
    BY <2>5 DEF Touch, player
  <2>6. CASE \E t \in Gaps : Elapse(t)
    BY <2>6 DEF Elapse
  <2>7. QED
    BY <2>1, <2>2, <2>3, <2>4, <2>5, <2>6 DEF Next
<1>2. Spec => []PanelInv
  BY InitOK, StepOK, PTL DEF Spec
<1>3. PanelInv => TickTrue
  BY DEF PanelInv
<1>4. QED
  BY <1>1, <1>2, <1>3, PTL DEF Spec, PlaysAsWritten, TickTrue
=============================================================================
