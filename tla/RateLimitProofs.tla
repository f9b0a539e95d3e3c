-------------------------- MODULE RateLimitProofs --------------------------
(***************************************************************************)
(* Proofs about RateLimit for every set of requests, limit and window.     *)
(***************************************************************************)
EXTENDS RateLimit, WellFoundedInduction, TLAPS

\* Requests counted in this tick belong to the present life of the key.
RecentBound == recent[0] <= count

Inv == TypeOK /\ RecentBound

LEMMA InitInv == Init => Inv
BY LimitAssumption, WindowAssumption
DEF Init, Inv, TypeOK, RecentBound, Counts, Ages, NoTtl

LEMMA StepInv == Inv /\ [Next]_vars => Inv'
<1> SUFFICES ASSUME Inv, [Next]_vars PROVE Inv'
  OBVIOUS
<1> USE LimitAssumption, WindowAssumption
        DEF Inv, TypeOK, RecentBound, Counts, Ages, Up, NoTtl
<1>1. ASSUME NEW r \in Requests, Arrive(r) PROVE Inv'
  BY <1>1 DEF Arrive
<1>2. ASSUME NEW r \in Requests, Incr(r) PROVE Inv'
  BY <1>2 DEF Incr
<1>3. ASSUME NEW r \in Requests, Expire(r) PROVE Inv'
  BY <1>3 DEF Expire
<1>4. ASSUME NEW r \in Requests, Decide(r) PROVE Inv'
  BY <1>4 DEF Decide
<1>5. ASSUME NEW r \in Requests, Fault(r) PROVE Inv'
  <2>1. CASE IncrUnanswered(r)
    BY <2>1 DEF IncrUnanswered
  <2>2. CASE IncrFails(r) \/ ExpireFails(r)
    BY <2>2 DEF IncrFails, ExpireFails
  <2>3. CASE Crash(r)
    BY <2>3 DEF Crash
  <2> QED
    BY <1>5, <2>1, <2>2, <2>3 DEF Fault
<1>6. CASE Tick
  BY <1>6 DEF Tick
<1>7. CASE UNCHANGED vars
  BY <1>7 DEF vars
<1> QED
  BY <1>1, <1>2, <1>3, <1>4, <1>5, <1>6, <1>7 DEF Next, Progress

\* The counter, the TTL and the counts per tick stay in their ranges.
THEOREM TypeCorrect == Spec => []TypeOK
<1>1. Inv => TypeOK
  BY DEF Inv
<1> QED
  BY <1>1, InitInv, StepInv, PTL DEF Spec

\* Every key that does not expire yet is about to be given its TTL by exactly
\* the request that created it, or that request was lost: the check
\* "currentCount === 1" hands the EXPIRE to one request, whatever fails.
THEOREM OneExpirer == Spec => []OneExpirerPerKey
<1> USE LimitAssumption, WindowAssumption DEF OneExpirerPerKey, NoTtl
<1> DEFINE Ind == TypeOK /\ OneExpirerPerKey /\ (count = 0 => ttl = NoTtl)
<1>1. Init => Ind
  BY InitInv DEF Init, Inv
<1>2. Inv /\ Ind /\ [Next]_vars => Ind'
  <2> SUFFICES ASSUME Inv, Ind, [Next]_vars
               PROVE  OneExpirerPerKey' /\ (count' = 0 => ttl' = NoTtl) /\ TypeOK'
    OBVIOUS
  <2>0. TypeOK'
    BY StepInv DEF Inv
  <2> USE DEF TypeOK, Counts, Up
  <2>1. ASSUME NEW r \in Requests, Arrive(r) PROVE Ind'
    BY <2>0, <2>1 DEF Arrive
  <2>2. ASSUME NEW r \in Requests, Incr(r) PROVE Ind'
    BY <2>0, <2>2 DEF Incr
  <2>3. ASSUME NEW r \in Requests, Expire(r) PROVE Ind'
    BY <2>0, <2>3 DEF Expire
  <2>4. ASSUME NEW r \in Requests, Decide(r) PROVE Ind'
    BY <2>0, <2>4 DEF Decide
  <2>5. ASSUME NEW r \in Requests, Fault(r) PROVE Ind'
    <3>0. CASE IncrUnanswered(r)
      BY <2>0, <3>0 DEF IncrUnanswered
    <3>1. CASE IncrFails(r)
      BY <2>0, <3>1 DEF IncrFails
    <3>2. CASE ExpireFails(r)
      BY <2>0, <3>2 DEF ExpireFails
    <3>3. CASE Crash(r)
      BY <2>0, <3>3 DEF Crash
    <3> QED
      BY <2>5, <3>0, <3>1, <3>2, <3>3 DEF Fault
  <2>6. CASE Tick
    BY <2>0, <2>6 DEF Tick
  <2>7. CASE UNCHANGED vars
    BY <2>0, <2>7 DEF vars
  <2> QED
    BY <2>1, <2>2, <2>3, <2>4, <2>5, <2>6, <2>7 DEF Next, Progress
<1>3. Ind => OneExpirerPerKey
  OBVIOUS
<1> QED
  BY <1>1, <1>2, <1>3, InitInv, StepInv, PTL DEF Spec

(***************************************************************************)
(* Two windows.                                                            *)
(***************************************************************************)
\* A running sum up to the tick before; nothing is before the first.
Before(f, i) == IF i = 0 THEN 0 ELSE f[i - 1]

\* The requests counted in the last i + 1 ticks are those of earlier lives of the key,
\* old[i], and of its present one, new[i].  Either is one window's worth, and the earlier
\* lives ended before the present key was given its TTL.
Split(old, new) ==
  /\ old \in [Ages -> 0 .. Limit] /\ new \in [Ages -> 0 .. Limit]
  /\ \A i \in Ages :
       /\ old[i] + new[i] = recent[i] + Before(old, i) + Before(new, i)
       /\ new[i] <= count
       /\ ttl # NoTtl /\ i < Window - ttl => old[i] = 0

TwoLives == \E old, new \in [Ages -> 0 .. Limit] : Split(old, new)


LEMMA SplitInit == Init => TwoLives
<1> SUFFICES ASSUME Init PROVE TwoLives
  OBVIOUS
<1> DEFINE none == [i \in Ages |-> 0]
<1>1. none \in [Ages -> 0 .. Limit]
  BY LimitAssumption
<1>2. Split(none, none)
  BY <1>1, LimitAssumption, WindowAssumption DEF Split, Init, Before, Ages, NoTtl
<1> QED
  BY <1>1, <1>2 DEF TwoLives

\* A step that counts nothing and does not shorten the time to live.
LEMMA SplitKept ==
  ASSUME TypeOK, TwoLives, recent' = recent, count' \in Nat, count <= count',
         ttl' = ttl \/ ttl' = Window
  PROVE  TwoLives'
<1>1. PICK old \in [Ages -> 0 .. Limit], new \in [Ages -> 0 .. Limit] : Split(old, new)
  BY DEF TwoLives
<1>2. ASSUME NEW i \in Ages
      PROVE  /\ old[i] + new[i] = recent'[i] + Before(old, i) + Before(new, i)
             /\ new[i] <= count'
             /\ ttl' # NoTtl /\ i < Window - ttl' => old[i] = 0
  <2>1. new[i] <= count /\ new[i] \in Int /\ count \in Int
    BY <1>1, LimitAssumption DEF Split, TypeOK, Counts
  <2>2. ~(i < Window - Window)
    BY WindowAssumption DEF Ages
  <2> QED
    BY <1>1, <2>1, <2>2 DEF Split
<1>3. Split(old, new)'
  BY <1>1, <1>2 DEF Split
<1> QED
  BY <1>3 DEF TwoLives

\* A request is counted in the present life of the key.
LEMMA SplitCounts ==
  ASSUME TypeOK, TwoLives, count < Limit, count' = count + 1, ttl' = ttl,
         recent' = [recent EXCEPT ![0] = @ + 1]
  PROVE  TwoLives'
<1>1. PICK old \in [Ages -> 0 .. Limit], new \in [Ages -> 0 .. Limit] : Split(old, new)
  BY DEF TwoLives
<1> DEFINE more == [i \in Ages |-> new[i] + 1]
<1>2. \A i \in Ages : /\ new[i] \in Nat /\ old[i] \in Nat /\ new[i] <= count /\ i \in Nat
                      /\ recent[i] \in Nat /\ (i # 0 => i - 1 \in Ages)
                      /\ more[i] = new[i] + 1
  BY <1>1, LimitAssumption, WindowAssumption DEF Split, Ages, TypeOK
<1>3. count \in Nat
  BY LimitAssumption DEF TypeOK, Counts
<1>4. more \in [Ages -> 0 .. Limit]
  BY <1>2, <1>3, LimitAssumption
<1>5. ASSUME NEW i \in Ages
      PROVE  /\ old[i] + more[i] = recent'[i] + Before(old, i) + Before(more, i)
             /\ more[i] <= count'
             /\ ttl' # NoTtl /\ i < Window - ttl' => old[i] = 0
  <2>1. more[i] <= count'
    BY <1>2, <1>3
  <2>2. ttl' # NoTtl /\ i < Window - ttl' => old[i] = 0
    BY <1>1 DEF Split
  <2>3. old[i] + new[i] = recent[i] + Before(old, i) + Before(new, i)
    BY <1>1 DEF Split
  <2>4. CASE i = 0
    <3>1. recent'[i] = recent[i] + 1
      BY <2>4 DEF TypeOK
    <3> QED
      BY <1>2, <2>1, <2>2, <2>3, <2>4, <3>1 DEF Before
  <2>5. CASE i # 0
    <3>1. recent'[i] = recent[i]
      BY <2>5 DEF TypeOK
    <3>2. i - 1 \in Ages /\ more[i - 1] = new[i - 1] + 1
      BY <1>2, <2>5
    <3> QED
      BY <1>2, <2>1, <2>2, <2>3, <2>5, <3>1, <3>2 DEF Before
  <2> QED
    BY <2>4, <2>5
<1> HIDE DEF more
<1>6. Split(old, more)'
  BY <1>4, <1>5 DEF Split
<1> QED
  BY <1>4, <1>6 DEF TwoLives

\* Time passes: both lives age, and when the key dies, its life takes the place of the
\* earlier ones, none of which is within the window any more.
LEMMA SplitTicks ==
  ASSUME TypeOK, TwoLives, Tick
  PROVE  TwoLives'
<1>1. PICK old \in [Ages -> 0 .. Limit], new \in [Ages -> 0 .. Limit] : Split(old, new)
  BY DEF TwoLives
<1> DEFINE aged(f) == [i \in Ages |-> IF i = 0 THEN 0 ELSE f[i - 1]]
           none == [i \in Ages |-> 0]
<1>2. \A i \in Ages : /\ i \in Nat /\ i < Window /\ (i # 0 => i - 1 \in Ages)
                      /\ new[i] \in Nat /\ old[i] \in Nat /\ recent[i] \in Nat
  BY <1>1, LimitAssumption, WindowAssumption DEF Split, Ages, TypeOK
<1>3. \A f \in [Ages -> 0 .. Limit] : aged(f) \in [Ages -> 0 .. Limit]
  BY <1>2, LimitAssumption
<1>4. none \in [Ages -> 0 .. Limit]
  BY LimitAssumption
<1>5. /\ recent' = [i \in Ages |-> IF i = 0 THEN 0 ELSE recent[i - 1]]
      /\ ttl' = IF ttl \in {NoTtl, 1} THEN NoTtl ELSE ttl - 1
      /\ count' = IF ttl = 1 THEN 0 ELSE count
      /\ count \in Nat /\ ttl \in {NoTtl} \cup 1 .. Window
  BY LimitAssumption DEF Tick, TypeOK, Counts
<1>6. ASSUME NEW i \in Ages
      PROVE  /\ old[i] + new[i] = recent[i] + Before(old, i) + Before(new, i)
             /\ new[i] <= count
             /\ ttl # NoTtl /\ i < Window - ttl => old[i] = 0
  BY <1>1 DEF Split
<1>7. CASE ttl # 1
  <2>1. count' = count
    BY <1>5, <1>7
  <2>2. ASSUME NEW i \in Ages
        PROVE  /\ aged(old)[i] + aged(new)[i]
                    = recent'[i] + Before(aged(old), i) + Before(aged(new), i)
               /\ aged(new)[i] <= count'
               /\ ttl' # NoTtl /\ i < Window - ttl' => aged(old)[i] = 0
    <3>1. CASE i = 0
      BY <1>5, <2>1, <3>1 DEF Before
    <3>2. CASE i # 0
      <4>1. i - 1 \in Ages /\ aged(old)[i] = old[i - 1] /\ aged(new)[i] = new[i - 1]
            /\ recent'[i] = recent[i - 1]
        BY <1>2, <1>5, <3>2
      <4>2. /\ Before(aged(old), i) = Before(old, i - 1)
            /\ Before(aged(new), i) = Before(new, i - 1)
        BY <3>2, <4>1 DEF Before
      <4>3. aged(new)[i] <= count'
        BY <1>6, <2>1, <4>1
      <4>4. ASSUME ttl' # NoTtl, i < Window - ttl' PROVE aged(old)[i] = 0
        <5>1. ttl # NoTtl /\ ttl \in 1 .. Window /\ ttl' = ttl - 1
          BY <1>5, <1>7, <4>4
        <5>2. i - 1 < Window - ttl
          BY <1>2, <4>4, <5>1, WindowAssumption
        <5> QED
          BY <1>6, <4>1, <5>1, <5>2
      <4>5. old[i - 1] + new[i - 1]
              = recent[i - 1] + Before(old, i - 1) + Before(new, i - 1)
        BY <1>6, <4>1
      <4> QED
        BY <4>1, <4>2, <4>3, <4>4, <4>5
    <3> QED
      BY <3>1, <3>2
  <2>3. Split(aged(old), aged(new))'
    BY <1>3, <2>2 DEF Split
  <2> QED
    BY <1>3, <2>3 DEF TwoLives
<1>8. CASE ttl = 1
  <2>1. count' = 0 /\ ttl' = NoTtl
    BY <1>5, <1>8
  <2>2. \A i \in Ages : i # Window - 1 => old[i] = 0
    BY <1>2, <1>6, <1>8, WindowAssumption DEF NoTtl
  <2>3. ASSUME NEW i \in Ages
        PROVE  /\ aged(new)[i] + none[i]
                    = recent'[i] + Before(aged(new), i) + Before(none, i)
               /\ none[i] <= count'
               /\ ttl' # NoTtl /\ i < Window - ttl' => aged(new)[i] = 0
    <3>0. none[i] = 0 /\ Before(none, i) = 0
      BY <1>2 DEF Before
    <3>1. CASE i = 0
      BY <1>5, <2>1, <3>0, <3>1 DEF Before
    <3>2. CASE i # 0
      <4>1. i - 1 \in Ages /\ aged(new)[i] = new[i - 1] /\ recent'[i] = recent[i - 1]
        BY <1>2, <1>5, <3>2
      <4>2. Before(aged(new), i) = Before(new, i - 1)
        BY <3>2, <4>1 DEF Before
      <4>3. old[i - 1] = 0 /\ Before(old, i - 1) = 0
        <5>1. i - 1 # Window - 1
          BY <1>2, WindowAssumption
        <5>2. i - 1 # 0 => i - 2 \in Ages /\ i - 2 # Window - 1 /\ (i - 1) - 1 = i - 2
          BY <1>2, <3>2, WindowAssumption DEF Ages
        <5> QED
          BY <2>2, <4>1, <5>1, <5>2 DEF Before
      <4>4. old[i - 1] + new[i - 1]
              = recent[i - 1] + Before(old, i - 1) + Before(new, i - 1)
        BY <1>6, <4>1
      <4>5. /\ new[i - 1] \in Nat /\ recent[i - 1] \in Nat
            /\ i - 1 # 0 => new[(i - 1) - 1] \in Nat
        BY <1>2, <4>1
      <4> QED
        BY <2>1, <3>0, <4>1, <4>2, <4>3, <4>4, <4>5 DEF Before
    <3> QED
      BY <3>1, <3>2
  <2>4. Split(aged(new), none)'
    BY <1>3, <1>4, <2>3 DEF Split
  <2> QED
    BY <1>3, <1>4, <2>4 DEF TwoLives
<1> QED
  BY <1>7, <1>8

LEMMA SplitStep == Inv /\ TwoLives /\ [Next]_vars => TwoLives'
<1> SUFFICES ASSUME Inv, TwoLives, [Next]_vars PROVE TwoLives'
  OBVIOUS
<1> USE LimitAssumption DEF Inv, TypeOK, Counts, Up
<1>1. ASSUME NEW r \in Requests,
             Arrive(r) \/ Decide(r) \/ IncrFails(r) \/ ExpireFails(r) \/ Crash(r)
      PROVE  TwoLives'
  BY <1>1, SplitKept DEF Arrive, Decide, IncrFails, ExpireFails, Crash
<1>2. ASSUME NEW r \in Requests, Expire(r) PROVE TwoLives'
  BY <1>2, SplitKept DEF Expire
<1>3. ASSUME NEW r \in Requests, IncrUnanswered(r) PROVE TwoLives'
  BY <1>3, SplitKept DEF IncrUnanswered
<1>4. ASSUME NEW r \in Requests, Incr(r) PROVE TwoLives'
  <2>1. CASE count < Limit
    <3>1. Up(count) = count + 1 /\ ~(Up(count) > Limit)
      BY <2>1
    <3>2. count' = count + 1 /\ ttl' = ttl /\ recent' = [recent EXCEPT ![0] = @ + 1]
      BY <1>4, <3>1 DEF Incr
    <3> QED
      BY <2>1, <3>2, SplitCounts
  <2>2. CASE ~(count < Limit)
    <3>1. Up(count) > Limit /\ Up(count) \in Nat /\ count <= Up(count)
      BY <2>2
    <3>2. recent' = recent
      <4>1. 0 \in Ages /\ recent[0] \in Nat
        BY WindowAssumption DEF Ages
      <4>2. recent' = [recent EXCEPT ![0] = @ + 0]
        BY <1>4, <3>1 DEF Incr
      <4> QED
        BY <4>1, <4>2
    <3> QED
      BY <1>4, <3>1, <3>2, SplitKept DEF Incr
  <2> QED
    BY <2>1, <2>2
<1>5. CASE Tick
  BY <1>5, SplitTicks
<1>6. CASE UNCHANGED vars
  BY <1>6, SplitKept DEF vars
<1> QED
  BY <1>1, <1>2, <1>3, <1>4, <1>5, <1>6 DEF Next, Progress, Fault

\* A set of natural numbers has a least element.
LEMMA LeastElement ==
  ASSUME NEW T \in SUBSET Nat, T # {}
  PROVE  \E x \in T : \A y \in T : x <= y
<1> DEFINE R == OpToRel(<, Nat)
<1>1. IsWellFoundedOn(R, Nat)
  BY NatLessThanWellFounded, Zenon
<1>2. \A x, y \in Nat : <<x, y>> \in R <=> x < y
  BY Zenon DEF OpToRel
<1> HIDE DEF R
<1>3. PICK x \in T : \A y \in T : ~(<<y, x>> \in R)
  BY <1>1, WFMin
<1>4. ASSUME NEW y \in T PROVE x <= y
  <2>1. ~(y < x)
    BY <1>2, <1>3
  <2> QED
    BY <2>1
<1> QED
  BY <1>4

\* Counted is the last of the running sums of recent.
LEMMA CountedSums ==
  ASSUME NEW g, g = [i \in Ages |-> recent[i] + Before(g, i)]
  PROVE  Counted = g[Window - 1]
<1> DEFINE Sums(f) == f = [i \in Ages |-> recent[i] + (IF i = 0 THEN 0 ELSE f[i - 1])]
           sum == CHOOSE f : Sums(f)
<1>1. Sums(g)
  BY DEF Before
<1>2. Sums(sum)
  BY <1>1
<1>3. Counted = sum[Window - 1]
  BY DEF Counted
<1> HIDE DEF sum
<1>4. ASSUME NEW i \in Ages, sum[i] # g[i] PROVE FALSE
  <2> DEFINE T == {k \in Ages : sum[k] # g[k]}
  <2>1. PICK k \in T : \A l \in T : k <= l
    <3>1. T \in SUBSET Nat /\ T # {}
      BY <1>4, WindowAssumption DEF Ages
    <3> HIDE DEF T
    <3> QED
      BY <3>1, LeastElement
  <2>2. /\ sum[k] = recent[k] + (IF k = 0 THEN 0 ELSE sum[k - 1])
        /\ g[k] = recent[k] + (IF k = 0 THEN 0 ELSE g[k - 1])
    BY <1>1, <1>2
  <2>3. k # 0 => k - 1 \in Ages /\ k - 1 < k
    BY WindowAssumption DEF Ages
  <2>4. k # 0 => sum[k - 1] = g[k - 1]
    BY <2>1, <2>3 DEF Ages
  <2> QED
    BY <2>2, <2>4
<1>5. Window - 1 \in Ages
  BY WindowAssumption DEF Ages
<1> QED
  BY <1>3, <1>4, <1>5

\* Within any Window ticks, at most two windows' worth of requests are counted.
THEOREM TwoWindowsAtMost == Spec => []AtMostTwoWindows
<1>1. TypeOK /\ TwoLives => AtMostTwoWindows
  <2> SUFFICES ASSUME TypeOK, TwoLives PROVE AtMostTwoWindows
    OBVIOUS
  <2>1. PICK old \in [Ages -> 0 .. Limit], new \in [Ages -> 0 .. Limit] : Split(old, new)
    BY DEF TwoLives
  <2> DEFINE g == [i \in Ages |-> old[i] + new[i]]
  <2>2. \A i \in Ages : /\ old[i] \in Nat /\ new[i] \in Nat
                        /\ old[i] <= Limit /\ new[i] <= Limit
                        /\ recent[i] \in Nat /\ (i # 0 => i - 1 \in Ages)
    BY LimitAssumption, WindowAssumption DEF TypeOK, Ages
  <2>3. g = [i \in Ages |-> recent[i] + Before(g, i)]
    <3>1. ASSUME NEW i \in Ages PROVE g[i] = recent[i] + Before(g, i)
      <4>1. old[i] + new[i] = recent[i] + Before(old, i) + Before(new, i)
        BY <2>1 DEF Split
      <4>2. Before(g, i) = Before(old, i) + Before(new, i)
        BY <2>2 DEF Before
      <4>3. Before(old, i) \in Nat /\ Before(new, i) \in Nat
        BY <2>2 DEF Before
      <4> QED
        BY <2>2, <4>1, <4>2, <4>3
    <3> QED
      BY <3>1
  <2>4. Window - 1 \in Ages
    BY WindowAssumption DEF Ages
  <2>5. g[Window - 1] <= 2 * Limit
    BY <2>2, <2>4, LimitAssumption
  <2> HIDE DEF g
  <2> QED
    BY <2>3, <2>5, CountedSums DEF AtMostTwoWindows
<1>2. Inv => TypeOK
  BY DEF Inv
<1> QED
  BY <1>1, <1>2, SplitInit, SplitStep, InitInv, StepInv, PTL DEF Spec
=============================================================================
