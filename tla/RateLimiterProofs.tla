-------------------------- MODULE RateLimiterProofs --------------------------
(***************************************************************************)
(* Proofs about the rate limiter, for any number of channels and slots,    *)
(* any window below the range of the clock and any allowance: its type,    *)
(* the bound on what a fixed window admits in any stretch of its length,   *)
(* and the exactness of the waiting time told to a refused channel.        *)
(***************************************************************************)
EXTENDS RateLimiter, FiniteSetTheorems, SequenceTheorems, TLAPS

-----------------------------------------------------------------------------
(***************************************************************************)
(* The clock.                                                              *)
(***************************************************************************)

LEMMA ClockRange ==
  /\ TickModulus \in Nat /\ TickModulus > 0
  /\ Window \in Nat /\ Window > 0 /\ Window < TickModulus
  /\ MaxAttempts \in Nat /\ MaxAttempts > 0
  /\ \A t : t \in Ticks <=> t \in Nat /\ t < TickModulus
BY RateAssumption DEF Ticks

LEMMA Wrap ==
  ASSUME NEW x \in Nat, x < 2 * TickModulus
  PROVE  x % TickModulus = IF x < TickModulus THEN x ELSE x - TickModulus
BY ClockRange

\* The unsigned difference of two readings of the clock.
LEMMA ElapsedIs ==
  ASSUME NEW start \in Ticks, NEW t \in Ticks
  PROVE  /\ Elapsed(start, t) = IF start <= t THEN t - start ELSE t + TickModulus - start
         /\ Elapsed(start, t) \in Nat
<1>1. start \in Nat /\ t \in Nat /\ start < TickModulus /\ t < TickModulus
  BY ClockRange
<1> DEFINE x == t + TickModulus - start
<1>2. x \in Nat /\ x < 2 * TickModulus /\ TickModulus \in Nat
  BY <1>1, ClockRange
<1>3. Elapsed(start, t) = x % TickModulus
  BY DEF Elapsed
<1> HIDE DEF x
<1>4. x % TickModulus = IF x < TickModulus THEN x ELSE x - TickModulus
  BY <1>2, Wrap
<1>5. x = t + TickModulus - start
  BY DEF x
<1>6. (IF x < TickModulus THEN x ELSE x - TickModulus)
        = IF start <= t THEN t - start ELSE t + TickModulus - start
  BY <1>1, <1>2, <1>5
<1>7. QED
  BY <1>1, <1>2, <1>3, <1>4, <1>6

\* While the window has not gone once around the clock, time passes as it does.
LEMMA ElapsedLater ==
  ASSUME NEW start \in Ticks, NEW t \in Ticks, NEW d \in Nat,
         Elapsed(start, t) + d < TickModulus
  PROVE  /\ (t + d) % TickModulus \in Ticks
         /\ Elapsed(start, (t + d) % TickModulus) = Elapsed(start, t) + d
<1> DEFINE later == (t + d) % TickModulus
<1>1. start \in Nat /\ t \in Nat /\ start < TickModulus /\ t < TickModulus
  BY ClockRange
<1>2. d < TickModulus
  BY <1>1, ElapsedIs, ClockRange
<1>3. later = IF t + d < TickModulus THEN t + d ELSE t + d - TickModulus
  BY <1>1, <1>2, Wrap, ClockRange
<1>4. later \in Nat /\ later < TickModulus
  BY <1>1, <1>2, <1>3, ClockRange
<1>5. later \in Ticks
  BY <1>4, ClockRange
<1> HIDE DEF later
<1>6. Elapsed(start, later) = IF start <= later THEN later - start
                              ELSE later + TickModulus - start
  BY <1>5, ElapsedIs
<1>7. Elapsed(start, t) = IF start <= t THEN t - start ELSE t + TickModulus - start
  BY ElapsedIs
<1>8. TickModulus \in Nat
  BY ClockRange
<1>9. Elapsed(start, later) = Elapsed(start, t) + d
  BY <1>1, <1>2, <1>3, <1>4, <1>6, <1>7, <1>8
<1>10. QED
  BY <1>5, <1>9 DEF later

\* No step of the clock makes a window look more than one tick older.
LEMMA ElapsedNext ==
  ASSUME NEW start \in Ticks, NEW t \in Ticks
  PROVE  /\ (t + 1) % TickModulus \in Ticks
         /\ Elapsed(start, (t + 1) % TickModulus) <= Elapsed(start, t) + 1
<1> DEFINE later == (t + 1) % TickModulus
<1>1. start \in Nat /\ t \in Nat /\ start < TickModulus /\ t < TickModulus
  BY ClockRange
<1>2. later = IF t + 1 < TickModulus THEN t + 1 ELSE 0
  BY <1>1, Wrap, ClockRange
<1>3. later \in Nat /\ later < TickModulus /\ later \in Ticks
  BY <1>1, <1>2, ClockRange
<1> HIDE DEF later
<1>4. Elapsed(start, later) = IF start <= later THEN later - start
                              ELSE later + TickModulus - start
  BY <1>3, ElapsedIs
<1>5. Elapsed(start, t) = IF start <= t THEN t - start ELSE t + TickModulus - start
  BY ElapsedIs
<1>6. TickModulus \in Nat
  BY ClockRange
<1>7. Elapsed(start, later) <= Elapsed(start, t) + 1
  BY <1>1, <1>2, <1>3, <1>4, <1>5, <1>6
<1>8. QED
  BY <1>3, <1>7 DEF later

\* Nor does a tick of the limiter.
LEMMA ElapsedTick ==
  ASSUME NEW start \in Ticks, NEW t \in Ticks, start > 0
  PROVE  start - 1 \in Ticks /\ Elapsed(start - 1, t) <= Elapsed(start, t) + 1
<1>1. start \in Nat /\ t \in Nat /\ start < TickModulus /\ t < TickModulus
  BY ClockRange
<1>2. start - 1 \in Ticks
  BY <1>1, ClockRange
<1>3. Elapsed(start - 1, t) = IF start - 1 <= t THEN t - (start - 1)
                              ELSE t + TickModulus - (start - 1)
  BY <1>2, ElapsedIs
<1>4. Elapsed(start, t) = IF start <= t THEN t - start ELSE t + TickModulus - start
  BY ElapsedIs
<1>5. TickModulus \in Nat
  BY ClockRange
<1>6. QED
  BY <1>1, <1>2, <1>3, <1>4, <1>5

-----------------------------------------------------------------------------
(***************************************************************************)
(* The ages of the requests admitted.                                      *)
(***************************************************************************)

Ages == 0..Window - 1

Rising(ages) == \A i, j \in DOMAIN ages : i < j => ages[i] <= ages[j]

LEMMA AgesAre ==
  ASSUME NEW ages \in Seq(Ages)
  PROVE  /\ Len(ages) \in Nat /\ DOMAIN ages = 1..Len(ages)
         /\ \A i \in 1..Len(ages) : ages[i] \in Nat /\ ages[i] < Window
BY LenProperties, ElementOfSeq, ClockRange DEF Ages

\* What stays within a window is a beginning of the sequence.
LEMMA RecentIs ==
  ASSUME NEW ages \in Seq(Ages), Rising(ages)
  PROVE  /\ Cardinality(Recent(ages)) \in 0..Len(ages)
         /\ Recent(ages) = 1..Cardinality(Recent(ages))
<1> DEFINE n == Len(ages)
           kept == Recent(ages)
           k == Cardinality(kept)
<1>1. n \in Nat /\ DOMAIN ages = 1..n /\ \A i \in 1..n : ages[i] \in Nat /\ ages[i] < Window
  BY AgesAre
<1>2. kept \subseteq 1..n
  BY <1>1 DEF Recent
<1>3. ASSUME NEW i \in kept, NEW j \in 1..i PROVE j \in kept
  <2>1. i \in 1..n /\ j \in 1..n /\ (j < i \/ j = i) /\ ages[i] + 1 < Window
    BY <1>1, <1>2 DEF Recent
  <2>2. ages[j] <= ages[i]
    BY <1>1, <2>1 DEF Rising
  <2>3. ages[j] + 1 < Window
    BY <1>1, <2>1, <2>2, ClockRange
  <2>4. QED
    BY <1>1, <2>1, <2>3 DEF Recent
<1> HIDE DEF n, kept
<1>4. \A m \in Nat : IsFiniteSet(1..m) /\ Cardinality(1..m) = m
  BY FS_Interval
<1>5. IsFiniteSet(kept) /\ k \in Nat /\ k <= n
  <2>1. IsFiniteSet(1..n) /\ Cardinality(1..n) = n
    BY <1>1, <1>4
  <2>2. IsFiniteSet(kept) /\ k <= Cardinality(1..n)
    BY <1>2, <2>1, FS_Subset
  <2>3. QED
    BY <2>1, <2>2, FS_CardinalityType
<1>6. ASSUME NEW i \in kept PROVE i \in 1..k
  <2>1. i \in Nat /\ i >= 1 /\ 1..i \subseteq kept
    BY <1>2, <1>3
  <2>2. Cardinality(1..i) <= k
    BY <1>5, <2>1, FS_Subset
  <2>3. QED
    BY <1>4, <1>5, <2>1, <2>2
<1>7. kept \subseteq 1..k
  BY <1>6
<1>8. Cardinality(1..k) = Cardinality(kept) /\ IsFiniteSet(1..k)
  BY <1>4, <1>5
<1>9. kept = 1..k
  BY <1>7, <1>8, FS_Subset
<1>10. QED
  BY <1>5, <1>9, <1>1 DEF kept, n

LEMMA AgedIs ==
  ASSUME NEW ages \in Seq(Ages), Rising(ages)
  PROVE  /\ Aged(ages) \in Seq(Ages) /\ Rising(Aged(ages))
         /\ Len(Aged(ages)) <= Len(ages)
         /\ \A i \in 1..Len(Aged(ages)) : i \in 1..Len(ages) /\ Aged(ages)[i] = ages[i] + 1
<1> DEFINE k == Cardinality(Recent(ages))
           aged == [i \in 1..k |-> ages[i] + 1]
<1>1. k \in Nat /\ k <= Len(ages) /\ Recent(ages) = 1..k
  BY RecentIs, AgesAre
<1>2. \A i \in 1..k : i \in 1..Len(ages) /\ ages[i] \in Nat /\ ages[i] + 1 < Window
  BY <1>1, AgesAre DEF Recent
<1> HIDE DEF k
<1>3. \A i \in 1..k : ages[i] + 1 \in Ages
  BY <1>2, ClockRange DEF Ages
<1>4. aged \in [1..k -> Ages]
  BY <1>3
<1>5. aged \in Seq(Ages) /\ Len(aged) = k
  BY <1>1, <1>4
<1>6. Aged(ages) = aged
  BY DEF Aged, k
<1>7. Rising(aged)
  <2>1. ASSUME NEW i \in 1..k, NEW j \in 1..k, i < j PROVE ages[i] + 1 <= ages[j] + 1
    <3>1. ages[i] <= ages[j]
      BY <1>2, <2>1, AgesAre DEF Rising
    <3>2. QED
      BY <1>2, <3>1
  <2>2. QED
    BY <2>1 DEF Rising
<1> HIDE DEF aged
<1>8. \A i \in 1..Len(aged) : i \in 1..Len(ages) /\ aged[i] = ages[i] + 1
  BY <1>2, <1>5 DEF aged
<1>9. QED
  BY <1>1, <1>5, <1>6, <1>7, <1>8

\* A request admitted now is younger than those before it.
LEMMA AdmittedNow ==
  ASSUME NEW ages \in Seq(Ages), Rising(ages)
  PROVE  /\ <<0>> \o ages \in Seq(Ages) /\ Rising(<<0>> \o ages)
         /\ Len(<<0>> \o ages) = Len(ages) + 1
         /\ \A i \in 2..Len(ages) + 1 : (<<0>> \o ages)[i] = ages[i - 1]
<1> DEFINE more == <<0>> \o ages
<1>1. 0 \in Ages /\ Len(ages) \in Nat
  BY AgesAre, ClockRange DEF Ages
<1>2. <<0>> \in Seq(Ages) /\ Len(<<0>>) = 1
  BY <1>1
<1>3. /\ more \in Seq(Ages) /\ Len(more) = 1 + Len(ages)
      /\ \A i \in 1..1 + Len(ages) : more[i] = IF i <= 1 THEN <<0>>[i] ELSE ages[i - 1]
  BY <1>2, ConcatProperties
<1> HIDE DEF more
<1>4. more[1] = 0 /\ \A i \in 2..Len(ages) + 1 : more[i] = ages[i - 1] /\ i - 1 \in 1..Len(ages)
  BY <1>1, <1>3
<1>5. DOMAIN more = 1..Len(ages) + 1
  BY <1>1, <1>3, AgesAre
<1>6. Rising(more)
  <2>1. SUFFICES ASSUME NEW i \in 1..Len(ages) + 1, NEW j \in 1..Len(ages) + 1, i < j
                 PROVE  more[i] <= more[j]
    BY <1>5 DEF Rising
  <2>2. j \in 2..Len(ages) + 1
    BY <1>1, <2>1
  <2>3. CASE i = 1
    BY <1>4, <2>2, <2>3, AgesAre
  <2>4. CASE i # 1
    BY <1>1, <1>4, <2>1, <2>2, <2>4, AgesAre DEF Rising
  <2>5. QED
    BY <2>3, <2>4
<1>7. QED
  BY <1>1, <1>3, <1>4, <1>6 DEF more

-----------------------------------------------------------------------------
(***************************************************************************)
(* The inductive invariant.                                                *)
(***************************************************************************)

TableOK ==
    /\ TypeOK
    /\ IsFiniteSet(DOMAIN table)
    /\ table = [c \in DOMAIN table |-> table[c]]

GrantedOK ==
    /\ granted \in [Channels -> Seq(Ages)]
    /\ \A c \in Channels : Rising(granted[c])

\* Beyond the requests counted in the current window of a channel lie at most
\* an allowance, and none is younger than the window.
Covered(ages, slot, t) ==
    /\ Len(ages) <= slot.count + MaxAttempts
    /\ \A i \in 1..Len(ages) : i > slot.count => ages[i] >= Elapsed(slot.start, t)

WindowsCover ==
    \A c \in Channels :
      IF c \in DOMAIN table THEN Covered(granted[c], table[c], now) ELSE granted[c] = << >>

RateInv == TableOK /\ GrantedOK /\ WindowsCover

LEMMA SlotIs ==
  ASSUME NEW slot \in Slots
  PROVE  /\ slot.start \in Ticks /\ slot.count \in Nat /\ slot.count <= MaxAttempts
         /\ slot = [start |-> slot.start, count |-> slot.count]
BY ClockRange DEF Slots

\* A slot is fresh, or the channel's own within its window.
LEMMA CurrentSlotIs ==
  ASSUME TableOK, NEW c \in Channels
  PROVE  /\ CurrentSlot(table, c, now) \in Slots
         /\ \/ /\ c \in DOMAIN table /\ Elapsed(table[c].start, now) < Window
               /\ CurrentSlot(table, c, now) = table[c]
            \/ /\ c \in DOMAIN table => ~(Elapsed(table[c].start, now) < Window)
               /\ CurrentSlot(table, c, now) = [start |-> now, count |-> 0]
<1>1. [start |-> now, count |-> 0] \in Slots
  BY ClockRange DEF TableOK, TypeOK, Slots
<1>2. QED
  BY <1>1 DEF CurrentSlot, TableOK, TypeOK

\* When the window of a channel is over, what is left of its requests are those
\* counted in that window.
LEMMA OverLeavesOne ==
  ASSUME RateInv, NEW c \in Channels,
         c \in DOMAIN table => ~(Elapsed(table[c].start, now) < Window)
  PROVE  Len(granted[c]) <= MaxAttempts
<1>1. granted[c] \in Seq(Ages)
  BY DEF RateInv, GrantedOK
<1>2. CASE c \notin DOMAIN table
  BY <1>2, ClockRange DEF RateInv, WindowsCover
<1>3. CASE c \in DOMAIN table
  <2>1. /\ table[c] \in Slots /\ now \in Ticks /\ Covered(granted[c], table[c], now)
        /\ ~(Elapsed(table[c].start, now) < Window)
    BY <1>3 DEF RateInv, TableOK, TypeOK, WindowsCover
  <2>2. /\ table[c].count \in Nat /\ table[c].count <= MaxAttempts
        /\ Elapsed(table[c].start, now) \in Nat
    BY <2>1, SlotIs, ElapsedIs
  <2>3. ASSUME Len(granted[c]) > table[c].count PROVE FALSE
    <3> DEFINE last == Len(granted[c])
    <3>1. last \in 1..last /\ granted[c][last] \in Nat /\ granted[c][last] < Window
      BY <1>1, <2>2, <2>3, AgesAre
    <3>2. granted[c][last] >= Elapsed(table[c].start, now)
      BY <2>1, <2>3, <3>1 DEF Covered
    <3>3. QED
      BY <2>1, <2>2, <3>1, <3>2, ClockRange
  <2>4. QED
    BY <1>1, <2>2, <2>3, AgesAre, ClockRange
<1>4. QED
  BY <1>2, <1>3

\* A tick of either clock keeps what covers a channel.
LEMMA AgedCovered ==
  ASSUME NEW ages \in Seq(Ages), Rising(ages),
         NEW slot \in Slots, NEW t \in Ticks, Covered(ages, slot, t),
         NEW after \in Slots, NEW u \in Ticks, after.count = slot.count,
         Elapsed(after.start, u) <= Elapsed(slot.start, t) + 1
  PROVE  Covered(Aged(ages), after, u)
<1> DEFINE aged == Aged(ages)
<1>1. /\ aged \in Seq(Ages) /\ Len(aged) <= Len(ages)
      /\ \A i \in 1..Len(aged) : i \in 1..Len(ages) /\ aged[i] = ages[i] + 1
  BY AgedIs
<1> HIDE DEF aged
<1>2. /\ Len(aged) \in Nat /\ Len(ages) \in Nat
      /\ slot.count \in Nat /\ MaxAttempts \in Nat
      /\ Elapsed(after.start, u) \in Nat /\ Elapsed(slot.start, t) \in Nat
  BY <1>1, AgesAre, SlotIs, ElapsedIs, ClockRange
<1>3. Len(aged) <= after.count + MaxAttempts
  BY <1>1, <1>2 DEF Covered
<1>4. ASSUME NEW i \in 1..Len(aged), i > after.count
      PROVE  aged[i] >= Elapsed(after.start, u)
  <2>1. i \in 1..Len(ages) /\ ages[i] \in Nat /\ ages[i] >= Elapsed(slot.start, t)
    BY <1>1, <1>4, AgesAre DEF Covered
  <2>2. QED
    BY <1>1, <1>2, <2>1
<1>5. QED
  BY <1>3, <1>4 DEF Covered, aged

\* A request admitted into the window of its channel, and one that opens it.
LEMMA AdmittedCovered ==
  ASSUME NEW ages \in Seq(Ages), Rising(ages), NEW slot \in Slots, NEW t \in Ticks,
         Covered(ages, slot, t) \/ (slot = [start |-> t, count |-> 0] /\ Len(ages) <= MaxAttempts)
  PROVE  Covered(<<0>> \o ages, [slot EXCEPT !.count = @ + 1], t)
<1> DEFINE more == <<0>> \o ages
           used == [slot EXCEPT !.count = @ + 1]
<1>1. used.start = slot.start /\ used.count = slot.count + 1 /\ slot.count \in Nat
  BY SlotIs DEF Slots
<1>2. /\ more \in Seq(Ages) /\ Len(more) = Len(ages) + 1
      /\ \A i \in 2..Len(ages) + 1 : more[i] = ages[i - 1]
  BY AdmittedNow
<1>3. Len(ages) \in Nat /\ MaxAttempts \in Nat /\ Elapsed(slot.start, t) \in Nat
  BY AgesAre, ClockRange, ElapsedIs, SlotIs
<1> HIDE DEF more, used
<1>4. CASE Covered(ages, slot, t)
  <2>1. Len(more) <= used.count + MaxAttempts
    BY <1>1, <1>2, <1>3, <1>4 DEF Covered
  <2>2. ASSUME NEW i \in 1..Len(more), i > used.count
        PROVE  more[i] >= Elapsed(used.start, t)
    <3>1. i \in 2..Len(ages) + 1 /\ i - 1 \in 1..Len(ages) /\ i - 1 > slot.count
      BY <1>1, <1>2, <1>3, <2>2
    <3>2. QED
      BY <1>1, <1>2, <1>4, <3>1 DEF Covered
  <2>3. QED
    BY <2>1, <2>2 DEF Covered, more, used
<1>5. CASE slot = [start |-> t, count |-> 0] /\ Len(ages) <= MaxAttempts
  <2>1. slot.start = t /\ slot.count = 0
    BY <1>5
  <2>2. Elapsed(used.start, t) = 0
    BY <1>1, <2>1, ElapsedIs, ClockRange
  <2>3. Len(more) <= used.count + MaxAttempts
    BY <1>1, <1>2, <1>3, <1>5, <2>1
  <2>4. \A i \in 1..Len(more) : more[i] \in Nat
    BY <1>2, AgesAre
  <2>5. QED
    BY <2>2, <2>3, <2>4 DEF Covered, more, used
<1>6. QED
  BY <1>4, <1>5

-----------------------------------------------------------------------------
(***************************************************************************)
(* The steps.                                                              *)
(***************************************************************************)

LEMMA UnchangedKeeps == ASSUME RateInv, UNCHANGED vars PROVE RateInv'
BY DEF RateInv, TableOK, TypeOK, GrantedOK, WindowsCover, Covered, vars

LEMMA TakenSlot ==
  ASSUME TableOK, NEW c \in Channels, HasSlot(table, c)
  PROVE  /\ DOMAIN table \cup {c} \subseteq Channels
         /\ IsFiniteSet(DOMAIN table \cup {c})
         /\ Cardinality(DOMAIN table \cup {c}) <= MaxSlots
<1>1. IsFiniteSet(DOMAIN table) /\ DOMAIN table \subseteq Channels
      /\ Cardinality(DOMAIN table) <= MaxSlots
  BY DEF TableOK, TypeOK
<1>2. Cardinality(DOMAIN table) \in Nat /\ MaxSlots \in Nat
  BY <1>1, FS_CardinalityType, RateAssumption
<1>3. IsFiniteSet(DOMAIN table \cup {c})
      /\ Cardinality(DOMAIN table \cup {c})
           = IF c \in DOMAIN table THEN Cardinality(DOMAIN table)
             ELSE Cardinality(DOMAIN table) + 1
  BY <1>1, FS_AddElement
<1>4. QED
  BY <1>1, <1>2, <1>3 DEF HasSlot

LEMMA RequestKeeps ==
  ASSUME RateInv, NEW c \in Channels, Request(c)
  PROVE  RateInv'
<1> DEFINE slot == CurrentSlot(table, c, now)
           used == [slot EXCEPT !.count = @ + 1]
<1>1. CASE ~HasSlot(table, c)
  <2>1. UNCHANGED vars
    BY <1>1 DEF Request, AfterAllow, Admits, vars
  <2>2. QED
    BY <2>1, UnchangedKeeps
<1>2. CASE HasSlot(table, c) /\ slot.count < MaxAttempts
  <2>1. /\ table' = [d \in DOMAIN table \cup {c} |-> IF d = c THEN used ELSE table[d]]
        /\ granted' = [granted EXCEPT ![c] = <<0>> \o @] /\ now' = now
    BY <1>2 DEF Request, AfterAllow, Admits
  <2>2. slot \in Slots /\ used \in Slots
    BY <1>2, CurrentSlotIs, SlotIs, ClockRange DEF RateInv, Slots
  <2>3. now \in Ticks /\ \A d \in DOMAIN table : table[d] \in Slots
    BY DEF RateInv, TableOK, TypeOK
  <2>4. granted[c] \in Seq(Ages) /\ Rising(granted[c])
        /\ granted \in [Channels -> Seq(Ages)]
        /\ \A d \in Channels : Rising(granted[d])
    BY DEF RateInv, GrantedOK
  <2>5. Covered(<<0>> \o granted[c], used, now)
    <3>1. CASE /\ c \in DOMAIN table /\ Elapsed(table[c].start, now) < Window
               /\ slot = table[c]
      <4>1. Covered(granted[c], slot, now)
        BY <3>1 DEF RateInv, WindowsCover
      <4>2. QED
        BY <2>2, <2>3, <2>4, <4>1, AdmittedCovered
    <3>2. CASE /\ c \in DOMAIN table => ~(Elapsed(table[c].start, now) < Window)
               /\ slot = [start |-> now, count |-> 0]
      <4>1. Len(granted[c]) <= MaxAttempts
        BY <3>2, OverLeavesOne
      <4>2. QED
        BY <2>2, <2>3, <2>4, <3>2, <4>1, AdmittedCovered
    <3>3. QED
      BY <3>1, <3>2, CurrentSlotIs DEF RateInv
  <2> HIDE DEF slot, used
  <2>6. DOMAIN table' = DOMAIN table \cup {c}
    BY <2>1
  <2>7. TableOK'
    <3>1. \A d \in DOMAIN table' : table'[d] \in Slots
      BY <2>1, <2>2, <2>3
    <3>2. table' = [d \in DOMAIN table' |-> table'[d]]
      BY <2>1
    <3>3. QED
      BY <1>2, <2>1, <2>3, <2>6, <3>1, <3>2, TakenSlot DEF RateInv, TableOK, TypeOK
  <2>8. GrantedOK'
    <3>1. <<0>> \o granted[c] \in Seq(Ages) /\ Rising(<<0>> \o granted[c])
      BY <2>4, AdmittedNow
    <3>2. granted' \in [Channels -> Seq(Ages)]
      BY <2>1, <2>4, <3>1
    <3>3. \A d \in Channels : granted'[d] = IF d = c THEN <<0>> \o granted[c] ELSE granted[d]
      BY <2>1, <2>4
    <3>4. QED
      BY <2>4, <3>1, <3>2, <3>3 DEF GrantedOK
  <2>9. WindowsCover'
    <3>1. SUFFICES ASSUME NEW d \in Channels
                   PROVE  IF d \in DOMAIN table' THEN Covered(granted'[d], table'[d], now)
                          ELSE granted'[d] = << >>
      BY <2>1 DEF WindowsCover, Covered
    <3>2. CASE d = c
      <4>1. granted'[d] = <<0>> \o granted[c] /\ table'[d] = used /\ d \in DOMAIN table'
        BY <2>1, <2>4, <3>2
      <4>2. QED
        BY <2>5, <4>1
    <3>3. CASE d # c
      <4>1. /\ granted'[d] = granted[d]
            /\ d \in DOMAIN table' <=> d \in DOMAIN table
            /\ d \in DOMAIN table => table'[d] = table[d]
        BY <2>1, <2>4, <3>3
      <4>2. QED
        BY <4>1 DEF RateInv, WindowsCover
    <3>4. QED
      BY <3>2, <3>3
  <2>10. QED
    BY <2>7, <2>8, <2>9 DEF RateInv
<1>3. CASE HasSlot(table, c) /\ ~(slot.count < MaxAttempts)
  <2>1. /\ table' = [d \in DOMAIN table \cup {c} |-> IF d = c THEN slot ELSE table[d]]
        /\ granted' = granted /\ now' = now
    BY <1>3 DEF Request, AfterAllow, Admits
  <2>2. c \in DOMAIN table /\ slot = table[c]
    BY <1>3, CurrentSlotIs, ClockRange DEF RateInv
  <2>3. table' = [d \in DOMAIN table |-> table[d]]
    BY <2>1, <2>2
  <2>4. UNCHANGED vars
    BY <2>1, <2>3 DEF RateInv, TableOK, vars
  <2>5. QED
    BY <2>4, UnchangedKeeps
<1>4. QED
  BY <1>1, <1>2, <1>3

\* What both clocks do to the history.
LEMMA AgedKeeps ==
  ASSUME RateInv, granted' = [c \in Channels |-> Aged(granted[c])],
         TableOK', DOMAIN table' = DOMAIN table,
         \A c \in DOMAIN table :
            /\ table'[c].count = table[c].count
            /\ Elapsed(table'[c].start, now') <= Elapsed(table[c].start, now) + 1
  PROVE  RateInv'
<1>1. ASSUME NEW c \in Channels
      PROVE  /\ granted[c] \in Seq(Ages) /\ Rising(granted[c])
             /\ granted'[c] = Aged(granted[c])
             /\ Aged(granted[c]) \in Seq(Ages) /\ Rising(Aged(granted[c]))
  BY AgedIs DEF RateInv, GrantedOK
<1>2. GrantedOK'
  BY <1>1 DEF GrantedOK
<1>3. ASSUME NEW c \in Channels, c \in DOMAIN table
      PROVE  Covered(granted'[c], table'[c], now')
  <2>1. /\ table[c] \in Slots /\ now \in Ticks /\ Covered(granted[c], table[c], now)
        /\ table'[c] \in Slots /\ now' \in Ticks
    BY <1>3 DEF RateInv, TableOK, TypeOK, WindowsCover
  <2>2. Covered(Aged(granted[c]), table'[c], now')
    BY <1>1, <1>3, <2>1, AgedCovered
  <2>3. QED
    BY <1>1, <2>2
<1>4. ASSUME NEW c \in Channels, c \notin DOMAIN table
      PROVE  granted'[c] = << >>
  <2>1. granted[c] = << >>
    BY <1>4 DEF RateInv, WindowsCover
  <2>2. Len(Aged(granted[c])) = 0
    BY <1>1, <2>1, AgedIs, AgesAre
  <2>3. QED
    BY <1>1, <2>2, EmptySeq
<1>5. WindowsCover'
  BY <1>3, <1>4 DEF WindowsCover, Covered
<1>6. QED
  BY <1>2, <1>5 DEF RateInv

LEMMA AdvanceKeeps == ASSUME RateInv, Advance PROVE RateInv'
<1>1. /\ now' = (now + 1) % TickModulus /\ table' = table
      /\ granted' = [c \in Channels |-> Aged(granted[c])]
  BY DEF Advance
<1>2. now \in Ticks /\ \A c \in DOMAIN table : table[c].start \in Ticks
  BY SlotIs DEF RateInv, TableOK, TypeOK
<1>3. now' \in Ticks
  BY <1>1, <1>2, ElapsedNext
<1>4. TableOK'
  BY <1>1, <1>3 DEF RateInv, TableOK, TypeOK
<1>5. \A c \in DOMAIN table : Elapsed(table[c].start, now') <= Elapsed(table[c].start, now) + 1
  BY <1>1, <1>2, ElapsedNext
<1>6. QED
  BY <1>1, <1>4, <1>5, AgedKeeps

LEMMA TickKeeps == ASSUME RateInv, Tick PROVE RateInv'
<1>1. /\ table' = [c \in DOMAIN table |->
                     [table[c] EXCEPT !.start = IF @ > 0 THEN @ - 1 ELSE 0]]
      /\ now' = now /\ granted' = [c \in Channels |-> Aged(granted[c])]
  BY DEF Tick, AfterLimiterTick
<1>2. DOMAIN table' = DOMAIN table
  BY <1>1
<1>3. ASSUME NEW c \in DOMAIN table
      PROVE  /\ table'[c] \in Slots /\ table'[c].count = table[c].count
             /\ Elapsed(table'[c].start, now) <= Elapsed(table[c].start, now) + 1
  <2>1. table[c] \in Slots /\ table[c].start \in Ticks /\ now \in Ticks
    BY SlotIs DEF RateInv, TableOK, TypeOK
  <2>2. table'[c] = [table[c] EXCEPT !.start = IF table[c].start > 0
                                               THEN table[c].start - 1 ELSE 0]
    BY <1>1
  <2>3. /\ table'[c].count = table[c].count
        /\ table'[c].start = IF table[c].start > 0 THEN table[c].start - 1 ELSE 0
        /\ table'[c] = [start |-> table'[c].start, count |-> table[c].count]
    BY <2>1, <2>2 DEF Slots
  <2>4. CASE table[c].start > 0
    <3>1. /\ table'[c].start \in Ticks
          /\ Elapsed(table'[c].start, now) <= Elapsed(table[c].start, now) + 1
      BY <2>1, <2>3, <2>4, ElapsedTick
    <3>2. QED
      BY <2>1, <2>3, <3>1 DEF Slots
  <2>5. CASE ~(table[c].start > 0)
    <3>1. table'[c].start = table[c].start /\ Elapsed(table[c].start, now) \in Nat
      BY <2>1, <2>3, <2>5, ElapsedIs, ClockRange
    <3>2. QED
      BY <2>1, <2>3, <3>1 DEF Slots
  <2>6. QED
    BY <2>4, <2>5
<1>4. TableOK'
  <2>1. table' = [c \in DOMAIN table' |-> table'[c]]
    BY <1>1
  <2>2. QED
    BY <1>1, <1>2, <1>3, <2>1 DEF RateInv, TableOK, TypeOK
<1>5. QED
  BY <1>1, <1>2, <1>3, <1>4, AgedKeeps

LEMMA InitInv == Init => RateInv
<1> SUFFICES ASSUME Init PROVE RateInv
  OBVIOUS
<1>1. DOMAIN table = {} /\ table = [c \in {} |-> 0]
  BY DEF Init, EmptyTable
<1>2. IsFiniteSet(DOMAIN table) /\ Cardinality(DOMAIN table) = 0
  BY <1>1, FS_EmptySet
<1>3. TableOK
  <2>1. table = [c \in DOMAIN table |-> table[c]]
    BY <1>1
  <2>2. 0 <= MaxSlots
    BY RateAssumption
  <2>3. QED
    BY <1>1, <1>2, <2>1, <2>2 DEF Init, TableOK, TypeOK
<1>4. \A c \in Channels : granted[c] = << >>
  BY DEF Init
<1>5. GrantedOK
  BY EmptySeq DEF Init, GrantedOK, Rising
<1>6. QED
  BY <1>1, <1>3, <1>4, <1>5 DEF RateInv, WindowsCover

LEMMA StepInv == RateInv /\ [Next]_vars => RateInv'
BY RequestKeeps, AdvanceKeeps, TickKeeps, UnchangedKeeps DEF Next

THEOREM RateInvariant == Spec => []RateInv
BY InitInv, StepInv, PTL DEF Spec

\* The table never holds more channels than it has slots, and no channel's
\* count passes the allowance.
THEOREM RateTypeCorrect == Spec => []TypeOK
BY RateInvariant, PTL DEF RateInv, TableOK

\* rate_limiter_allow admits at most two allowances of a channel in any stretch
\* as long as a window, wherever it starts, across restarts of the window, wraps
\* of the clock and ticks of the limiter.
THEOREM AtMostTwoAllowances == Spec => []SlidingBound
<1>1. RateInv => SlidingBound
  <2> SUFFICES ASSUME RateInv, NEW c \in Channels PROVE Len(granted[c]) <= 2 * MaxAttempts
    BY DEF SlidingBound
  <2>1. granted[c] \in Seq(Ages) /\ Len(granted[c]) \in Nat
    BY AgesAre DEF RateInv, GrantedOK
  <2>2. CASE c \in DOMAIN table
    <3>1. table[c] \in Slots /\ Covered(granted[c], table[c], now)
      BY <2>2 DEF RateInv, TableOK, TypeOK, WindowsCover
    <3>2. Len(granted[c]) <= table[c].count + MaxAttempts /\ table[c].count \in Nat
          /\ table[c].count <= MaxAttempts
      BY <3>1, SlotIs DEF Covered
    <3>3. QED
      BY <2>1, <3>2, ClockRange
  <2>3. CASE c \notin DOMAIN table
    BY <2>3, ClockRange DEF RateInv, WindowsCover
  <2>4. QED
    BY <2>2, <2>3
<1>2. QED
  BY <1>1, RateInvariant, PTL

\* What rate_limiter_allow answers to a refused channel is the exact time after
\* which it is admitted: not before, and then at once.
THEOREM WaitIsExact == Spec => []RetryHonest
<1>1. RateInv => RetryHonest
  <2> SUFFICES ASSUME RateInv, NEW c \in DOMAIN table, Refused(c)
               PROVE  LET wait == RetryAfter(table, c, now)
                      IN  /\ wait > 0
                          /\ Admits(table, c, (now + wait) % TickModulus)
                          /\ \A sooner \in 0..wait - 1 :
                                ~Admits(table, c, (now + sooner) % TickModulus)
    BY DEF RetryHonest
  <2> DEFINE e == Elapsed(table[c].start, now)
             wait == RetryAfter(table, c, now)
  <2>1. c \in Channels /\ table[c] \in Slots /\ now \in Ticks /\ HasSlot(table, c)
    BY DEF RateInv, TableOK, TypeOK, HasSlot
  <2>2. table[c].start \in Ticks /\ table[c].count \in Nat /\ e \in Nat
    BY <2>1, SlotIs, ElapsedIs
  <2>3. ~(CurrentSlot(table, c, now).count < MaxAttempts)
    BY <2>1 DEF Refused, Admits
  <2>4. e < Window /\ CurrentSlot(table, c, now) = table[c]
    BY <2>1, <2>3, CurrentSlotIs, ClockRange DEF RateInv
  <2>5. wait = Window - e
    BY <2>1, <2>4 DEF RetryAfter
  <2> HIDE DEF e, wait
  <2>6. wait \in Nat /\ wait > 0 /\ e + wait = Window
    BY <2>2, <2>4, <2>5, ClockRange
  <2>7. Admits(table, c, (now + wait) % TickModulus)
    <3>1. Elapsed(table[c].start, (now + wait) % TickModulus) = Window
      BY <2>1, <2>2, <2>6, ElapsedLater, ClockRange DEF e
    <3>2. CurrentSlot(table, c, (now + wait) % TickModulus)
            = [start |-> (now + wait) % TickModulus, count |-> 0]
      BY <3>1, ClockRange DEF CurrentSlot
    <3>3. QED
      BY <2>1, <3>2, ClockRange DEF Admits
  <2>8. ASSUME NEW sooner \in 0..wait - 1
        PROVE  ~Admits(table, c, (now + sooner) % TickModulus)
    <3>1. sooner \in Nat /\ e + sooner < Window
      BY <2>2, <2>6, ClockRange
    <3>2. e + sooner < TickModulus
      BY <2>2, <3>1, ClockRange
    <3>3. Elapsed(table[c].start, (now + sooner) % TickModulus) = e + sooner
      BY <2>1, <2>2, <3>1, <3>2, ElapsedLater DEF e
    <3>4. CurrentSlot(table, c, (now + sooner) % TickModulus) = table[c]
      BY <3>1, <3>3 DEF CurrentSlot
    <3>5. QED
      BY <2>3, <2>4, <3>4 DEF Admits
  <2>9. QED
    BY <2>6, <2>7, <2>8 DEF wait
<1>2. QED
  BY <1>1, RateInvariant, PTL

=============================================================================
