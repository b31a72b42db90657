----------------------------- MODULE RateLimiter -----------------------------
(***************************************************************************)
(* The rate limiter of firmware/src/rate_limiter.c: a fixed window per     *)
(* channel, in a table with a fixed number of slots.  Slots are taken on   *)
(* first use and never given back.  Times are unsigned and wrap at         *)
(* TickModulus.                                                            *)
(***************************************************************************)
EXTENDS Naturals, FiniteSets, Sequences

CONSTANTS
    Channels,     \* what requests are counted by: origins, and "global"
    MaxSlots,     \* RATE_LIMIT_MAX_ORIGINS
    Window,       \* window_ticks
    MaxAttempts,  \* max_attempts
    TickModulus   \* 2^32, the range of the tick counters

ASSUME RateAssumption ==
    /\ {MaxSlots, Window, MaxAttempts} \subseteq Nat \ {0}
    /\ TickModulus \in Nat /\ Window < TickModulus

Ticks == 0..TickModulus - 1

Slots == [start : Ticks, count : 0..MaxAttempts]

Elapsed(start, now) == (now + TickModulus - start) % TickModulus

\* Mutant: an off-by-one in the search for a free slot.
HasSlotOneTooMany(table, channel) ==
    channel \in DOMAIN table \/ Cardinality(DOMAIN table) <= MaxSlots

HasSlot(table, channel) ==
    channel \in DOMAIN table \/ Cardinality(DOMAIN table) < MaxSlots

\* Mutant: a window that is over restarts its count but not its start.
CurrentSlotStaleStart(table, channel, now) ==
    IF channel \notin DOMAIN table THEN [start |-> now, count |-> 0]
    ELSE IF Elapsed(table[channel].start, now) < Window THEN table[channel]
    ELSE [table[channel] EXCEPT !.count = 0]

\* The channel's slot, taken now if it has none, its window restarted if over.
CurrentSlot(table, channel, now) ==
    IF channel \in DOMAIN table /\ Elapsed(table[channel].start, now) < Window
    THEN table[channel]
    ELSE [start |-> now, count |-> 0]

Admits(table, channel, now) ==
    HasSlot(table, channel) /\ CurrentSlot(table, channel, now).count < MaxAttempts

\* Mutant: a refusal restarts the window.
AfterAllowProlongs(table, channel, now) ==
    IF ~HasSlot(table, channel) THEN table
    ELSE LET slot == CurrentSlot(table, channel, now)
             used == IF slot.count < MaxAttempts
                     THEN [slot EXCEPT !.count = @ + 1] ELSE [slot EXCEPT !.start = now]
         IN  [c \in DOMAIN table \cup {channel} |->
                IF c = channel THEN used ELSE table[c]]

\* rate_limiter_allow: a refused request may still have taken or restarted a slot.
AfterAllow(table, channel, now) ==
    IF ~HasSlot(table, channel) THEN table
    ELSE LET slot == CurrentSlot(table, channel, now)
             used == IF slot.count < MaxAttempts
                     THEN [slot EXCEPT !.count = @ + 1] ELSE slot
         IN  [c \in DOMAIN table \cup {channel} |->
                IF c = channel THEN used ELSE table[c]]

\* Mutant: the whole window, whatever has passed of it.
RetryAfterWindow(table, channel, now) == IF HasSlot(table, channel) THEN Window ELSE 0

\* The answer to a refused request.
RetryAfter(table, channel, now) ==
    IF HasSlot(table, channel)
    THEN Window - Elapsed(CurrentSlot(table, channel, now).start, now)
    ELSE 0

\* rate_limiter_tick ages every window; a start of zero cannot be aged.
AfterLimiterTick(table) ==
    [c \in DOMAIN table |->
       [table[c] EXCEPT !.start = IF @ > 0 THEN @ - 1 ELSE 0]]

EmptyTable == [c \in {} |-> 0]

-----------------------------------------------------------------------------
VARIABLES
    table,   \* limiter->entries in use
    now,     \* the caller's clock, passed to every call
    granted  \* history: per channel, the ages of the requests admitted less
             \* than a window ago, in clock advances and limiter ticks, newest first

vars == <<table, now, granted>>

Init ==
    /\ table = EmptyTable
    /\ now \in Ticks
    /\ granted = [c \in Channels |-> << >>]

Request(channel) ==
    /\ table' = AfterAllow(table, channel, now)
    /\ granted' = IF Admits(table, channel, now)
                  THEN [granted EXCEPT ![channel] = <<0>> \o @] ELSE granted
    /\ UNCHANGED now

\* The ages rise along the sequence: what stays within a window is its beginning.
Recent(ages) == {i \in DOMAIN ages : ages[i] + 1 < Window}

Aged(ages) == [i \in 1..Cardinality(Recent(ages)) |-> ages[i] + 1]

\* The caller's clock moves on.
Advance ==
    /\ now' = (now + 1) % TickModulus
    /\ granted' = [c \in Channels |-> Aged(granted[c])]
    /\ UNCHANGED table

Tick ==
    /\ table' = AfterLimiterTick(table)
    /\ granted' = [c \in Channels |-> Aged(granted[c])]
    /\ UNCHANGED now

Next == (\E channel \in Channels : Request(channel)) \/ Advance \/ Tick

Spec == Init /\ [][Next]_vars

\* Whoever asks again and again passes a clock that moves on.
FairSpec == Spec /\ WF_vars(Advance)

-----------------------------------------------------------------------------
\* No table overflow; every count within the limit.
TypeOK ==
    /\ DOMAIN table \subseteq Channels
    /\ Cardinality(DOMAIN table) <= MaxSlots
    /\ \A c \in DOMAIN table : table[c] \in Slots
    /\ now \in Ticks

\* Fixed windows admit at most two allowances in any stretch as long as one
\* window, wherever it starts, across restarts, wraps of the clock and ticks.
SlidingBound == \A c \in Channels : Len(granted[c]) <= 2 * MaxAttempts

\* The waiting time told to a refused channel is exact: asking again any sooner
\* is refused, asking at that time is admitted.
Refused(c) == c \in DOMAIN table /\ ~Admits(table, c, now)

RetryHonest ==
    \A c \in DOMAIN table : Refused(c) =>
        LET wait == RetryAfter(table, c, now)
        IN  /\ wait > 0
            /\ Admits(table, c, (now + wait) % TickModulus)
            /\ \A sooner \in 0..wait - 1 : ~Admits(table, c, (now + sooner) % TickModulus)

\* A refused channel is admitted again once the clock moves on, however often
\* it keeps asking: refusals do not prolong the window.
RefusalEnds == \A c \in Channels : Refused(c) ~> ~Refused(c)

=============================================================================
