------------------------- MODULE ActionEngineProofs -------------------------
(***************************************************************************)
(* Proofs about the action engine, for every set of commands, logins and   *)
(* settings, every capacity, rate and threshold.  The handlers are         *)
(* operators on worlds, so most lemmas say what a handler makes of a good  *)
(* world; an action then is one handler, or a command followed by a hold.  *)
(*                                                                         *)
(* The lemmas on the device context come from StateMachineProofs, whose    *)
(* history variable plays no part here, those on the array of entries from *)
(* VaultProofs.                                                            *)
(***************************************************************************)
EXTENDS ActionEngine, StateMachineProofs, FiniteSetTheorems, SequenceTheorems

StoreProofs == INSTANCE VaultProofs

-----------------------------------------------------------------------------
(***************************************************************************)
(* Good worlds.  The device context may be inconsistent, after a hold on a *)
(* device that has locked since the request; but never in a session, and   *)
(* never while an action is pending.                                       *)
(***************************************************************************)

Pendings ==
    [kind : Kinds, credential : Credentials, origin : Origins,
     override_with_hold : BOOLEAN, pending_index : Nat]

Results ==
    [allowed : BOOLEAN, performed : BOOLEAN, typed : Credentials,
     change : {"none", "created", "updated"}]

Tables ==
    UNION {[D -> Rate!Slots] :
             D \in {E \in SUBSET Origins : IsFiniteSet(E) /\ Cardinality(E) <= MaxSlots}}

IdsApart(v) == \A i, j \in DOMAIN v : v[i].id = v[j].id => i = j

Arrays ==
    {v \in Seq(Store!Entries) :
       Len(v) <= VaultCapacity /\ Store!AccountsUnique(v) /\ IdsApart(v)}

Worlds ==
    [ctx : ContextType, vault : Arrays, pending : Pendings, armed : BOOLEAN,
     limiter : Tables, clock : Rate!Ticks, nonce : Nat, out : Results]

ContextOK(c, kind) ==
    /\ c.unlocked \/ kind # "NONE" => ConsistentContext(c)
    /\ c.unlocked => c.failed_pin_attempts = 0

\* What a pending action remembers, and that the id of a save is a real one.
PendingOK(v, p) ==
    /\ p.kind = "FILL" =>
         Store!HasOrigin(v, p.origin) /\ p.credential = Store!FindByOrigin(v, p.origin)
    /\ p.kind \in {"SAVE", "GENERATE"} =>
         /\ p.credential \in Store!Entries /\ p.credential.origin = p.origin
         /\ p.credential.id = Store!NextId(v) /\ Store!NextId(v) # 0
    /\ p.kind = "SELECT" => Store!HasIndex(v, p.pending_index)

GoodWorlds ==
    {w \in Worlds : ContextOK(w.ctx, w.pending.kind) /\ PendingOK(w.vault, w.pending)}

-----------------------------------------------------------------------------
(***************************************************************************)
(* The parts: the store, the limiter, results.                             *)
(***************************************************************************)

LEMMA StoreConstants == VaultCapacity \in Nat \ {0} /\ IdLimit \in Nat \ {0}
BY EngineAssumption

LEMMA SameStore ==
  /\ Store!Entries = StoreProofs!Entries
  /\ \A v : Store!NextId(v) = StoreProofs!NextId(v)
  /\ \A v, e : Store!Upsert(v, e) = StoreProofs!Upsert(v, e)
  /\ \A v, e : Store!OfAccount(v, e) = StoreProofs!OfAccount(v, e)
  /\ \A v : Store!AccountsUnique(v) = StoreProofs!AccountsUnique(v)
  /\ \A v, o : Store!HasOrigin(v, o) = StoreProofs!HasOrigin(v, o)
  /\ \A v, o : Store!FindByOrigin(v, o) = StoreProofs!FindByOrigin(v, o)
<1>1. Store!Entries = StoreProofs!Entries
  BY DEF Store!Entries, StoreProofs!Entries, Store!Ids, StoreProofs!Ids
<1>2. \A v : Store!NextId(v) = StoreProofs!NextId(v)
  BY DEF Store!NextId, StoreProofs!NextId, Store!Max, StoreProofs!Max
<1>3. \A v, e : Store!OfAccount(v, e) = StoreProofs!OfAccount(v, e)
  BY DEF Store!OfAccount, StoreProofs!OfAccount, Store!SameAccount, StoreProofs!SameAccount
<1>4. \A v, e : Store!Upsert(v, e) = StoreProofs!Upsert(v, e)
  <2>1. \A S : Store!Min(S) = StoreProofs!Min(S)
    BY DEF Store!Min, StoreProofs!Min
  <2>2. SUFFICES ASSUME NEW v, NEW e PROVE Store!Upsert(v, e) = StoreProofs!Upsert(v, e)
    OBVIOUS
  <2>3. Store!OfAccount(v, e) = StoreProofs!OfAccount(v, e)
    BY <1>3
  <2>4. Store!Min(Store!OfAccount(v, e)) = StoreProofs!Min(StoreProofs!OfAccount(v, e))
    BY <2>1, <2>3
  <2>5. Store!Exists(v, e) <=> StoreProofs!Exists(v, e)
    BY <2>3 DEF Store!Exists, StoreProofs!Exists
  <2>6. QED
    BY <2>4, <2>5 DEF Store!Upsert, StoreProofs!Upsert
<1>5. \A v : Store!AccountsUnique(v) = StoreProofs!AccountsUnique(v)
  BY DEF Store!AccountsUnique, StoreProofs!AccountsUnique, Store!SameAccount,
     StoreProofs!SameAccount
<1>6. \A v, o : Store!HasOrigin(v, o) = StoreProofs!HasOrigin(v, o)
  BY DEF Store!HasOrigin, StoreProofs!HasOrigin, Store!OfOrigin, StoreProofs!OfOrigin
<1>7. \A v, o : Store!FindByOrigin(v, o) = StoreProofs!FindByOrigin(v, o)
  BY DEF Store!FindByOrigin, StoreProofs!FindByOrigin, Store!OfOrigin, StoreProofs!OfOrigin,
     Store!Min, StoreProofs!Min
<1>8. QED
  BY <1>1, <1>2, <1>3, <1>4, <1>5, <1>6, <1>7

\* The next id fits its field, and unless the ids are exhausted no entry has it.
LEMMA FreshId ==
  ASSUME NEW v \in Arrays
  PROVE  /\ Store!NextId(v) \in Store!Ids
         /\ Store!NextId(v) # 0 => \A i \in DOMAIN v : v[i].id # Store!NextId(v)
<1>1. v \in Seq(StoreProofs!Entries)
  BY SameStore DEF Arrays
<1>2. /\ StoreProofs!NextId(v) \in StoreProofs!Ids
      /\ StoreProofs!NextId(v) # 0 => \A i \in DOMAIN v : v[i].id < StoreProofs!NextId(v)
  BY <1>1, StoreConstants, StoreProofs!NextIdFits
<1>3. \A i \in DOMAIN v : v[i].id \in Nat
  <2>1. \A i \in DOMAIN v : v[i] \in StoreProofs!Entries
    BY <1>1, ElementOfSeq, LenProperties
  <2>2. QED
    BY <2>1, StoreConstants DEF StoreProofs!Entries, StoreProofs!Ids
<1>4. QED
  BY <1>2, <1>3, SameStore, StoreConstants DEF Store!Ids, StoreProofs!Ids

\* A save keeps the array good, if its id is the next one.
LEMMA UpsertGood ==
  ASSUME NEW v \in Arrays, NEW e \in Store!Entries,
         e.id = Store!NextId(v), Store!NextId(v) # 0
  PROVE  Store!Upsert(v, e) \in Arrays
<1>1. /\ v \in Seq(StoreProofs!Entries) /\ Len(v) <= VaultCapacity
      /\ StoreProofs!AccountsUnique(v) /\ e \in StoreProofs!Entries
  BY SameStore DEF Arrays
<1>2. /\ StoreProofs!Upsert(v, e) \in Seq(StoreProofs!Entries)
      /\ Len(StoreProofs!Upsert(v, e)) <= VaultCapacity
      /\ StoreProofs!AccountsUnique(StoreProofs!Upsert(v, e))
  BY <1>1, StoreConstants, StoreProofs!UpsertKeeps
<1>3. \A i, j \in DOMAIN v : v[i].id = v[j].id => i = j
  BY DEF Arrays, IdsApart
<1>4. \A i \in DOMAIN v : v[i].id # e.id
  BY FreshId
<1>5. \A i, j \in DOMAIN StoreProofs!Upsert(v, e) :
         StoreProofs!Upsert(v, e)[i].id = StoreProofs!Upsert(v, e)[j].id => i = j
  BY <1>1, <1>3, <1>4, StoreConstants, StoreProofs!UpsertKeepsIds
<1>6. QED
  BY <1>2, <1>5, SameStore DEF Arrays, IdsApart

LEMMA EntriesAreCredentials == Store!Entries \subseteq Credentials
BY StoreConstants DEF Store!Entries, Store!Ids, Credentials

\* A lookup by origin finds an entry of that origin.
LEMMA Found ==
  ASSUME NEW v \in Arrays, NEW o, Store!HasOrigin(v, o)
  PROVE  /\ Store!FindByOrigin(v, o) \in Store!Entries
         /\ Store!FindByOrigin(v, o).origin = o
<1>1. v \in Seq(StoreProofs!Entries) /\ StoreProofs!HasOrigin(v, o)
  BY SameStore DEF Arrays
<1>2. /\ StoreProofs!FindByOrigin(v, o) \in StoreProofs!Entries
      /\ StoreProofs!FindByOrigin(v, o).origin = o
  BY <1>1, StoreConstants, StoreProofs!FoundByOrigin
<1>3. QED
  BY <1>2, SameStore

LEMMA SameCount == \A S : Rate!Cardinality(S) = Cardinality(S)
BY DEF Rate!Cardinality, Cardinality

\* A request takes at most one slot, and only a free one.
LEMMA AllowKeepsTable ==
  ASSUME NEW t \in Tables, NEW o \in Origins, NEW now \in Rate!Ticks
  PROVE  Rate!AfterAllow(t, o, now) \in Tables
<1>1. PICK D \in SUBSET Origins :
         IsFiniteSet(D) /\ Cardinality(D) <= MaxSlots /\ t \in [D -> Rate!Slots]
  BY DEF Tables
<1>2. MaxSlots \in Nat /\ MaxAttempts \in Nat \ {0} /\ Cardinality(D) \in Nat
  BY <1>1, EngineAssumption, FS_CardinalityType
<1>3. CASE ~Rate!HasSlot(t, o)
  BY <1>3 DEF Rate!AfterAllow
<1>4. CASE Rate!HasSlot(t, o)
  <2> DEFINE slot == Rate!CurrentSlot(t, o, now)
             used == IF slot.count < MaxAttempts THEN [slot EXCEPT !.count = @ + 1] ELSE slot
             after == [c \in DOMAIN t \cup {o} |-> IF c = o THEN used ELSE t[c]]
  <2>1. slot \in Rate!Slots
    BY <1>1, <1>2 DEF Rate!CurrentSlot, Rate!Slots
  <2>2. used \in Rate!Slots
    BY <1>2, <2>1 DEF Rate!Slots
  <2>3. Rate!AfterAllow(t, o, now) = after
    BY <1>4 DEF Rate!AfterAllow
  <2>4. DOMAIN t = D /\ DOMAIN t \cup {o} \in SUBSET Origins
    BY <1>1
  <2>5. o \in D \/ Cardinality(D) < MaxSlots
    BY <1>4, <2>4, SameCount DEF Rate!HasSlot
  <2>6. IsFiniteSet(D \cup {o}) /\ Cardinality(D \cup {o}) <= MaxSlots
    <3>1. IsFiniteSet(D \cup {o}) /\ Cardinality(D \cup {o})
             = IF o \in D THEN Cardinality(D) ELSE Cardinality(D) + 1
      BY <1>1, FS_AddElement
    <3>2. QED
      BY <1>1, <1>2, <2>5, <3>1
  <2>7. after \in [D \cup {o} -> Rate!Slots]
    BY <1>1, <2>2, <2>4
  <2>8. QED
    BY <2>3, <2>4, <2>6, <2>7 DEF Tables
<1>5. QED
  BY <1>3, <1>4

LEMMA ClockAdvances ==
  ASSUME NEW t \in Rate!Ticks
  PROVE  (t + 1) % TickModulus \in Rate!Ticks
<1>1. TickModulus \in Nat \ {0} /\ t \in Nat
  BY EngineAssumption DEF Rate!Ticks
<1>2. QED
  BY <1>1 DEF Rate!Ticks

LEMMA NothingTyped ==
  /\ NoCredential \in Credentials /\ Silent \in Results /\ NoPending \in Pendings
  /\ Silent.typed = NoCredential /\ Silent.change = "none"
  /\ Silent.allowed = FALSE /\ Silent.performed = FALSE
  /\ NoPending.kind = "NONE"
<1>1. NoCredential \in Credentials
  BY EngineAssumption DEF NoCredential, Credentials
<1>2. QED
  BY <1>1, EngineAssumption DEF Silent, Results, NoPending, Pendings, Kinds

-----------------------------------------------------------------------------
(***************************************************************************)
(* The device context.                                                     *)
(***************************************************************************)

LEMMA OpenContext ==
  ASSUME NEW c \in ContextType, NEW kind, ContextOK(c, kind), c.unlocked
  PROVE  /\ c \in GoodContexts /\ c.failed_pin_attempts = 0
         /\ c.wiped = FALSE /\ c.state \notin {"LOCKED", "LOCKED_OUT"}
BY DEF ContextOK, ConsistentContext, GoodContexts, ContextType

\* A context in a session, moved to a state a session may be in.
LEMMA MovedInSession ==
  ASSUME NEW c \in ContextType, c.unlocked, ConsistentContext(c),
         NEW st \in DeviceStates \ {"LOCKED", "LOCKED_OUT"}
  PROVE  /\ [c EXCEPT !.state = st] \in ContextType
         /\ ConsistentContext([c EXCEPT !.state = st])
BY DEF ContextType, ConsistentContext

\* Wherever a context is moved with nothing pending, it stays as good as it was.
LEMMA MovedAtRest ==
  ASSUME NEW c \in ContextType, NEW kind, ContextOK(c, kind)
  PROVE  /\ [c EXCEPT !.state = "UNLOCKED"] \in ContextType
         /\ ContextOK([c EXCEPT !.state = "UNLOCKED"], "NONE")
BY DEF ContextType, DeviceStates, ConsistentContext, ContextOK

LEMMA GesturesKeep ==
  ASSUME NEW c \in ContextType, NEW kind, ContextOK(c, kind),
         NEW d, d = AfterTouchTap(c) \/ d = AfterTouchHold(c)
  PROVE  /\ d \in ContextType /\ ContextOK(d, kind)
         /\ d.unlocked = c.unlocked /\ d.wiped = c.wiped
         /\ d.failed_pin_attempts = c.failed_pin_attempts
<1> DEFINE open == DeviceStates \ {"LOCKED", "LOCKED_OUT"}
<1>1. PICK transition :
         /\ d = AfterGesture(c, transition)
         /\ DOMAIN transition \subseteq DeviceStates
         /\ \A st \in DOMAIN transition : transition[st] \in open
  <2>1. /\ DOMAIN TapTransition \subseteq DeviceStates
        /\ \A st \in DOMAIN TapTransition : TapTransition[st] \in open
    BY DEF TapTransition, DeviceStates
  <2>2. /\ DOMAIN HoldTransition \subseteq DeviceStates
        /\ \A st \in DOMAIN HoldTransition : HoldTransition[st] \in open
    BY DEF HoldTransition, DeviceStates
  <2> HIDE DEF open
  <2>3. QED
    BY <2>1, <2>2 DEF AfterTouchTap, AfterTouchHold
<1>2. CASE ConsistentContext(c)
  <2>1. c \in GoodContexts
    BY <1>2 DEF GoodContexts
  <2>2. /\ d \in GoodContexts /\ d.unlocked = c.unlocked /\ d.wiped = c.wiped
        /\ d.failed_pin_attempts = c.failed_pin_attempts
    BY <1>1, <2>1, GestureGood
  <2>3. QED
    BY <2>2 DEF GoodContexts, ContextOK
<1>3. CASE ~ConsistentContext(c)
  <2>1. c.unlocked = FALSE /\ kind = "NONE"
    BY <1>3 DEF ContextOK, ContextType
  <2>2. d = [c EXCEPT !.inactivity_seconds = 0, !.state = @]
    BY <1>1, <2>1 DEF AfterGesture
  <2>3. QED
    BY <2>1, <2>2 DEF ContextType, ContextOK
<1>4. QED
  BY <1>2, <1>3

\* A failed PIN closes the session and never misses the wipe, in whatever state
\* an earlier hold has left the device.
LEMMA WrongPinKeeps ==
  ASSUME NEW c \in ContextType, NEW kind, ContextOK(c, kind), NEW s \in Settings,
         c.wiped = FALSE,
         ~(c.state = "LOCKED_OUT" /\ c.lockout_ticks_remaining > 0)
  PROVE  /\ AfterWrongPin(c, s) \in ContextType /\ ContextOK(AfterWrongPin(c, s), kind)
         /\ s.wipe_on_lockout /\ ~AfterWrongPin(c, s).wiped =>
              AfterWrongPin(c, s).failed_pin_attempts < WipeThreshold
<1> DEFINE d == AfterWrongPin(c, s)
           failed == c.failed_pin_attempts + 1
<1>1. failed \in Nat /\ c.failed_pin_attempts \in Nat
  BY DEF ContextType
<1>2. s.pin_attempt_limit \in Nat /\ WipeThreshold \in Nat /\ s.wipe_on_lockout \in BOOLEAN
  BY SettingsFacts, LimitsAssumption
<1>3. failed >= s.pin_attempt_limit => LockoutDelay(failed, s) \in Nat
  BY <1>1, LockoutDelayPositive
<1>4. /\ d \in ContextType /\ d.unlocked = FALSE
      /\ d.failed_pin_attempts = failed
      /\ ~(s.wipe_on_lockout /\ failed >= WipeThreshold) => d.wiped = FALSE
      /\ s.wipe_on_lockout /\ failed >= WipeThreshold => d.wiped = TRUE
  BY <1>1, <1>2, <1>3 DEF AfterWrongPin, ResetUnlockSession, ContextType, DeviceStates
<1>5. s.wipe_on_lockout /\ ~d.wiped => d.failed_pin_attempts < WipeThreshold
  BY <1>1, <1>2, <1>4
<1>6. kind # "NONE" => ConsistentContext(d)
  <2>1. SUFFICES ASSUME kind # "NONE" PROVE ConsistentContext(d)
    OBVIOUS
  <2>2. c \in GoodContexts /\ c.lockout_ticks_remaining = 0
    BY <2>1 DEF ContextOK, GoodContexts, ConsistentContext, ContextType
  <2>3. d \in GoodContexts
    BY <1>1, <2>2, WrongPinGood
  <2>4. QED
    BY <2>3 DEF GoodContexts
<1>7. QED
  BY <1>4, <1>5, <1>6 DEF ContextOK

LEMMA CorrectPinKeeps ==
  ASSUME NEW c \in ContextType, NEW kind, c.wiped = FALSE
  PROVE  /\ AfterCorrectPin(c) \in ContextType /\ ContextOK(AfterCorrectPin(c), kind)
         /\ AfterCorrectPin(c).failed_pin_attempts = 0
<1> DEFINE d == AfterCorrectPin(c)
<1>1. /\ d \in ContextType /\ d.state = "UNLOCKED" /\ d.unlocked = TRUE /\ d.wiped = FALSE
      /\ d.failed_pin_attempts = 0 /\ d.lockout_ticks_remaining = 0
  BY DEF AfterCorrectPin, ContextType, DeviceStates
<1>2. QED
  BY <1>1 DEF ContextOK, ConsistentContext

LEMMA TickKeeps ==
  ASSUME NEW c \in ContextType, NEW kind, ContextOK(c, kind), NEW s \in Settings
  PROVE  /\ AfterTick(c, s) \in ContextType /\ ContextOK(AfterTick(c, s), kind)
         /\ AfterTick(c, s).wiped = c.wiped
         /\ AfterTick(c, s).failed_pin_attempts = c.failed_pin_attempts
<1>1. CASE c.state = "LOCKED_OUT"
  <2>1. AfterTick(c, s) = LockoutTick(c) /\ c.unlocked = FALSE
    BY <1>1 DEF AfterTick, ContextOK, ConsistentContext, ContextType
  <2>2. /\ LockoutTick(c) \in ContextType /\ LockoutTick(c).wiped = c.wiped
        /\ LockoutTick(c).unlocked = FALSE
        /\ LockoutTick(c).failed_pin_attempts = c.failed_pin_attempts
    <3> DEFINE left == IF c.lockout_ticks_remaining > 0
                       THEN c.lockout_ticks_remaining - 1 ELSE 0
               st == IF left = 0 /\ ~c.wiped THEN "LOCKED" ELSE c.state
    <3>1. left \in Nat /\ st \in DeviceStates
      BY DEF ContextType, DeviceStates
    <3>2. LockoutTick(c) = [c EXCEPT !.lockout_ticks_remaining = left, !.state = st]
      BY DEF LockoutTick, ContextType
    <3> HIDE DEF left, st
    <3>3. QED
      BY <2>1, <3>1, <3>2 DEF ContextType
  <2>3. kind # "NONE" => LockoutTick(c) \in GoodContexts
    BY <1>1, LockoutTickGood DEF GoodContexts, ContextOK
  <2>4. QED
    BY <2>1, <2>2, <2>3 DEF ContextOK, GoodContexts
<1>2. CASE c.state # "LOCKED_OUT" /\ c.unlocked
  <2>1. AfterTick(c, s) = SessionTick(c, s) /\ c \in GoodContexts
    BY <1>2, OpenContext DEF AfterTick
  <2>2. QED
    BY <1>2, <2>1, SessionTickGood, OpenContext DEF ContextOK, GoodContexts
<1>3. CASE c.state # "LOCKED_OUT" /\ ~c.unlocked
  BY <1>3 DEF AfterTick
<1>4. QED
  BY <1>1, <1>2, <1>3

-----------------------------------------------------------------------------
(***************************************************************************)
(* Commands.                                                               *)
(***************************************************************************)

SameCounters(c, d) ==
    /\ d.unlocked = c.unlocked /\ d.wiped = c.wiped
    /\ d.failed_pin_attempts = c.failed_pin_attempts

\* What a command makes of a good world.
Handled(w, h, type) ==
    /\ h \in GoodWorlds
    /\ h.vault = w.vault /\ SameCounters(w.ctx, h.ctx)
    /\ h.out.typed = NoCredential /\ h.out.change = "none"
    /\ h.armed => w.armed
    /\ h.out.allowed /\ type # "SELECT" => h.armed = FALSE

Request(kind, entry, cmd, override) ==
    [kind |-> kind, credential |-> entry, origin |-> cmd.origin,
     override_with_hold |-> override, pending_index |-> 0]

LEMMA QueueGood ==
  ASSUME NEW w \in GoodWorlds, w.out = Silent, ConsistentContext(w.ctx),
         NEW kind \in Kinds, NEW entry \in Credentials, NEW cmd \in CommandType,
         NEW override \in BOOLEAN, NEW type,
         PendingOK(w.vault, Request(kind, entry, cmd, override))
  PROVE  /\ Handled(w, Queue(w, kind, entry, cmd, override), type)
         /\ Queue(w, kind, entry, cmd, override).nonce = w.nonce
<1> DEFINE p == Request(kind, entry, cmd, override)
           result == [Silent EXCEPT !.allowed = TRUE]
           h == [w EXCEPT !.pending = p, !.armed = FALSE, !.out = result]
<1>1. w \in Worlds /\ ContextOK(w.ctx, w.pending.kind)
  BY DEF GoodWorlds
<1>2. p \in Pendings /\ p.kind = kind
  BY DEF Request, Pendings, CommandType
<1>3. result \in Results /\ result.typed = NoCredential /\ result.change = "none"
  BY NothingTyped DEF Results
<1>4. Queue(w, kind, entry, cmd, override) = h
  BY DEF Queue, Request, Worlds
<1> HIDE DEF p, result
<1>5. /\ h \in Worlds /\ h.ctx = w.ctx /\ h.vault = w.vault /\ h.pending = p
      /\ h.armed = FALSE /\ h.out = result /\ h.nonce = w.nonce
  BY <1>1, <1>2, <1>3 DEF Worlds
<1> HIDE DEF h
<1>6. ContextOK(h.ctx, h.pending.kind) /\ PendingOK(h.vault, h.pending)
  BY <1>1, <1>5 DEF ContextOK, p
<1>7. QED
  BY <1>3, <1>4, <1>5, <1>6 DEF Handled, GoodWorlds, SameCounters

LEMMA TickedGood ==
  ASSUME NEW w \in GoodWorlds
  PROVE  /\ Ticked(w) \in GoodWorlds
         /\ Ticked(w) = [w EXCEPT !.clock = (w.clock + 1) % TickModulus]
<1>1. (w.clock + 1) % TickModulus \in Rate!Ticks
  BY ClockAdvances DEF GoodWorlds, Worlds
<1>2. QED
  BY <1>1 DEF Ticked, GoodWorlds, Worlds

\* The state machine accepts a request only in a session, and leaves a prompt.
LEMMA FillGood ==
  ASSUME NEW w \in GoodWorlds, w.out = Silent, w.ctx.unlocked, settings \in Settings,
         NEW cmd \in CommandType, NEW ok \in BOOLEAN, NEW type
  PROVE  /\ Handled(w, HandleFill(w, cmd, ok), type) /\ HandleFill(w, cmd, ok).nonce = w.nonce
<1> DEFINE entry == Store!FindByOrigin(w.vault, cmd.origin)
           c == AfterRequestFill(w.ctx, settings, Loaded(entry))
           x == [w EXCEPT !.ctx = c]
<1>1. w \in Worlds /\ w.ctx \in GoodContexts /\ w.ctx.failed_pin_attempts = 0
  BY OpenContext DEF GoodWorlds, Worlds
<1>2. CASE /\ Store!HasOrigin(w.vault, cmd.origin)
           /\ ok
           /\ FillAllowed(w.ctx, Loaded(entry), cmd.origin)
  <2>1. /\ entry \in Store!Entries /\ entry.origin = cmd.origin
        /\ entry \in Credentials
    BY <1>1, <1>2, Found, EntriesAreCredentials DEF Worlds
  <2>2. /\ c \in GoodContexts /\ SameCounters(w.ctx, c)
    <3>1. PICK st \in {"PROMPT_FILL", "CONFIRM_TYPE"} :
             c = [w.ctx EXCEPT !.inactivity_seconds = 0, !.state = st]
      BY <1>1 DEF AfterRequestFill, GoodContexts, ContextType
    <3>2. st \in DeviceStates \ {"LOCKED", "LOCKED_OUT"}
      BY DEF DeviceStates
    <3>3. MayRequest(w.ctx)
      BY <1>2 DEF FillAllowed
    <3> HIDE DEF c
    <3>4. /\ c \in GoodContexts /\ c.unlocked = w.ctx.unlocked /\ c.wiped = w.ctx.wiped
          /\ c.failed_pin_attempts = w.ctx.failed_pin_attempts
      BY <1>1, <3>1, <3>2, <3>3, RequestGood
    <3>5. QED
      BY <3>4 DEF SameCounters
  <2> HIDE DEF c
  <2>3. /\ x \in Worlds /\ x.ctx = c /\ x.vault = w.vault /\ x.pending = w.pending
        /\ x.armed = w.armed /\ x.out = w.out /\ x.nonce = w.nonce
    BY <1>1, <2>2 DEF Worlds, GoodContexts
  <2>4. x \in GoodWorlds /\ ConsistentContext(x.ctx)
    BY <1>1, <2>2, <2>3 DEF GoodWorlds, GoodContexts, ContextOK, SameCounters
  <2>5. PendingOK(x.vault, Request("FILL", entry, cmd, FALSE))
    BY <1>2, <2>3 DEF PendingOK, Request
  <2>6. HandleFill(w, cmd, ok) = Queue(x, "FILL", entry, cmd, FALSE)
    BY <1>1, <1>2 DEF HandleFill, Worlds, c
  <2> HIDE DEF x, entry
  <2>7. /\ Handled(x, Queue(x, "FILL", entry, cmd, FALSE), type)
        /\ Queue(x, "FILL", entry, cmd, FALSE).nonce = x.nonce
    BY <2>1, <2>3, <2>4, <2>5, QueueGood DEF Kinds
  <2>8. QED
    BY <2>2, <2>3, <2>6, <2>7 DEF Handled, SameCounters
<1>3. CASE ~ /\ Store!HasOrigin(w.vault, cmd.origin)
             /\ ok
             /\ FillAllowed(w.ctx, Loaded(entry), cmd.origin)
  <2>1. HandleFill(w, cmd, ok) = w
    BY <1>3 DEF HandleFill
  <2>2. QED
    BY <2>1, NothingTyped DEF Handled, SameCounters
<1>4. QED
  BY <1>2, <1>3

\* The entry built for a save or a generated password has the next id.
LEMMA StashedGood ==
  ASSUME NEW w \in GoodWorlds, NEW cmd \in CommandType, NEW password \in Passwords
  PROVE  /\ Stashed(w, cmd, password) \in Store!Entries
         /\ Stashed(w, cmd, password).origin = cmd.origin
         /\ Stashed(w, cmd, password).id = Store!NextId(w.vault)
<1>1. Store!NextId(w.vault) \in Store!Ids
  BY FreshId DEF GoodWorlds, Worlds
<1>2. cmd.origin \in Origins /\ Truncate[cmd.username] \in Usernames
  BY EngineAssumption DEF CommandType
<1>3. QED
  BY <1>1, <1>2 DEF Stashed, Store!Entries

LEMMA StashGood ==
  ASSUME NEW w \in GoodWorlds, w.out = Silent, w.ctx.unlocked, Store!NextId(w.vault) # 0,
         NEW kind \in {"SAVE", "GENERATE"}, NEW password \in Passwords,
         NEW cmd \in CommandType, NEW override \in BOOLEAN, NEW type
  PROVE  /\ Handled(w, Queue(Ticked(w), kind, Stashed(w, cmd, password), cmd, override), type)
         /\ Queue(Ticked(w), kind, Stashed(w, cmd, password), cmd, override).nonce = w.nonce
<1> DEFINE x == Ticked(w)
           entry == Stashed(w, cmd, password)
<1>1. /\ x \in GoodWorlds /\ x.ctx = w.ctx /\ x.vault = w.vault
      /\ x.armed = w.armed /\ x.out = w.out /\ x.nonce = w.nonce
  BY TickedGood DEF GoodWorlds, Worlds
<1>2. ConsistentContext(x.ctx)
  BY <1>1 DEF GoodWorlds, ContextOK
<1>3. /\ entry \in Store!Entries /\ entry \in Credentials
      /\ entry.origin = cmd.origin /\ entry.id = Store!NextId(w.vault)
  BY StashedGood, EntriesAreCredentials
<1> HIDE DEF x, entry
<1>4. PendingOK(x.vault, Request(kind, entry, cmd, override))
  BY <1>1, <1>3 DEF PendingOK, Request
<1>5. /\ Handled(x, Queue(x, kind, entry, cmd, override), type)
      /\ Queue(x, kind, entry, cmd, override).nonce = x.nonce
  BY <1>1, <1>2, <1>3, <1>4, QueueGood DEF Kinds
<1>6. QED
  BY <1>1, <1>5 DEF Handled, x, entry

LEMMA TickedHandled ==
  ASSUME NEW w \in GoodWorlds, w.out = Silent, NEW type
  PROVE  Handled(w, Ticked(w), type) /\ Ticked(w).nonce = w.nonce
<1>1. /\ Ticked(w) \in GoodWorlds /\ Ticked(w).ctx = w.ctx /\ Ticked(w).vault = w.vault
      /\ Ticked(w).armed = w.armed /\ Ticked(w).out = w.out /\ Ticked(w).nonce = w.nonce
  BY TickedGood DEF GoodWorlds, Worlds
<1>2. QED
  BY <1>1, NothingTyped DEF Handled, SameCounters

LEMMA SaveGood ==
  ASSUME NEW w \in GoodWorlds, w.out = Silent, w.ctx.unlocked, Store!NextId(w.vault) # 0,
         NEW cmd \in CommandType, NEW ok \in BOOLEAN, NEW type
  PROVE  /\ Handled(w, HandleSave(w, cmd, ok), type) /\ HandleSave(w, cmd, ok).nonce = w.nonce
         /\ Handled(w, HandleGenerate(w, cmd, ok), type)
         /\ HandleGenerate(w, cmd, ok).nonce = w.nonce
<1>1. cmd.password \in Passwords /\ cmd.origin \in Origins
  BY DEF CommandType
<1>2. Generated[cmd.origin] \in Passwords
  BY <1>1, EngineAssumption
<1>3. Handled(w, HandleSave(w, cmd, ok), type) /\ HandleSave(w, cmd, ok).nonce = w.nonce
  <2> DEFINE q == Queue(Ticked(w), "SAVE", Stashed(w, cmd, cmd.password), cmd,
                        cmd.password \in CommonPasswords)
  <2>1. Handled(w, q, type) /\ q.nonce = w.nonce
    <3>1. (cmd.password \in CommonPasswords) \in BOOLEAN
      OBVIOUS
    <3>2. QED
      BY <1>1, <3>1, StashGood
  <2>2. HandleSave(w, cmd, ok) = q \/ HandleSave(w, cmd, ok) = Ticked(w)
    BY DEF HandleSave
  <2> HIDE DEF q
  <2>3. QED
    BY <2>1, <2>2, TickedHandled
<1>4. Handled(w, HandleGenerate(w, cmd, ok), type) /\ HandleGenerate(w, cmd, ok).nonce = w.nonce
  <2> DEFINE q == Queue(Ticked(w), "GENERATE", Stashed(w, cmd, Generated[cmd.origin]), cmd, FALSE)
  <2>1. Handled(w, q, type) /\ q.nonce = w.nonce
    BY <1>2, StashGood
  <2>2. HandleGenerate(w, cmd, ok) = q \/ HandleGenerate(w, cmd, ok) = Ticked(w)
    BY DEF HandleGenerate
  <2> HIDE DEF q
  <2>3. QED
    BY <2>1, <2>2, TickedHandled
<1>5. QED
  BY <1>3, <1>4

\* A selection keeps what else is pending; its index is one of the array.
LEMMA SelectGood ==
  ASSUME NEW w \in GoodWorlds, w.out = Silent, w.ctx.unlocked
  PROVE  Handled(w, HandleSelect(w), "SELECT") /\ HandleSelect(w).nonce = w.nonce
<1>1. w \in Worlds /\ w.ctx \in GoodContexts
  BY OpenContext DEF GoodWorlds, Worlds
<1>2. CASE Len(w.vault) = 0
  BY <1>2, NothingTyped DEF HandleSelect, Handled, SameCounters
<1>3. CASE Len(w.vault) # 0
  <2> DEFINE index == (w.ctx.selected_credential_idx + 1) % Len(w.vault)
             p == [w.pending EXCEPT !.kind = "SELECT", !.pending_index = index]
             c == [w.ctx EXCEPT !.state = "SELECT_CREDENTIAL"]
             result == [Silent EXCEPT !.allowed = TRUE]
             h == [w EXCEPT !.pending = p, !.ctx = c, !.out = result]
  <2>1. Len(w.vault) \in Nat \ {0} /\ w.ctx.selected_credential_idx \in Nat
    BY <1>1, <1>3, LenProperties DEF Worlds, Arrays, ContextType
  <2>2. index \in Nat /\ index < Len(w.vault)
    BY <2>1
  <2> HIDE DEF index
  <2>3. /\ p \in Pendings /\ p.kind = "SELECT" /\ p.pending_index = index
    BY <1>1, <2>2 DEF Worlds, Pendings, Kinds
  <2>4. /\ c \in ContextType /\ ConsistentContext(c) /\ SameCounters(w.ctx, c)
    <3>1. w.ctx \in ContextType /\ ConsistentContext(w.ctx)
      BY <1>1 DEF GoodContexts
    <3>2. "SELECT_CREDENTIAL" \in DeviceStates \ {"LOCKED", "LOCKED_OUT"}
      BY DEF DeviceStates
    <3>3. c \in ContextType /\ ConsistentContext(c)
      BY <3>1, <3>2, MovedInSession
    <3>4. QED
      BY <3>1, <3>3 DEF SameCounters, ContextType
  <2>5. result \in Results /\ result.typed = NoCredential /\ result.change = "none"
    BY NothingTyped DEF Results
  <2>6. HandleSelect(w) = h
    BY <1>1, <1>3 DEF HandleSelect, Worlds, index
  <2> HIDE DEF p, c, result
  <2>7. /\ h \in Worlds /\ h.ctx = c /\ h.vault = w.vault /\ h.pending = p
        /\ h.armed = w.armed /\ h.out = result /\ h.nonce = w.nonce
    BY <1>1, <2>3, <2>4, <2>5 DEF Worlds
  <2> HIDE DEF h
  <2>8. PendingOK(h.vault, h.pending)
    BY <2>2, <2>3, <2>7 DEF PendingOK, Store!HasIndex
  <2>9. ContextOK(h.ctx, h.pending.kind)
    BY <2>4, <2>7 DEF GoodWorlds, ContextOK, SameCounters
  <2>10. QED
    BY <2>4, <2>5, <2>6, <2>7, <2>8, <2>9 DEF Handled, GoodWorlds, SameCounters
<1>4. QED
  BY <1>2, <1>3

LEMMA HandleGood ==
  ASSUME NEW w \in GoodWorlds, w.out = Silent, settings \in Settings,
         Store!NextId(w.vault) # 0, NEW cmd \in CommandType, NEW ok \in BOOLEAN
  PROVE  /\ Handled(w, Handle(w, cmd, ok), cmd.type)
         /\ Handle(w, cmd, ok).nonce >= w.nonce
         /\ Handle(w, cmd, ok).out.allowed =>
              /\ w.ctx.unlocked
              /\ cmd.nonce # 0 => cmd.nonce > w.nonce
         /\ Handle(w, cmd, ok).nonce >= cmd.nonce
<1> DEFINE h == Handle(w, cmd, ok)
           nonce == IF cmd.nonce # 0 THEN cmd.nonce ELSE w.nonce
           fresh == [w EXCEPT !.nonce = nonce]
           table == Rate!AfterAllow(w.limiter, cmd.origin, w.clock)
           counted == Ticked([fresh EXCEPT !.limiter = table])
<1>1. /\ w \in Worlds /\ w.nonce \in Nat /\ cmd.nonce \in Nat
      /\ w.limiter \in Tables /\ w.clock \in Rate!Ticks /\ cmd.origin \in Origins
  BY DEF GoodWorlds, Worlds, CommandType
<1>2. Handled(w, w, cmd.type) /\ w.nonce >= w.nonce /\ ~w.out.allowed
  BY <1>1, NothingTyped DEF Handled, SameCounters
<1>3. CASE Replayed(w, cmd)
  <2>1. h = w
    BY <1>3 DEF Handle
  <2>2. w.nonce >= cmd.nonce
    BY <1>1, <1>3 DEF Replayed
  <2>3. QED
    BY <1>2, <2>1, <2>2
<1>4. CASE ~Replayed(w, cmd)
  <2>1. /\ nonce \in Nat /\ nonce >= w.nonce /\ nonce >= cmd.nonce
        /\ cmd.nonce # 0 => cmd.nonce > w.nonce
    BY <1>1, <1>4 DEF Replayed
  <2> HIDE DEF nonce
  <2>2. /\ fresh \in GoodWorlds /\ fresh.ctx = w.ctx /\ fresh.vault = w.vault
        /\ fresh.armed = w.armed /\ fresh.out = w.out /\ fresh.nonce = nonce
        /\ fresh.limiter = w.limiter /\ fresh.clock = w.clock
    BY <1>1, <2>1 DEF GoodWorlds, Worlds
  <2> HIDE DEF fresh
  <2>3. table \in Tables
    BY <1>1, AllowKeepsTable
  <2> HIDE DEF table
  <2>4. /\ [fresh EXCEPT !.limiter = table] \in GoodWorlds
        /\ [fresh EXCEPT !.limiter = table].ctx = w.ctx
        /\ [fresh EXCEPT !.limiter = table].vault = w.vault
        /\ [fresh EXCEPT !.limiter = table].armed = w.armed
        /\ [fresh EXCEPT !.limiter = table].out = w.out
        /\ [fresh EXCEPT !.limiter = table].nonce = nonce
    BY <2>2, <2>3 DEF GoodWorlds, Worlds
  <2>5. /\ counted \in GoodWorlds /\ counted.ctx = w.ctx /\ counted.vault = w.vault
        /\ counted.armed = w.armed /\ counted.out = Silent /\ counted.nonce = nonce
    <3> DEFINE x == [fresh EXCEPT !.limiter = table]
    <3> HIDE DEF x
    <3>1. /\ x \in GoodWorlds /\ x.ctx = w.ctx /\ x.vault = w.vault
          /\ x.armed = w.armed /\ x.out = w.out /\ x.nonce = nonce
      BY <2>4 DEF x
    <3>2. /\ Ticked(x) \in GoodWorlds /\ Ticked(x).ctx = w.ctx /\ Ticked(x).vault = w.vault
          /\ Ticked(x).armed = w.armed /\ Ticked(x).out = Silent /\ Ticked(x).nonce = nonce
      BY <3>1, TickedGood DEF GoodWorlds, Worlds
    <3>3. QED
      BY <3>2 DEF x
  <2> HIDE DEF counted
  <2>6. \/ h = fresh \/ h = counted
        \/ h = Dispatch(counted, cmd, ok) /\ w.ctx.unlocked /\ Valid(cmd)
    BY <1>4 DEF Handle, Consumed, fresh, counted, table, nonce
  <2> HIDE DEF h
  <2>7. CASE h = fresh \/ h = counted
    <3>1. /\ h \in GoodWorlds /\ h.ctx = w.ctx /\ h.vault = w.vault
          /\ h.armed = w.armed /\ h.out = Silent /\ h.nonce = nonce
      BY <2>2, <2>5, <2>7
    <3>2. Handled(w, h, cmd.type) /\ ~h.out.allowed
      BY <3>1, NothingTyped DEF Handled, SameCounters
    <3>3. QED
      BY <2>1, <3>1, <3>2 DEF h
  <2>8. CASE h = Dispatch(counted, cmd, ok) /\ w.ctx.unlocked /\ Valid(cmd)
    <3>1. cmd.type \in {"FILL", "SAVE", "GENERATE", "SELECT"}
      BY <2>8 DEF Valid, CommandType, Kinds
    <3>2. counted.ctx.unlocked /\ Store!NextId(counted.vault) # 0
      BY <2>5, <2>8
    <3>3. Handled(counted, h, cmd.type) /\ h.nonce = counted.nonce
      <4>1. CASE cmd.type = "FILL"
        <5>1. h = HandleFill(counted, cmd, ok)
          BY <2>8, <4>1 DEF Dispatch
        <5>2. QED
          BY <2>5, <3>2, <5>1, FillGood
      <4>2. CASE cmd.type = "SAVE"
        <5>1. h = HandleSave(counted, cmd, ok)
          BY <2>8, <4>2 DEF Dispatch
        <5>2. QED
          BY <2>5, <3>2, <5>1, SaveGood
      <4>3. CASE cmd.type = "GENERATE"
        <5>1. h = HandleGenerate(counted, cmd, ok)
          BY <2>8, <4>3 DEF Dispatch
        <5>2. QED
          BY <2>5, <3>2, <5>1, SaveGood
      <4>4. CASE cmd.type = "SELECT"
        <5>1. h = HandleSelect(counted)
          BY <2>8, <4>4 DEF Dispatch
        <5>2. QED
          BY <2>5, <3>2, <4>4, <5>1, SelectGood
      <4>5. QED
        BY <3>1, <4>1, <4>2, <4>3, <4>4
    <3>4. Handled(w, h, cmd.type) /\ h.nonce = nonce
      BY <2>5, <3>3 DEF Handled
    <3>5. QED
      BY <2>1, <2>8, <3>4 DEF h
  <2>9. QED
    BY <2>6, <2>7, <2>8
<1>5. QED
  BY <1>3, <1>4

-----------------------------------------------------------------------------
(***************************************************************************)
(* Confirmation.                                                           *)
(***************************************************************************)

\* The array changes by a save of the store, with its next id.
Saved(v, u) ==
    \/ u = v
    \/ \E e \in Store!Entries : e.id = Store!NextId(v) /\ u = Store!Upsert(v, e)

\* A change of the array is such a save, and the one the result reports.
Reported(v, u, change) ==
    /\ Saved(v, u)
    /\ CASE change = "created" -> Len(u) = Len(v) + 1 /\ SubSeq(u, 1, Len(v)) = v
         [] change = "updated" ->
              \E i \in DOMAIN v : Store!SameAccount(v[i], u[i]) /\ u = [v EXCEPT ![i] = u[i]]
         [] OTHER -> u = v

\* What a gesture makes of a good world.
Confirmed(w, h) ==
    /\ h \in GoodWorlds
    /\ SameCounters(w.ctx, h.ctx) /\ h.nonce = w.nonce
    /\ h.armed => w.armed
    /\ Reported(w.vault, h.vault, h.out.change)

LEMMA UpsertReported ==
  ASSUME NEW v \in Arrays, NEW e \in Store!Entries, Store!Storable(v, e),
         e.id = Store!NextId(v)
  PROVE  Reported(v, Store!Upsert(v, e), IF Store!Exists(v, e) THEN "updated" ELSE "created")
<1>1. v \in Seq(Store!Entries) /\ DOMAIN v = 1..Len(v) /\ Len(v) \in Nat
  BY LenProperties DEF Arrays
<1>2. Saved(v, Store!Upsert(v, e))
  BY DEF Saved
<1>3. CASE Store!Exists(v, e)
  <2> DEFINE i == Store!Min(Store!OfAccount(v, e))
             u == [v EXCEPT ![i] = e]
  <2>1. Store!OfAccount(v, e) \subseteq DOMAIN v /\ Store!OfAccount(v, e) # {}
    BY <1>3 DEF Store!Exists, Store!OfAccount
  <2>2. StoreProofs!Min(Store!OfAccount(v, e)) \in Store!OfAccount(v, e)
    <3>1. DOMAIN v \subseteq Nat
      BY <1>1
    <3>2. QED
      BY <2>1, <3>1, StoreConstants, StoreProofs!MinInSet
  <2>3. i \in DOMAIN v /\ Store!SameAccount(v[i], e)
    BY <2>2 DEF Store!Min, StoreProofs!Min, Store!OfAccount
  <2>4. Store!Upsert(v, e) = u
    BY <1>3 DEF Store!Upsert
  <2> HIDE DEF i
  <2>5. u[i] = e /\ u = [v EXCEPT ![i] = u[i]]
    BY <2>3
  <2> HIDE DEF u
  <2>6. Reported(v, u, "updated")
    BY <1>2, <2>3, <2>4, <2>5 DEF Reported
  <2>7. QED
    BY <1>3, <2>4, <2>6
<1>4. CASE ~Store!Exists(v, e)
  <2>1. Store!Upsert(v, e) = Append(v, e)
    BY <1>4 DEF Store!Upsert, Store!Storable
  <2>2. /\ Append(v, e) \in Seq(Store!Entries) /\ Len(Append(v, e)) = Len(v) + 1
        /\ \A j \in 1..Len(v) : Append(v, e)[j] = v[j]
    BY <1>1, AppendProperties
  <2>3. SubSeq(Append(v, e), 1, Len(v)) = v
    <3> DEFINE a == Append(v, e)
               b == SubSeq(a, 1, Len(v))
    <3>1. a \in Seq(Store!Entries) /\ Len(v) <= Len(a)
      BY <1>1, <2>2
    <3>2. /\ b \in Seq(Store!Entries) /\ Len(b) = Len(v)
          /\ \A j \in 1..Len(v) : b[j] = v[j]
      BY <1>1, <2>2
    <3> HIDE DEF b
    <3>3. b = v
      BY <1>1, <3>2, SeqEqual
    <3>4. QED
      BY <3>3 DEF b
  <2>4. Reported(v, Append(v, e), "created")
    BY <1>2, <2>1, <2>2, <2>3 DEF Reported
  <2>5. QED
    BY <1>4, <2>1, <2>4
<1>5. QED
  BY <1>3, <1>4

LEMMA ClearGood ==
  ASSUME NEW w \in Worlds, ContextOK(w.ctx, "NONE")
  PROVE  /\ ClearPending(w) \in GoodWorlds
         /\ ClearPending(w).ctx = w.ctx /\ ClearPending(w).vault = w.vault
         /\ ClearPending(w).armed = w.armed /\ ClearPending(w).out = w.out
         /\ ClearPending(w).nonce = w.nonce
<1>1. ClearPending(w) = [w EXCEPT !.pending = NoPending]
  BY DEF ClearPending
<1>2. PendingOK(w.vault, NoPending)
  BY NothingTyped DEF PendingOK
<1>3. QED
  BY <1>1, <1>2, NothingTyped DEF GoodWorlds, Worlds

LEMMA GoodAtRest ==
  ASSUME NEW w \in GoodWorlds
  PROVE  w \in Worlds /\ ContextOK(w.ctx, "NONE")
BY DEF GoodWorlds, ContextOK

\* The credential is typed, and nothing stays pending.
LEMMA TypedGood ==
  ASSUME NEW w \in Worlds, ContextOK(w.ctx, "NONE"), w.out = Silent
  PROVE  /\ Typed(w) \in GoodWorlds
         /\ Typed(w).ctx = w.ctx /\ Typed(w).vault = w.vault /\ Typed(w).armed = w.armed
         /\ Typed(w).out.change = "none" /\ Typed(w).nonce = w.nonce
<1> DEFINE result == [Silent EXCEPT !.allowed = TRUE, !.performed = TRUE,
                                    !.typed = w.pending.credential]
           x == [w EXCEPT !.out = result]
<1>1. result \in Results /\ result.change = "none"
  BY NothingTyped DEF Results, Worlds, Pendings
<1>2. Typed(w) = ClearPending(x)
  BY DEF Typed, Worlds
<1> HIDE DEF result
<1>3. /\ x \in Worlds /\ x.ctx = w.ctx /\ x.vault = w.vault /\ x.armed = w.armed
      /\ x.out = result /\ x.nonce = w.nonce
  BY <1>1 DEF Worlds
<1> HIDE DEF x
<1>4. QED
  BY <1>1, <1>2, <1>3, ClearGood

LEMMA TouchedGood ==
  ASSUME NEW w \in GoodWorlds,
         NEW d, d = AfterTouchTap(w.ctx) \/ d = AfterTouchHold(w.ctx)
  PROVE  LET touched == [w EXCEPT !.ctx = d, !.out = Silent]
         IN  /\ touched \in GoodWorlds /\ touched.out = Silent /\ SameCounters(w.ctx, d)
             /\ touched.ctx = d /\ touched.vault = w.vault /\ touched.pending = w.pending
             /\ touched.armed = w.armed /\ touched.nonce = w.nonce
<1>1. w \in Worlds /\ w.ctx \in ContextType /\ ContextOK(w.ctx, w.pending.kind)
  BY DEF GoodWorlds, Worlds
<1>2. d \in ContextType /\ ContextOK(d, w.pending.kind) /\ SameCounters(w.ctx, d)
  BY <1>1, GesturesKeep DEF SameCounters
<1>3. QED
  BY <1>1, <1>2, NothingTyped DEF GoodWorlds, Worlds

\* Under the manual gate a fill is typed only with the press.
LEMMA HoldFillGood ==
  ASSUME NEW w \in GoodWorlds, w.out = Silent, settings \in Settings, NEW ok \in BOOLEAN
  PROVE  /\ Confirmed(w, HoldFill(w, ok))
         /\ HoldFill(w, ok).out.typed # NoCredential /\ ManualGate(settings) => w.armed
<1> DEFINE gate == ManualGate(settings)
           press == w.armed /\ ~gate
           passed == [w EXCEPT !.armed = press]
           c == [w.ctx EXCEPT !.state = "UNLOCKED"]
           opened == [passed EXCEPT !.ctx = c]
           h == HoldFill(w, ok)
<1>1. w \in Worlds /\ ContextOK(w.ctx, "NONE") /\ w.ctx \in ContextType
  BY GoodAtRest DEF Worlds
<1>2. press \in BOOLEAN /\ (press => w.armed)
  BY <1>1 DEF Worlds
<1>3. /\ h = w /\ gate /\ ~w.armed
      \/ /\ h = Typed(opened) \/ h = ClearPending(passed)
         /\ gate => w.armed
  BY <1>1 DEF HoldFill, Worlds
<1> HIDE DEF gate, press, h
<1>4. /\ passed \in Worlds /\ passed.ctx = w.ctx /\ passed.vault = w.vault
      /\ passed.armed = press /\ passed.out = Silent /\ passed.nonce = w.nonce
  BY <1>1, <1>2 DEF Worlds
<1>5. c \in ContextType /\ ContextOK(c, "NONE") /\ SameCounters(w.ctx, c)
  <2>1. c \in ContextType /\ ContextOK(c, "NONE")
    BY <1>1, MovedAtRest
  <2>2. QED
    BY <1>1, <2>1 DEF SameCounters, ContextType
<1> HIDE DEF passed, c
<1>6. /\ opened \in Worlds /\ opened.ctx = c /\ opened.vault = w.vault
      /\ opened.armed = press /\ opened.out = Silent /\ opened.nonce = w.nonce
  BY <1>4, <1>5 DEF Worlds
<1> HIDE DEF opened
<1>7. CASE h = w /\ gate /\ ~w.armed
  BY <1>7, NothingTyped DEF Confirmed, Reported, Saved, SameCounters, h
<1>8. CASE h = Typed(opened) /\ (gate => w.armed)
  <2>1. /\ h \in GoodWorlds /\ h.ctx = c /\ h.vault = w.vault /\ h.armed = press
        /\ h.out.change = "none" /\ h.nonce = w.nonce
    BY <1>5, <1>6, <1>8, TypedGood
  <2>2. QED
    BY <1>2, <1>5, <1>8, <2>1 DEF Confirmed, Reported, Saved, h, gate
<1>9. CASE h = ClearPending(passed)
  <2>1. /\ h \in GoodWorlds /\ h.ctx = w.ctx /\ h.vault = w.vault /\ h.armed = press
        /\ h.out = Silent /\ h.nonce = w.nonce
    BY <1>1, <1>4, <1>9, ClearGood
  <2>2. QED
    BY <1>2, <2>1, NothingTyped DEF Confirmed, Reported, Saved, SameCounters, h
<1>10. QED
  BY <1>3, <1>7, <1>8, <1>9

LEMMA HoldSaveGood ==
  ASSUME NEW w \in GoodWorlds, w.out = Silent, w.pending.kind \in {"SAVE", "GENERATE"},
         NEW ok \in BOOLEAN
  PROVE  Confirmed(w, HoldSave(w, ok)) /\ HoldSave(w, ok).out.typed = NoCredential
<1> DEFINE entry == w.pending.credential
           change == IF Store!Exists(w.vault, entry) THEN "updated" ELSE "created"
           v == Store!Upsert(w.vault, entry)
           c == [w.ctx EXCEPT !.state = "UNLOCKED"]
           result == [Silent EXCEPT !.allowed = TRUE, !.performed = TRUE, !.change = change]
           x == [w EXCEPT !.vault = v, !.ctx = c, !.out = result]
           h == HoldSave(w, ok)
<1>1. w \in Worlds /\ ContextOK(w.ctx, "NONE") /\ w.ctx \in ContextType /\ w.vault \in Arrays
  BY GoodAtRest DEF Worlds
<1>2. CASE ~ok \/ ~Store!Storable(w.vault, entry)
  <2>1. h = w
    BY <1>2 DEF HoldSave
  <2>2. QED
    BY <2>1, NothingTyped DEF Confirmed, Reported, Saved, SameCounters
<1>3. CASE ok /\ Store!Storable(w.vault, entry)
  <2>1. h = ClearPending(x)
    BY <1>1, <1>3 DEF HoldSave, Worlds
  <2>2. /\ entry \in Store!Entries
        /\ entry.id = Store!NextId(w.vault) /\ Store!NextId(w.vault) # 0
    BY DEF GoodWorlds, PendingOK
  <2>3. v \in Arrays /\ Reported(w.vault, v, change)
    BY <1>1, <1>3, <2>2, UpsertGood, UpsertReported
  <2>4. c \in ContextType /\ ContextOK(c, "NONE") /\ SameCounters(w.ctx, c)
    <3>1. c \in ContextType /\ ContextOK(c, "NONE")
      BY <1>1, MovedAtRest
    <3>2. QED
      BY <1>1, <3>1 DEF SameCounters, ContextType
  <2>5. change \in {"created", "updated"}
    OBVIOUS
  <2> HIDE DEF change, v, c
  <2>6. result \in Results /\ result.change = change /\ result.typed = NoCredential
    BY <2>5, NothingTyped DEF Results
  <2> HIDE DEF result
  <2>7. /\ x \in Worlds /\ x.ctx = c /\ x.vault = v /\ x.armed = w.armed
        /\ x.out = result /\ x.nonce = w.nonce
    BY <1>1, <2>3, <2>4, <2>6 DEF Worlds
  <2> HIDE DEF x, h
  <2>8. /\ h \in GoodWorlds /\ h.ctx = c /\ h.vault = v /\ h.armed = w.armed
        /\ h.out = result /\ h.nonce = w.nonce
    BY <2>1, <2>4, <2>7, ClearGood
  <2>9. QED
    BY <2>3, <2>4, <2>6, <2>8 DEF Confirmed, h
<1>4. QED
  BY <1>2, <1>3

LEMMA HoldSelectGood ==
  ASSUME NEW w \in GoodWorlds, w.out = Silent
  PROVE  Confirmed(w, HoldSelect(w)) /\ HoldSelect(w).out.typed = NoCredential
<1> DEFINE index == w.pending.pending_index
           c == [w.ctx EXCEPT !.selected_credential_idx = index, !.state = "UNLOCKED"]
           result == [Silent EXCEPT !.allowed = TRUE, !.performed = TRUE]
           x == [w EXCEPT !.ctx = c, !.out = result]
           h == HoldSelect(w)
<1>1. w \in Worlds /\ ContextOK(w.ctx, "NONE") /\ w.ctx \in ContextType
  BY GoodAtRest DEF Worlds
<1>2. h = ClearPending(w) \/ h = ClearPending(x)
  BY <1>1 DEF HoldSelect, Worlds
<1>3. index \in Nat
  BY <1>1 DEF Worlds, Pendings
<1>4. c \in ContextType /\ ContextOK(c, "NONE") /\ SameCounters(w.ctx, c)
  <2> DEFINE d == [w.ctx EXCEPT !.state = "UNLOCKED"]
  <2>1. d \in ContextType /\ ContextOK(d, "NONE")
    BY <1>1, MovedAtRest
  <2> HIDE DEF index
  <2>2. /\ c \in ContextType /\ SameCounters(w.ctx, c) /\ SameCounters(d, c)
        /\ c.state = d.state /\ c.lockout_ticks_remaining = d.lockout_ticks_remaining
    BY <1>1, <1>3 DEF ContextType, DeviceStates, SameCounters
  <2>3. QED
    BY <2>1, <2>2 DEF ContextOK, ConsistentContext, SameCounters
<1>5. result \in Results /\ result.change = "none" /\ result.typed = NoCredential
  BY NothingTyped DEF Results
<1> HIDE DEF c, result
<1>6. /\ x \in Worlds /\ x.ctx = c /\ x.vault = w.vault /\ x.armed = w.armed
      /\ x.out = result /\ x.nonce = w.nonce
  BY <1>1, <1>4, <1>5 DEF Worlds
<1> HIDE DEF x, h
<1>7. CASE h = ClearPending(w)
  <2>1. /\ h \in GoodWorlds /\ h.ctx = w.ctx /\ h.vault = w.vault /\ h.armed = w.armed
        /\ h.out = Silent /\ h.nonce = w.nonce
    BY <1>1, <1>7, ClearGood
  <2>2. QED
    BY <2>1, NothingTyped DEF Confirmed, Reported, Saved, SameCounters, h
<1>8. CASE h = ClearPending(x)
  <2>1. /\ h \in GoodWorlds /\ h.ctx = c /\ h.vault = w.vault /\ h.armed = w.armed
        /\ h.out = result /\ h.nonce = w.nonce
    BY <1>4, <1>6, <1>8, ClearGood
  <2>2. QED
    BY <1>4, <1>5, <2>1 DEF Confirmed, Reported, Saved, h
<1>9. QED
  BY <1>2, <1>7, <1>8

LEMMA HoldGood ==
  ASSUME NEW w \in GoodWorlds, settings \in Settings, NEW ok \in BOOLEAN
  PROVE  /\ Confirmed(w, ConfirmHold(w, ok))
         /\ ConfirmHold(w, ok).out.typed # NoCredential /\ ManualGate(settings) => w.armed
<1> DEFINE touched == [w EXCEPT !.ctx = AfterTouchHold(w.ctx), !.out = Silent]
           silent == [w EXCEPT !.out = Silent]
           h == ConfirmHold(w, ok)
<1>1. w \in Worlds /\ w.pending.kind \in Kinds
  BY DEF GoodWorlds, Worlds, Pendings
<1>2. /\ touched \in GoodWorlds /\ touched.out = Silent
      /\ SameCounters(w.ctx, touched.ctx)
      /\ touched.vault = w.vault /\ touched.pending = w.pending
      /\ touched.armed = w.armed /\ touched.nonce = w.nonce
  BY TouchedGood
<1>3. \/ w.pending.kind = "NONE" /\ h = silent
      \/ w.pending.kind = "FILL" /\ h = HoldFill(touched, ok)
      \/ w.pending.kind = "SELECT" /\ h = HoldSelect(touched)
      \/ w.pending.kind \in {"SAVE", "GENERATE"} /\ h = HoldSave(touched, ok)
  BY <1>1 DEF ConfirmHold, Kinds, Worlds
<1> HIDE DEF touched, h
<1>4. ASSUME Confirmed(touched, h) PROVE Confirmed(w, h)
  BY <1>2, <1>4 DEF Confirmed, SameCounters
<1>5. CASE w.pending.kind = "NONE" /\ h = silent
  <2>1. /\ h \in GoodWorlds /\ h.ctx = w.ctx /\ h.vault = w.vault /\ h.armed = w.armed
        /\ h.out = Silent /\ h.nonce = w.nonce
    BY <1>5, NothingTyped DEF GoodWorlds, Worlds
  <2>2. QED
    BY <2>1, NothingTyped DEF Confirmed, Reported, Saved, SameCounters, h
<1>6. CASE w.pending.kind = "FILL" /\ h = HoldFill(touched, ok)
  BY <1>2, <1>4, <1>6, HoldFillGood DEF h
<1>7. CASE w.pending.kind = "SELECT" /\ h = HoldSelect(touched)
  BY <1>2, <1>4, <1>7, HoldSelectGood DEF h
<1>8. CASE w.pending.kind \in {"SAVE", "GENERATE"} /\ h = HoldSave(touched, ok)
  BY <1>2, <1>4, <1>8, HoldSaveGood DEF h
<1>9. QED
  BY <1>3, <1>5, <1>6, <1>7, <1>8

\* A tap looks at the state alone; with a fill pending that means a session.
LEMMA TapGood ==
  ASSUME NEW w \in GoodWorlds, w.out = Silent, NEW ok \in BOOLEAN
  PROVE  /\ Confirmed(w, ConfirmTap(w, ok))
         /\ ConfirmTap(w, ok).out.typed # NoCredential => w.ctx.unlocked
<1> DEFINE touched == [w EXCEPT !.ctx = AfterTouchTap(w.ctx), !.out = Silent]
           result == [Silent EXCEPT !.allowed = TRUE]
           answered == [touched EXCEPT !.out = result]
           h == ConfirmTap(w, ok)
<1>1. w \in Worlds /\ w.pending.kind \in Kinds
  BY DEF GoodWorlds, Worlds, Pendings
<1>2. /\ touched \in GoodWorlds /\ touched.out = Silent
      /\ SameCounters(w.ctx, touched.ctx)
      /\ touched.vault = w.vault /\ touched.pending = w.pending
      /\ touched.armed = w.armed /\ touched.nonce = w.nonce
  BY TouchedGood
<1>3. [w EXCEPT !.ctx = AfterTouchTap(@)] = touched
  BY <1>1 DEF Worlds
<1>4. \/ h = w
      \/ h = answered
      \/ /\ w.pending.kind = "FILL" /\ touched.ctx.state = "UNLOCKED"
         /\ h = Typed(touched)
      \/ h = ClearPending(touched)
  <2>1. \/ h = w
        \/ w.pending.kind = "FILL" /\ h = TapFill(touched, ok)
        \/ h = [touched EXCEPT !.out.allowed = TRUE]
    BY <1>1, <1>3 DEF ConfirmTap, Kinds
  <2> HIDE DEF touched
  <2>2. [touched EXCEPT !.out.allowed = TRUE] = answered
    BY <1>2 DEF GoodWorlds, Worlds
  <2>3. QED
    BY <2>1, <2>2 DEF TapFill
<1>5. result \in Results /\ result.change = "none" /\ result.typed = NoCredential
  BY NothingTyped DEF Results
<1> HIDE DEF touched, h, result
<1>6. touched \in Worlds /\ ContextOK(touched.ctx, "NONE")
  BY <1>2, GoodAtRest
<1>7. /\ answered \in GoodWorlds /\ answered.ctx = touched.ctx
      /\ answered.vault = touched.vault /\ answered.armed = touched.armed
      /\ answered.out = result /\ answered.nonce = touched.nonce
  BY <1>2, <1>5 DEF GoodWorlds, Worlds
<1> HIDE DEF answered
<1>8. CASE h = w
  BY <1>8, NothingTyped DEF Confirmed, Reported, Saved, SameCounters, h
<1>9. CASE h = answered
  BY <1>2, <1>5, <1>7, <1>9 DEF Confirmed, Reported, Saved, h
<1>10. CASE /\ w.pending.kind = "FILL" /\ touched.ctx.state = "UNLOCKED"
            /\ h = Typed(touched)
  <2>1. /\ h \in GoodWorlds /\ h.ctx = touched.ctx /\ h.vault = w.vault
        /\ h.armed = w.armed /\ h.out.change = "none" /\ h.nonce = w.nonce
    BY <1>2, <1>6, <1>10, TypedGood
  <2>2. w.ctx.unlocked
    <3>1. ConsistentContext(touched.ctx)
      BY <1>2, <1>10 DEF GoodWorlds, ContextOK
    <3>2. touched.ctx.unlocked
      BY <1>10, <3>1 DEF ConsistentContext
    <3>3. QED
      BY <1>2, <3>2 DEF SameCounters
  <2>3. QED
    BY <1>2, <2>1, <2>2 DEF Confirmed, Reported, Saved, h
<1>11. CASE h = ClearPending(touched)
  <2>1. /\ h \in GoodWorlds /\ h.ctx = touched.ctx /\ h.vault = w.vault
        /\ h.armed = w.armed /\ h.out = Silent /\ h.nonce = w.nonce
    BY <1>2, <1>6, <1>11, ClearGood
  <2>2. QED
    BY <1>2, <2>1, NothingTyped DEF Confirmed, Reported, Saved, h
<1>12. QED
  BY <1>4, <1>8, <1>9, <1>10, <1>11

\* A device operation: the command, then the hold.
LEMMA AtOnceGood ==
  ASSUME NEW w \in GoodWorlds, w.out = Silent, settings \in Settings,
         Store!NextId(w.vault) # 0, NEW cmd \in CommandType, cmd.nonce = 0,
         NEW ok \in BOOLEAN, NEW confirmed \in BOOLEAN
  PROVE  LET h == AtOnce(w, cmd, ok, confirmed)
         IN  /\ h \in GoodWorlds /\ SameCounters(w.ctx, h.ctx) /\ h.nonce >= w.nonce
             /\ h.armed => w.armed
             /\ Handle(w, cmd, ok).out.allowed /\ cmd.type # "SELECT" => ~h.armed
             /\ Reported(w.vault, h.vault, h.out.change)
<1> DEFINE g == Handle(w, cmd, ok)
           h == AtOnce(w, cmd, ok, confirmed)
<1>1. Handled(w, g, cmd.type) /\ g.nonce >= w.nonce
  BY HandleGood
<1>2. \/ h = g \/ h = ConfirmHold(g, confirmed)
  BY DEF AtOnce
<1> HIDE DEF g, h
<1>3. CASE h = g
  BY <1>1, <1>3 DEF Handled, Reported, Saved, g, h
<1>4. CASE h = ConfirmHold(g, confirmed)
  <2>1. Confirmed(g, h)
    BY <1>1, <1>4, HoldGood DEF Handled
  <2>2. QED
    BY <1>1, <2>1 DEF Handled, Confirmed, SameCounters, g, h
<1>5. QED
  BY <1>2, <1>3, <1>4

-----------------------------------------------------------------------------
(***************************************************************************)
(* The inductive invariant.                                                *)
(***************************************************************************)

\* No nonce above the last one has been used yet.
SeenOK ==
    /\ seen \subseteq Nat
    /\ \A n \in seen : n <= last_nonce

EngineInv ==
    /\ World \in GoodWorlds
    /\ out \in Results
    /\ settings \in Settings /\ verifier \in Pins \cup {NoVerifier} /\ halted \in BOOLEAN
    /\ WipeNotMissed
    /\ pressed \in BOOLEAN /\ (armed => pressed)
    /\ SeenOK

LEMMA WorldFields ==
  /\ World.ctx = ctx /\ World.vault = vault /\ World.pending = pending
  /\ World.armed = armed /\ World.limiter = limiter /\ World.clock = clock
  /\ World.nonce = last_nonce /\ World.out = Silent
BY DEF World

LEMMA EngineFacts ==
  EngineInv =>
    /\ ctx \in ContextType /\ vault \in Arrays /\ pending \in Pendings /\ armed \in BOOLEAN
    /\ limiter \in Tables /\ clock \in Rate!Ticks /\ last_nonce \in Nat
    /\ ContextOK(ctx, pending.kind) /\ PendingOK(vault, pending)
BY DEF EngineInv, World, GoodWorlds, Worlds

\* A world of good parts is good.
LEMMA PartsGood ==
  ASSUME ctx \in ContextType, vault \in Arrays, pending \in Pendings, armed \in BOOLEAN,
         limiter \in Tables, clock \in Rate!Ticks, last_nonce \in Nat,
         ContextOK(ctx, pending.kind), PendingOK(vault, pending)
  PROVE  World \in GoodWorlds
<1>1. World \in Worlds
  BY NothingTyped DEF World, Worlds
<1>2. QED
  BY <1>1, WorldFields DEF GoodWorlds

LEMMA PartsGoodNext ==
  /\ ctx' \in ContextType /\ vault' \in Arrays /\ pending' \in Pendings /\ armed' \in BOOLEAN
  /\ limiter' \in Tables /\ clock' \in Rate!Ticks /\ last_nonce' \in Nat
  /\ ContextOK(ctx', pending'.kind) /\ PendingOK(vault', pending')
  => World' \in GoodWorlds
<1>1. ASSUME ctx' \in ContextType, vault' \in Arrays, pending' \in Pendings,
             armed' \in BOOLEAN, limiter' \in Tables, clock' \in Rate!Ticks,
             last_nonce' \in Nat,
             ContextOK(ctx', pending'.kind), PendingOK(vault', pending')
      PROVE  World' \in GoodWorlds
  <2>1. World' \in Worlds
    BY <1>1, NothingTyped DEF World, Worlds
  <2>2. World'.ctx = ctx' /\ World'.vault = vault' /\ World'.pending = pending'
    BY DEF World
  <2>3. QED
    BY <1>1, <2>1, <2>2 DEF GoodWorlds
<1>2. QED
  BY <1>1

LEMMA BecomeGood ==
  ASSUME NEW h \in GoodWorlds, Become(h)
  PROVE  World' \in GoodWorlds /\ out' \in Results
<1>1. /\ h.ctx \in ContextType /\ h.vault \in Arrays /\ h.pending \in Pendings
      /\ h.armed \in BOOLEAN /\ h.limiter \in Tables /\ h.clock \in Rate!Ticks
      /\ h.nonce \in Nat /\ h.out \in Results
      /\ ContextOK(h.ctx, h.pending.kind) /\ PendingOK(h.vault, h.pending)
  BY DEF GoodWorlds, Worlds
<1>2. /\ ctx' = h.ctx /\ vault' = h.vault /\ pending' = h.pending /\ armed' = h.armed
      /\ limiter' = h.limiter /\ clock' = h.clock /\ last_nonce' = h.nonce /\ out' = h.out
  BY DEF Become
<1>3. QED
  BY <1>1, <1>2, PartsGoodNext

\* The counters that decide about the wipe do not change in a handler.
LEMMA WipeKept ==
  ASSUME WipeNotMissed, SameCounters(ctx, ctx'), settings' = settings
  PROVE  WipeNotMissed'
BY DEF WipeNotMissed, SameCounters

\* A larger last nonce keeps every one used below it.
LEMMA SeenKept ==
  ASSUME EngineInv, NEW n \in Nat, seen' = seen \cup ({n} \ {0}),
         last_nonce' \in Nat, last_nonce' >= last_nonce, n <= last_nonce'
  PROVE  SeenOK'
<1>1. last_nonce \in Nat /\ seen \subseteq Nat /\ \A m \in seen : m <= last_nonce
  BY EngineFacts DEF EngineInv, SeenOK
<1>2. \A m \in seen' : m \in Nat /\ m <= last_nonce'
  BY <1>1
<1>3. QED
  BY <1>2 DEF SeenOK

LEMMA EmptyTableGood == Rate!EmptyTable \in Tables
<1>1. IsFiniteSet({}) /\ Cardinality({}) = 0 /\ MaxSlots \in Nat
  BY FS_EmptySet, EngineAssumption
<1>2. {} \in {E \in SUBSET Origins : IsFiniteSet(E) /\ Cardinality(E) <= MaxSlots}
  BY <1>1
<1>3. Rate!EmptyTable \in [{} -> Rate!Slots]
  BY DEF Rate!EmptyTable
<1>4. QED
  BY <1>2, <1>3 DEF Tables

LEMMA EngineInvInit == EngineInit => EngineInv
<1> SUFFICES ASSUME EngineInit PROVE EngineInv
  OBVIOUS
<1>1. /\ InitialContext \in ContextType /\ ContextOK(InitialContext, "NONE")
      /\ InitialContext.failed_pin_attempts = 0
  BY InitialGood DEF GoodContexts, ContextOK
<1>2. << >> \in Arrays
  BY EmptySeq, StoreConstants DEF Arrays, IdsApart, Store!AccountsUnique
<1>3. Rate!EmptyTable \in Tables
  BY EmptyTableGood
<1>4. 1 \in Rate!Ticks
  BY EngineAssumption DEF Rate!Ticks
<1>5. PendingOK(<< >>, NoPending)
  BY NothingTyped DEF PendingOK
<1>6. World \in GoodWorlds
  BY <1>1, <1>2, <1>3, <1>4, <1>5, NothingTyped, PartsGood DEF EngineInit
<1>7. settings \in Settings /\ verifier \in Pins \cup {NoVerifier} /\ halted \in BOOLEAN
  BY BootSettingsType, EngineAssumption, LimitsAssumption DEF EngineInit
<1>8. WipeNotMissed
  BY <1>1, LimitsAssumption DEF EngineInit, WipeNotMissed
<1>9. SeenOK
  BY DEF EngineInit, SeenOK
<1>10. QED
  BY <1>6, <1>7, <1>8, <1>9, NothingTyped DEF EngineInit, EngineInv

-----------------------------------------------------------------------------
(***************************************************************************)
(* The steps.  Each keeps the invariant, and its result reports the change *)
(* of the vault.                                                           *)
(***************************************************************************)

EngineStepGood == EngineInv' /\ Reported(vault, vault', out'.change)

\* A step that touches nothing of the engine but its last result.
LEMMA ContextStep ==
  ASSUME EngineInv, ctx' \in ContextType, ContextOK(ctx', pending.kind),
         settings' \in Settings, verifier' \in Pins \cup {NoVerifier}, halted' \in BOOLEAN,
         WipeNotMissed', out' \in Results, out'.change = "none",
         UNCHANGED <<vault, pending, armed, limiter, clock, last_nonce, seen, pressed>>
  PROVE  EngineStepGood
<1>1. World' \in GoodWorlds
  BY EngineFacts, PartsGoodNext
<1>2. SeenOK'
  BY DEF EngineInv, SeenOK
<1>3. Reported(vault, vault', out'.change)
  BY DEF Reported, Saved
<1>4. QED
  BY <1>1, <1>2, <1>3 DEF EngineInv, EngineStepGood

LEMMA EngineTickStep == ASSUME EngineInv, EngineTick PROVE EngineStepGood
<1>1. /\ ctx' = AfterTick(ctx, settings) /\ out' = Silent
      /\ UNCHANGED <<settings, verifier, halted>>
      /\ UNCHANGED <<vault, pending, armed, limiter, clock, last_nonce, seen, pressed>>
  BY DEF EngineTick, Tick
<1>2. /\ ctx' \in ContextType /\ ContextOK(ctx', pending.kind) /\ ctx'.wiped = ctx.wiped
      /\ ctx'.failed_pin_attempts = ctx.failed_pin_attempts
  BY <1>1, EngineFacts, TickKeeps DEF EngineInv
<1>3. WipeNotMissed'
  BY <1>1, <1>2 DEF EngineInv, WipeNotMissed
<1>4. QED
  BY <1>1, <1>2, <1>3, NothingTyped, ContextStep DEF EngineInv

LEMMA UnlockStep ==
  ASSUME EngineInv, NEW pin, UnlockWithPin(pin)
  PROVE  EngineStepGood
<1>1. /\ ctx' = AfterTryUnlock(ctx, settings, verifier, pin) /\ out' = Silent
      /\ halted' \in BOOLEAN /\ UNCHANGED <<settings, verifier>>
      /\ UNCHANGED <<vault, pending, armed, limiter, clock, last_nonce, seen, pressed>>
  BY LimitsAssumption DEF UnlockWithPin, TryUnlock
<1>2. ctx \in ContextType /\ ContextOK(ctx, pending.kind) /\ settings \in Settings
  BY EngineFacts DEF EngineInv
<1>3. /\ ctx' \in ContextType /\ ContextOK(ctx', pending.kind) /\ WipeNotMissed'
  <2>1. CASE ~EvaluatesPin(ctx, verifier)
    <3>1. ctx' = ctx
      BY <1>1, <2>1 DEF AfterTryUnlock
    <3>2. QED
      BY <1>1, <1>2, <3>1 DEF EngineInv, WipeNotMissed
  <2>2. CASE EvaluatesPin(ctx, verifier) /\ ctx' = AfterCorrectPin(ctx)
    <3>1. ctx.wiped = FALSE
      BY <1>2, <2>2 DEF EvaluatesPin, ContextType
    <3>2. /\ ctx' \in ContextType /\ ContextOK(ctx', pending.kind)
          /\ ctx'.failed_pin_attempts = 0
      BY <1>2, <2>2, <3>1, CorrectPinKeeps
    <3>3. QED
      BY <3>2, LimitsAssumption DEF WipeNotMissed
  <2>3. CASE EvaluatesPin(ctx, verifier) /\ ctx' = AfterWrongPin(ctx, settings)
    <3>1. ctx.wiped = FALSE /\ ~(ctx.state = "LOCKED_OUT" /\ ctx.lockout_ticks_remaining > 0)
      BY <1>2, <2>3 DEF EvaluatesPin, ContextType
    <3>2. /\ ctx' \in ContextType /\ ContextOK(ctx', pending.kind)
          /\ settings.wipe_on_lockout /\ ~ctx'.wiped =>
               ctx'.failed_pin_attempts < WipeThreshold
      BY <1>2, <2>3, <3>1, WrongPinKeeps
    <3>3. QED
      BY <1>1, <3>2 DEF WipeNotMissed
  <2>4. QED
    BY <1>1, <2>1, <2>2, <2>3 DEF AfterTryUnlock
<1>4. QED
  BY <1>1, <1>2, <1>3, NothingTyped, ContextStep DEF EngineInv

LEMMA ChangePinStep ==
  ASSUME EngineInv, NEW old, NEW new, TryChangePin(old, new)
  PROVE  EngineStepGood
<1>1. /\ verifier' \in Pins \cup {NoVerifier} /\ out' = Silent
      /\ UNCHANGED <<ctx, settings, halted>>
      /\ UNCHANGED <<vault, pending, armed, limiter, clock, last_nonce, seen, pressed>>
  BY DEF TryChangePin, SetPin, SetPinAllowed
<1>2. WipeNotMissed'
  BY <1>1 DEF EngineInv, WipeNotMissed
<1>3. QED
  BY <1>1, <1>2, EngineFacts, NothingTyped, ContextStep DEF EngineInv

\* The owner's settings come in a session, where no failure is counted; the
\* settings popup keeps the wiping policy.
LEMMA SettingsStep ==
  ASSUME EngineInv, PopupOpen \/ \E s \in SettingsInputs : DeviceApplySettings(s)
  PROVE  EngineStepGood
<1> DEFINE result == [Silent EXCEPT !.allowed = TRUE, !.performed = TRUE]
<1>1. result \in Results /\ result.change = "none"
  BY NothingTyped DEF Results
<1>2. /\ out' = result
      /\ UNCHANGED <<ctx, verifier, halted>>
      /\ UNCHANGED <<vault, pending, armed, limiter, clock, last_nonce, seen, pressed>>
  BY DEF PopupOpen, DeviceApplySettings
<1> HIDE DEF result
<1>3. settings' \in Settings /\ WipeNotMissed'
  <2>1. CASE PopupOpen
    <3>1. /\ settings \in Settings /\ settings' = Normalise(OpenGates(settings))
      BY <2>1 DEF PopupOpen, EngineInv
    <3>2. settings' \in Settings
      BY <3>1, OpenGatesType, NormaliseType
    <3>3. settings'.wipe_on_lockout = settings.wipe_on_lockout
      BY <3>1 DEF Normalise, OpenGates, Settings, RawSettings
    <3>4. QED
      BY <1>2, <3>2, <3>3 DEF EngineInv, WipeNotMissed
  <2>2. CASE \E s \in SettingsInputs : DeviceApplySettings(s)
    <3>1. PICK s \in RawSettings : settings' = Normalise(OpenGates(s)) /\ MayRequest(ctx)
      BY <2>2, InputsAssumption DEF DeviceApplySettings
    <3>2. OpenGates(s) \in RawSettings
      BY DEF OpenGates, RawSettings
    <3>3. settings' \in Settings
      BY <3>1, <3>2, NormaliseType
    <3>4. ctx.failed_pin_attempts = 0
      BY <3>1, EngineFacts DEF MayRequest, ContextOK
    <3>5. QED
      BY <1>2, <3>3, <3>4, LimitsAssumption DEF WipeNotMissed
  <2>3. QED
    BY <2>1, <2>2
<1>4. QED
  BY <1>1, <1>2, <1>3, EngineFacts, ContextStep DEF EngineInv

LEMMA RestartStep == ASSUME EngineInv, Restart PROVE EngineStepGood
<1>1. /\ ctx' = InitialContext /\ pending' = NoPending /\ armed' = FALSE
      /\ limiter' = Rate!EmptyTable /\ last_nonce' = 0 /\ out' = Silent
      /\ seen' = {} /\ pressed' = FALSE
      /\ UNCHANGED <<settings, verifier, halted, vault, clock>>
  BY DEF Restart
<1>2. /\ InitialContext \in ContextType /\ ContextOK(InitialContext, "NONE")
      /\ InitialContext.failed_pin_attempts = 0
  BY InitialGood DEF GoodContexts, ContextOK
<1>3. Rate!EmptyTable \in Tables
  BY EmptyTableGood
<1>4. PendingOK(vault, NoPending)
  BY NothingTyped DEF PendingOK
<1>5. World' \in GoodWorlds
  BY <1>1, <1>2, <1>3, <1>4, NothingTyped, EngineFacts, PartsGoodNext
<1>6. WipeNotMissed'
  BY <1>1, <1>2, LimitsAssumption DEF WipeNotMissed
<1>7. SeenOK'
  BY <1>1 DEF SeenOK
<1>8. Reported(vault, vault', out'.change)
  BY <1>1, NothingTyped DEF Reported, Saved
<1>9. QED
  BY <1>1, <1>5, <1>6, <1>7, <1>8, NothingTyped DEF EngineInv, EngineStepGood

LEMMA ArmStep == ASSUME EngineInv, ArmManualPopup PROVE EngineStepGood
<1>1. /\ armed' = TRUE /\ pressed' = TRUE /\ out' = Silent
      /\ UNCHANGED <<ctx, settings, verifier, halted>>
      /\ UNCHANGED <<vault, pending, limiter, clock, last_nonce, seen>>
  BY DEF ArmManualPopup, vars
<1>2. World' \in GoodWorlds
  BY <1>1, EngineFacts, PartsGoodNext
<1>3. SeenOK' /\ WipeNotMissed'
  BY <1>1 DEF EngineInv, SeenOK, WipeNotMissed
<1>4. Reported(vault, vault', out'.change)
  BY <1>1, NothingTyped DEF Reported, Saved
<1>5. QED
  BY <1>1, <1>2, <1>3, <1>4, NothingTyped DEF EngineInv, EngineStepGood

\* A gesture.
LEMMA GestureStep ==
  ASSUME EngineInv, NEW h, Confirmed(World, h), Become(h),
         UNCHANGED <<settings, verifier, halted, seen, pressed>>
  PROVE  EngineStepGood
<1>1. World' \in GoodWorlds /\ out' \in Results
  BY BecomeGood DEF Confirmed
<1>2. /\ SameCounters(ctx, ctx') /\ last_nonce' = last_nonce /\ (armed' => armed)
      /\ Reported(vault, vault', out'.change)
  BY WorldFields DEF Confirmed, Become
<1>3. WipeNotMissed'
  BY <1>2, WipeKept DEF EngineInv
<1>4. SeenOK'
  BY <1>2 DEF EngineInv, SeenOK
<1>5. QED
  BY <1>1, <1>2, <1>3, <1>4 DEF EngineInv, EngineStepGood

LEMMA RunningHasId == Running => Store!NextId(vault) # 0
BY EngineAssumption DEF Running

LEMMA CommandStep ==
  ASSUME EngineInv, NEW cmd \in Commands, NEW ok \in Outcomes, HandleCommand(cmd, ok)
  PROVE  EngineStepGood
<1> DEFINE h == Handle(World, cmd, ok)
<1>1. cmd \in CommandType /\ ok \in BOOLEAN
  BY EngineAssumption
<1>2. Handled(World, h, cmd.type) /\ h.nonce >= World.nonce /\ h.nonce >= cmd.nonce
  <2>1. World \in GoodWorlds /\ World.out = Silent /\ settings \in Settings
    BY WorldFields DEF EngineInv
  <2>2. Store!NextId(World.vault) # 0
    BY WorldFields, RunningHasId DEF HandleCommand
  <2>3. QED
    BY <1>1, <2>1, <2>2, HandleGood
<1>3. /\ Become(h) /\ UNCHANGED <<settings, verifier, halted>>
      /\ seen' = seen \cup ({cmd.nonce} \ {0})
      /\ pressed' = (pressed /\ ~(out'.allowed /\ cmd.type # "SELECT"))
  BY DEF HandleCommand
<1> HIDE DEF h
<1>4. World' \in GoodWorlds /\ out' \in Results
  BY <1>2, <1>3, BecomeGood DEF Handled
<1>5. /\ SameCounters(ctx, ctx') /\ vault' = vault /\ out'.change = "none"
      /\ last_nonce' >= last_nonce /\ (armed' => armed)
      /\ out'.allowed /\ cmd.type # "SELECT" => armed' = FALSE
      /\ last_nonce' >= cmd.nonce
  BY <1>2, <1>3, WorldFields DEF Handled, Become
<1>6. last_nonce' \in Nat /\ cmd.nonce \in Nat
  <2>1. h.nonce \in Nat
    BY <1>2 DEF Handled, GoodWorlds, Worlds
  <2>2. QED
    BY <1>1, <1>3, <2>1 DEF Become, CommandType
<1>7. WipeNotMissed'
  BY <1>3, <1>5, WipeKept DEF EngineInv
<1>8. SeenOK'
  BY <1>3, <1>5, <1>6, SeenKept
<1>9. pressed' \in BOOLEAN /\ (armed' => pressed')
  <2>1. pressed' \in BOOLEAN
    BY <1>3
  <2>2. armed' => pressed'
    BY <1>3, <1>5 DEF EngineInv
  <2>3. QED
    BY <2>1, <2>2
<1>10. Reported(vault, vault', out'.change)
  BY <1>5 DEF Reported, Saved
<1>11. QED
  BY <1>3, <1>4, <1>7, <1>8, <1>9, <1>10 DEF EngineInv, EngineStepGood

LEMMA DeviceStep ==
  ASSUME EngineInv, NEW cmd \in CommandType, cmd.nonce = 0,
         NEW ok \in Outcomes, NEW confirmed \in Outcomes,
         DeviceOperation(cmd, ok, confirmed)
  PROVE  EngineStepGood
<1> DEFINE h == AtOnce(World, cmd, ok, confirmed)
           queued == Handle(World, cmd, ok).out.allowed
<1>1. ok \in BOOLEAN /\ confirmed \in BOOLEAN
  BY EngineAssumption
<1>2. /\ h \in GoodWorlds /\ SameCounters(World.ctx, h.ctx) /\ h.nonce >= World.nonce
      /\ h.armed => World.armed
      /\ queued /\ cmd.type # "SELECT" => ~h.armed
      /\ Reported(World.vault, h.vault, h.out.change)
  <2>1. World \in GoodWorlds /\ World.out = Silent /\ settings \in Settings
    BY WorldFields DEF EngineInv
  <2>2. Store!NextId(World.vault) # 0
    BY WorldFields, RunningHasId DEF DeviceOperation
  <2>3. QED
    BY <1>1, <2>1, <2>2, AtOnceGood
<1>3. /\ Become(h) /\ UNCHANGED <<settings, verifier, halted, seen>>
      /\ pressed' = (pressed /\ (cmd.type = "SELECT" \/ ~queued))
  BY DEF DeviceOperation
<1> HIDE DEF h, queued
<1>4. World' \in GoodWorlds /\ out' \in Results
  BY <1>2, <1>3, BecomeGood
<1>5. /\ SameCounters(ctx, ctx') /\ last_nonce' >= last_nonce /\ (armed' => armed)
      /\ queued /\ cmd.type # "SELECT" => ~armed'
      /\ Reported(vault, vault', out'.change)
  BY <1>2, <1>3, WorldFields DEF Become
<1>6. last_nonce' \in Nat
  BY <1>2, <1>3 DEF GoodWorlds, Worlds, Become
<1>7. WipeNotMissed' /\ SeenOK'
  <2>1. 0 \in Nat /\ seen' = seen \cup ({0} \ {0}) /\ 0 <= last_nonce'
    BY <1>3, <1>6
  <2>2. SeenOK'
    BY <2>1, <1>5, <1>6, SeenKept
  <2>3. QED
    BY <2>2, <1>3, <1>5, WipeKept DEF EngineInv
<1>8. pressed' \in BOOLEAN /\ (armed' => pressed')
  BY <1>3, <1>5 DEF EngineInv
<1>9. QED
  BY <1>3, <1>4, <1>5, <1>7, <1>8 DEF EngineInv, EngineStepGood

\* What the device's own menu asks for is a command without a nonce.
LEMMA DeviceCommands ==
  ASSUME EngineInv, NEW ok \in Outcomes, NEW confirmed \in Outcomes,
         NEW origin \in Origins, NEW username \in Usernames, NEW password \in Passwords,
         \/ DeviceSave(origin, username, password, ok, confirmed)
         \/ DeviceFill(origin, ok, confirmed)
         \/ DeviceGenerate(origin, username, ok, confirmed)
         \/ DeviceSelectNext(ok, confirmed)
  PROVE  EngineStepGood
<1> DEFINE Cmd(type, o, u, p) ==
             [type |-> type, nonce |-> 0, origin |-> o, username |-> u, password |-> p]
<1>1. PICK cmd : /\ DeviceOperation(cmd, ok, confirmed)
                 /\ \E type \in {"SAVE", "FILL", "GENERATE", "SELECT"}, o \in Origins,
                       u \in Usernames, p \in Passwords : cmd = Cmd(type, o, u, p)
  <2>1. NoOrigin \in Origins /\ NoUsername \in Usernames /\ NoPassword \in Passwords
    BY EngineAssumption
  <2>2. CASE DeviceSave(origin, username, password, ok, confirmed)
    BY <2>2 DEF DeviceSave
  <2>3. CASE DeviceFill(origin, ok, confirmed)
    BY <2>1, <2>3 DEF DeviceFill
  <2>4. CASE DeviceGenerate(origin, username, ok, confirmed)
    BY <2>1, <2>4 DEF DeviceGenerate
  <2>5. CASE DeviceSelectNext(ok, confirmed)
    BY <2>1, <2>5 DEF DeviceSelectNext
  <2>6. QED
    BY <2>2, <2>3, <2>4, <2>5
<1>2. cmd \in CommandType /\ cmd.nonce = 0
  BY <1>1 DEF CommandType, Kinds
<1>3. QED
  BY <1>1, <1>2, DeviceStep

LEMMA EngineStep == ASSUME EngineInv, EngineNext PROVE EngineStepGood
<1>1. World \in GoodWorlds /\ World.out = Silent /\ settings \in Settings
  BY WorldFields DEF EngineInv
<1>2. CASE \E ok \in Outcomes : Tap(ok)
  <2>1. PICK ok \in BOOLEAN : Tap(ok)
    BY <1>2, EngineAssumption
  <2>2. Confirmed(World, ConfirmTap(World, ok))
    BY <1>1, TapGood
  <2>3. QED
    BY <2>1, <2>2, GestureStep DEF Tap
<1>3. CASE \E ok \in Outcomes : Hold(ok)
  <2>1. PICK ok \in BOOLEAN : Hold(ok)
    BY <1>3, EngineAssumption
  <2>2. Confirmed(World, ConfirmHold(World, ok))
    BY <1>1, HoldGood
  <2>3. QED
    BY <2>1, <2>2, GestureStep DEF Hold
<1>4. CASE \E login \in Logins, ok, confirmed \in Outcomes :
              DeviceSave(login[1], login[2], login[3], ok, confirmed)
  <2>1. PICK login \in Origins \X Usernames \X Passwords, ok \in Outcomes,
             confirmed \in Outcomes :
                DeviceSave(login[1], login[2], login[3], ok, confirmed)
    BY <1>4, EngineAssumption
  <2>2. login[1] \in Origins /\ login[2] \in Usernames /\ login[3] \in Passwords
    OBVIOUS
  <2>3. QED
    BY <2>1, <2>2, DeviceCommands
<1>5. CASE \E origin \in Origins, ok, confirmed \in Outcomes :
              \/ DeviceFill(origin, ok, confirmed)
              \/ DeviceGenerate(origin, NoUsername, ok, confirmed)
              \/ ButtonPress(origin, ok, confirmed)
  <2>1. PICK origin \in Origins, ok \in Outcomes, confirmed \in Outcomes :
              \/ DeviceFill(origin, ok, confirmed)
              \/ DeviceGenerate(origin, NoUsername, ok, confirmed)
              \/ ButtonPress(origin, ok, confirmed)
    BY <1>5
  <2>2. \/ DeviceFill(origin, ok, confirmed)
        \/ DeviceGenerate(origin, NoUsername, ok, confirmed)
        \/ PopupOpen
    BY <2>1 DEF ButtonPress
  <2>3. NoUsername \in Usernames /\ NoPassword \in Passwords
    BY EngineAssumption
  <2>4. QED
    BY <2>2, <2>3, DeviceCommands, SettingsStep
<1>6. CASE \E ok, confirmed \in Outcomes : DeviceSelectNext(ok, confirmed)
  <2>1. NoOrigin \in Origins /\ NoUsername \in Usernames /\ NoPassword \in Passwords
    BY EngineAssumption
  <2>2. QED
    BY <1>6, <2>1, DeviceCommands
<1>7. CASE \/ \E pin \in Pins \cup MalformedPins : UnlockWithPin(pin)
           \/ \E old, new \in Pins \cup MalformedPins : TryChangePin(old, new)
           \/ \E cmd \in Commands, ok \in Outcomes : HandleCommand(cmd, ok)
  BY <1>7, UnlockStep, ChangePinStep, CommandStep
<1>8. CASE PopupOpen \/ \E s \in SettingsInputs : DeviceApplySettings(s)
  BY <1>8, SettingsStep
<1>9. CASE Restart \/ EngineTick \/ ArmManualPopup
  BY <1>9, RestartStep, EngineTickStep, ArmStep
<1>10. QED
  BY <1>2, <1>3, <1>4, <1>5, <1>6, <1>7, <1>8, <1>9 DEF EngineNext

LEMMA EngineInvStep == EngineInv /\ [EngineNext]_allVars => EngineInv'
<1>1. ASSUME EngineInv, UNCHANGED allVars PROVE EngineInv'
  <2>1. World' = World
    BY <1>1 DEF allVars, vars, engineVars, World
  <2>2. QED
    BY <1>1, <2>1 DEF allVars, vars, engineVars, EngineInv, WipeNotMissed, SeenOK
<1>2. QED
  BY <1>1, EngineStep DEF EngineStepGood

THEOREM EngineInvariant == EngineSpec => []EngineInv
BY EngineInvInit, EngineInvStep, PTL DEF EngineSpec

-----------------------------------------------------------------------------
(***************************************************************************)
(* The properties.                                                         *)
(***************************************************************************)

\* Every variable of the engine has its type, the vault never passes its
\* capacity, and the limiter never passes its slots.
THEOREM EngineTypeCorrect == EngineSpec => []EngineTypeOK
<1>1. ASSUME EngineInv PROVE EngineTypeOK
  <2>1. /\ ctx \in ContextType /\ vault \in Arrays /\ pending \in Pendings
        /\ armed \in BOOLEAN /\ limiter \in Tables /\ clock \in Rate!Ticks
        /\ last_nonce \in Nat
    BY <1>1, EngineFacts
  <2>2. TypeOK
    BY <1>1, <2>1 DEF EngineInv, TypeOK
  <2>3. Store!TypeOK
    BY <2>1 DEF Store!TypeOK, Arrays
  <2>4. Rate!TypeOK
    <3>1. PICK D \in SUBSET Origins :
             IsFiniteSet(D) /\ Cardinality(D) <= MaxSlots /\ limiter \in [D -> Rate!Slots]
      BY <2>1 DEF Tables
    <3>2. DOMAIN limiter = D /\ \A c \in D : limiter[c] \in Rate!Slots
      BY <3>1
    <3>3. QED
      BY <2>1, <3>1, <3>2, SameCount DEF Rate!TypeOK
  <2>5. QED
    BY <1>1, <2>1, <2>2, <2>3, <2>4 DEF EngineInv, EngineTypeOK, Pendings, Results
<1>2. EngineInv => EngineTypeOK
  BY <1>1
<1>3. QED
  BY <1>2, EngineInvariant, PTL

\* Whatever came between the request and its confirmation, a pending fill is
\* the vault's entry of its origin, a pending save's id is free and next, and a
\* pending selection is in range.
THEOREM PendingStaysFresh == EngineSpec => []PendingFresh
<1>1. EngineInv => PendingFresh
  BY EngineFacts DEF PendingOK, PendingFresh
<1>2. QED
  BY <1>1, EngineInvariant, PTL

\* While an action is pending the flags and the state of the device agree.
THEOREM PendingStaysConsistent == EngineSpec => []PendingConsistent
<1>1. EngineInv => PendingConsistent
  BY EngineFacts DEF ContextOK, PendingConsistent, SessionConsistent
<1>2. QED
  BY <1>1, EngineInvariant, PTL

\* Accounts and ids stay unique, however saves come about.
THEOREM KeysStayUnique == EngineSpec => []VaultKeys
<1>1. EngineInv => VaultKeys
  BY EngineFacts DEF Arrays, IdsApart, VaultKeys, Store!OneEntryPerAccount, Store!IdsUnique
<1>2. QED
  BY <1>1, EngineInvariant, PTL

\* Between two initialisations a nonce that a command used, accepted or not, is
\* never accepted again: it is not above the last one.
THEOREM NoncesAcceptedOnce == EngineSpec => AcceptedOnce
<1>1. ASSUME EngineInv, NEW cmd \in Commands, NEW ok \in Outcomes,
             out'.allowed, cmd.nonce \in seen \ {0}, HandleCommand(cmd, ok)
      PROVE  FALSE
  <2>1. cmd \in CommandType /\ ok \in BOOLEAN
    BY EngineAssumption
  <2>2. World \in GoodWorlds /\ World.out = Silent /\ settings \in Settings
    BY <1>1, WorldFields DEF EngineInv
  <2>3. Store!NextId(World.vault) # 0
    BY <1>1, WorldFields, RunningHasId DEF HandleCommand
  <2>4. out' = Handle(World, cmd, ok).out
    BY <1>1 DEF HandleCommand, Become
  <2>5. cmd.nonce > World.nonce
    BY <1>1, <2>1, <2>2, <2>3, <2>4, HandleGood
  <2>6. World.nonce = last_nonce /\ last_nonce \in Nat /\ cmd.nonce <= last_nonce
    BY <1>1, WorldFields, EngineFacts DEF EngineInv, SeenOK
  <2>7. cmd.nonce \in Nat
    BY <2>1 DEF CommandType
  <2>8. QED
    BY <2>5, <2>6, <2>7
<1>2. EngineInv =>
        [\A cmd \in Commands, ok \in Outcomes :
            out'.allowed /\ cmd.nonce \in seen \ {0} => ~HandleCommand(cmd, ok)]_allVars
  BY <1>1
<1>3. QED
  BY <1>2, EngineInvariant, PTL DEF AcceptedOnce

\* Composed with the engine, which moves the device's state behind the state
\* machine's back, a wiping policy still never misses its threshold.
THEOREM EngineWipes == EngineSpec => []WipeNotMissed
<1>1. EngineInv => WipeNotMissed
  BY DEF EngineInv
<1>2. QED
  BY <1>1, EngineInvariant, PTL

\* A tap types only in a session.
THEOREM TapsTypeInSession == EngineSpec => TapTypesUnlocked
<1>1. ASSUME EngineInv, NEW ok \in Outcomes, Tap(ok), out'.typed # NoCredential
      PROVE  ctx.unlocked
  <2>1. ok \in BOOLEAN
    BY EngineAssumption
  <2>2. ConfirmTap(World, ok).out.typed # NoCredential => World.ctx.unlocked
    BY <1>1, <2>1, WorldFields, TapGood DEF EngineInv
  <2>3. out' = ConfirmTap(World, ok).out
    BY <1>1 DEF Tap, Become
  <2>4. QED
    BY <1>1, <2>2, <2>3, WorldFields
<1>2. EngineInv =>
        [\A ok \in Outcomes : out'.typed # NoCredential /\ Tap(ok) => ctx.unlocked]_allVars
  BY <1>1
<1>3. QED
  BY <1>2, EngineInvariant, PTL DEF TapTypesUnlocked

\* Under the manual gate a hold types only after a press meant for its fill.
THEOREM PressesNotCarriedOver == EngineSpec => PressNotCarriedOver
<1>1. ASSUME EngineInv, NEW ok \in Outcomes, Hold(ok), out'.typed # NoCredential,
             ManualGate(settings)
      PROVE  pressed
  <2>1. ok \in BOOLEAN
    BY EngineAssumption
  <2>2. ConfirmHold(World, ok).out.typed # NoCredential /\ ManualGate(settings)
           => World.armed
    BY <1>1, <2>1, HoldGood DEF EngineInv
  <2>3. out' = ConfirmHold(World, ok).out
    BY <1>1 DEF Hold, Become
  <2>4. QED
    BY <1>1, <2>2, <2>3, WorldFields DEF EngineInv
<1>2. EngineInv =>
        [\A ok \in Outcomes :
            out'.typed # NoCredential /\ ManualGate(settings) /\ Hold(ok) => pressed]_allVars
  BY <1>1
<1>3. QED
  BY <1>2, EngineInvariant, PTL DEF PressNotCarriedOver

\* The vault changes only as the result of the step reports it.
THEOREM ChangesAreReported == EngineSpec => ChangesReported
<1> DEFINE A == CASE out'.change = "created" ->
                       /\ Len(vault') = Len(vault) + 1
                       /\ SubSeq(vault', 1, Len(vault)) = vault
                  [] out'.change = "updated" ->
                       \E i \in DOMAIN vault :
                          /\ Store!SameAccount(vault[i], vault'[i])
                          /\ vault' = [vault EXCEPT ![i] = vault'[i]]
                  [] OTHER -> vault' = vault
<1>1. ASSUME EngineInv, EngineNext PROVE A
  BY <1>1, EngineStep DEF EngineStepGood, Reported
<1>2. EngineInv /\ [EngineNext]_allVars => [A]_allVars
  BY <1>1
<1> HIDE DEF A
<1>3. EngineSpec => [][A]_allVars
  BY <1>2, EngineInvariant, PTL DEF EngineSpec
<1>4. QED
  BY <1>3 DEF ChangesReported, A

\* Seen from the vault, every step of the engine is a step of the store: a save
\* is stored once, under the id that is next when it is stored, however long it
\* was pending and whatever happened meanwhile.
THEOREM EngineDrivesStore == EngineSpec => StoreProofs!Spec
<1>1. EngineInit => StoreProofs!Init
  BY DEF EngineInit, StoreProofs!Init
<1>2. ASSUME EngineInv, EngineNext PROVE [StoreProofs!Next]_vault
  <2>1. Saved(vault, vault')
    BY <1>2, EngineStep DEF EngineStepGood, Reported
  <2>2. CASE vault' = vault
    BY <2>2
  <2>3. CASE \E e \in Store!Entries :
                e.id = Store!NextId(vault) /\ vault' = Store!Upsert(vault, e)
    <3>1. PICK e \in StoreProofs!Entries :
                e.id = StoreProofs!NextId(vault) /\ vault' = StoreProofs!Upsert(vault, e)
      BY <2>3, SameStore
    <3>2. /\ e = [id |-> StoreProofs!NextId(vault), origin |-> e.origin,
                  username |-> e.username, password |-> e.password]
          /\ e.origin \in Origins /\ e.username \in Usernames /\ e.password \in Passwords
      BY <3>1 DEF StoreProofs!Entries
    <3>3. StoreProofs!Save(e.origin, e.username, e.password)
      BY <3>1, <3>2 DEF StoreProofs!Save
    <3>4. QED
      BY <3>2, <3>3 DEF StoreProofs!Next
  <2>4. QED
    BY <2>1, <2>2, <2>3 DEF Saved
<1>3. EngineInv /\ [EngineNext]_allVars => [StoreProofs!Next]_vault
  BY <1>2 DEF allVars, engineVars
<1>4. QED
  BY <1>1, <1>3, EngineInvariant, PTL DEF EngineSpec, StoreProofs!Spec

\* Hence, through everything the engine does, the vault is a bounded map from
\* accounts to passwords, which only saves change.
THEOREM EngineImplementsMap == EngineSpec => StoreProofs!ImplementsMap
<1>1. StoreProofs!Spec => StoreProofs!ImplementsMap
  BY StoreConstants, StoreProofs!ArrayImplementsMap
<1>2. QED
  BY <1>1, EngineDrivesStore, PTL

=============================================================================
