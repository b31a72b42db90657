# SafeKeyVault: TLA+ models, model checking and proofs

Models of the firmware under `firmware/src/`, written from its C code: the device
state machine and action engine, the stores, the flash slots below them with power
loss, the USB session, the secure element with secure boot and FIDO2, and the text
codec. TLC checks them on small instances. For all values of the constants TLAPS
proves every invariant and action property that the passing runs check, and the
refinements: PIN gate, bounded map, register. Liveness stays with TLC.

## 1. The system

SafeKeyVault is a card-sized password manager. A host asks it over USB for a
fill, a save, a generated password or another selection; the owner confirms with
a tap or a hold, or works from the device's own menu. It is one thread: handlers
run to completion, and the interleavings that matter are those of *handlers*:
host commands, gestures, the main loop's tick, PIN entry, settings, power loss.

| component (file) | state | operations | what makes it correct |
|---|---|---|---|
| device state machine (`state_machine.c`) | device context (state, unlocked, wiped, counters), settings, PIN verifier; all in RAM | init, tick, tap, hold, try_unlock, set_pin, request_fill, request_save, apply_settings, set_pin_verifier, lock | flags and state agree; PIN attempts pay their delay; wipe not missed; idle device locks |
| action engine (`action_engine.c`) | pending request, armed button, last nonce, command clock; shares context and vault | handle_command, confirm_tap, confirm_hold, device_* operations, button, popup, PIN change | pending action stays true of the vault; output in a session only; no replay; gates respected; vault changes are reported |
| credential store (`vault.c`) | array of 32 entries | find, get, upsert, exists, next_id, wipe | behaves as a bounded map; keys unique |
| rate limiter (`rate_limiter.c`) | 16 slots with window start and count | init, allow, tick | bound on admissions in any window; honest waiting time; refusals end |
| browser checks, password policy, generator | none | validate, evaluate, generate | verdicts agree with their reference |
| storage backend (`storage_backend.c`) | two flash slots with generations | read_latest, write_atomic, wipe | latest record survives power loss |
| settings store, TOTP (`settings_store.c`, `totp.c`) | RAM cache, records in the two slots | save, load, wipe, add, delete | what is loaded is what was last saved; neither loses the other |
| USB session (`usb_session.c`) | challenge, authenticated, frame counter | start, authenticate, sign, verify, end | no frame accepted twice; both ends keep in step |
| crypto engine, ATECC608A (`crypto_engine.c`, `atecc608a_driver.c`) | 16 slots, provisioning flags of the engine and of the driver, AAD counter | init, provision, bind, encrypt, decrypt, derive, hash, sign | what was sealed can be opened; the two sets of flags agree where it matters |
| secure boot, FIDO2 (`secure_boot.c`, `fido2_authenticator.c`) | policy, version, credential and signature counter | init, set_policy, verify_manifest, create, assert | versions and counters never go back |
| command codec (`command_codec.c`) | none | encode, decode | what is decoded is what was encoded, where the framing can carry it |
| main loop, UI feedback, USB mass storage, HAL | boot order, connection edges, indication, command blocks | see the files | the boot ends; sessions follow the cable |

Interaction. `main.c` boots the parts in order and then loops over
`platform_hal_tick`, `usb_session_tick`, `state_machine_tick` and the touch
handlers. The action engine receives commands, calls the browser checks, the
policy, the rate limiter, the vault and the state machine, *and writes the device
context itself* (`action_engine.c:266, 328, 423, 441-442`). Everything else
shares state through the two flash slots (settings and TOTP) or the ATECC slots.

Hard behaviours: a request that stays pending while the session it was made in
ends; checks made in one handler and relied on in the next; two writers of the
device context; counters that wrap; a table that fills up; nonces consumed by
commands that are then refused; power loss in the middle of a flash write; a RAM
cache ahead of the flash. `PROJECT.json` lists them, each at its line, with the
properties that cover it or the reason none does.

## 2. Modules

| module | models |
|---|---|
| `StateMachine` | `state_machine.c`: context transformations as operators, one action per entry point |
| `PinGate` | what PIN entry promises, without prompts and timers |
| `StateMachineGate` | the state machine with a history variable (ticks served) and the refinement mapping to `PinGate` |
| `StateMachineProofs` | theorems about the two modules above |
| `AccountMap` | what the credential store promises: a bounded map |
| `Vault` | `vault.c`, with the mapping to `AccountMap` |
| `VaultProofs` | theorems: types, unique accounts, the map refinement |
| `RateLimiter` | `rate_limiter.c`, with a history of the admissions |
| `RateLimiterProofs` | theorems: the bound on admissions, the waiting time |
| `ActionEngine` | `action_engine.c`; extends `StateMachine`, instantiates `Vault` (`Store`) and `RateLimiter` (`Rate`) |
| `ActionEngineProofs` | theorems about the engine; extends `StateMachineProofs`, instantiates `VaultProofs` |
| `Register` | what the flash slots promise a reader: a record, an older one beneath it, writes that may tear |
| `StorageBackend` | `storage_backend.c` with flash programmed in steps, and the mapping to `Register` |
| `SettingsStore` | `settings_store.c`, the store of `totp.c` and the boot in `main.c`; extends `StorageBackend` |
| `FlashProofs` | theorems about the two: the slots under any caller, then under the calls of `main.c`, and what a load hands out |
| `UsbSession` | `usb_session.c` under the connection edges of `main.c`, over a cable that repeats, delays and loses frames |
| `SessionProofs` | theorems: frames counted, the challenge answered |
| `CryptoEngine` | `atecc608a_driver.c` and `crypto_engine.c` |
| `SecureElement` | `secure_boot.c` and `fido2_authenticator.c`; extends `CryptoEngine` |
| `SecureElementProofs` | theorems about both |
| `CommandCodec` | `command_codec.c` |
| `CodecProofs` | theorem: what comes back from its encoding |
| `MC...` | the instances TLC checks |

Operators marked *Mutant* in a comment are wrong variants of the definition that
follows them. They are used by no specification; each shows what mistake one of
the properties detects.

### StateMachine

`ctx` is `device_context_t` (the state `DEVICE_FIDO_PROMPT`, which nothing sets,
is left out), `settings` is `g_settings` reduced to the fields the state machine
and the engine read, `verifier` stands for `g_pin_verifier` and its flag, and
`halted` is set when `Error_Handler` is entered, which never returns. PINs are
split into well-formed and malformed ones; the verifier comparison is exact, as
hashing is assumed free of collisions. A record carries the verdicts of
`browser_validate_command` and `security_should_allow_save`. `AfterX` operators
are the effect of a function on a context; the action engine uses the same ones.

Two actions are narrower than the C signature because of who calls it.
`SetPinVerifier` happens once per boot (`action_engine_init`). `ApplySettings`
happens in a session, or with the limits that are already in force: these are
the calls of `action_engine_device_apply_settings` and `action_engine_popup_open`.
`PowerCycle` keeps nothing: the PIN verifier is provisioned anew.

### ActionEngine

The two handlers `action_engine_handle_command` and `action_engine_confirm_hold`
are operators (`Handle`, `ConfirmHold`) on a record of all the state they touch,
because the `device_*` operations call one after the other within one call. The
order of checks in `Handle` is that of the code: nonce, wiped, rate limit,
session, validation, dispatch. `ok` and `confirmed` are the outcomes of the
encryption and decryption, which depend on the secure element. `last_selected`,
timestamps and messages are left out: they are written and never read. The
password reuse check is left out because nothing installs a checker.

`EngineInit` is the state after `action_engine_init`; a power cycle returns to one
of these states, so it adds no behaviour and has no action. `Restart` is the other
way the tests restart: context and engine initialised again, RAM kept. `seen` is a
history variable: the nonces of all commands handled since then, refused ones included. The
undefined name `clear_pending` (`action_engine.c:76, 329`) is read as
`action_engine_clear_pending`.

### Vault and RateLimiter

An entry holds the password its ciphertext decrypts to. Entries are never
invalidated, so the array is a sequence. The rate limiter's table is a function
from the channels that have a slot; its clock and window starts are modulo
`TickModulus`, 2^32 in the code. Origins are those that fit their field; one that
fills it unterminated is a hazard listed without a property. `granted` is a
history variable: the ages, newest first, of the requests admitted less than one
window ago.

### StorageBackend and SettingsStore

A sector is what `is_slot_valid` makes of it: invalid, or a generation with a
record. The checksum in the header is computed over bytes that nobody initialises
and over itself, which cancels out, so whether a finished header is valid depends
on the padding of the build. `Seals` is the set of outcomes; with `{TRUE, FALSE}` a
write may report success and leave an invalid slot. The payload has no checksum:
between the header and the last payload word the slot is valid and `Torn`.
`storage_backend_debug_corrupt_latest` increments the checksum byte that cancels
out, so it does not invalidate the slot it means to corrupt. `storage_backend_read_latest`
asks for a whole sector in a struct of 272 bytes; the model is the read it means.

A flash operation is one action per word group (erase, length, checksum, payload;
for a wipe, one per sector), and a power cut or an error may come between any two.
Nothing else runs meanwhile: the firmware has one thread. `Register` is the atomic
promise: a write either has not begun, has torn the newest record or is whole, and
only wiping or rewriting brings an older record back.

`SettingsStore` adds the RAM cache, which is replaced before the flash write; the
result of the wipe, which `settings_store_wipe` ignores; the factory reset after it,
which a complete wipe prevents from being written; and the TOTP record. `totp_save`
writes to the same slots under the same schema version, so it hides the settings,
and cuts the store at its first zero byte, so it carries no accounts. `saved` is a
history variable: the settings given to a save, whether or not flash took them; so
`LoadsOnlySaved` is about foreign and torn records, and a load may run ahead of flash. `crypto` says
how the crypto engine answers in a power cycle; `BootEnds` says that
nothing else stops a boot, because the reset fills the cache even where it cannot
write. The boot starts after secure boot,
which as committed is called with null pointers and always halts (`main.c:151-165`).

### UsbSession

A challenge stands for the tick it was issued at, a frame for what its code is
computed from: payload, session id, counter. Every session has id 1 and starts at
counter 1, so a frame of an earlier session is accepted in a later one where its
counter fits; `FramesCounted` says what holds all the same. `Authenticate` compares with
the challenge in memory whether or not one was issued: before `usb_session_start` the
hash of the empty challenge is taken (`SessionUnchallenged`). `AnswersItsChallenge` says
what the main loop makes of it: starting a session for a host it has seen voids whatever
was answered before. A host replaced between two looks at the cable keeps the session of
the one before it, in the model as in the code; no property excludes it. The session functions
that main.c calls under other names are read as `usb_session_start` and
`usb_session_end`. Typing and the report queue are left out: the HAL function they
reach is a stub.

### CryptoEngine and SecureElement

A slot is what was written to it, and a read must name its exact length. Engine and
driver number the slots differently: the master key is in slot 0, while the driver
takes slot 7, the version counter, as the sign that it is ready. A ciphertext stands
for its key. Keys are provisioned through the write interface in any order, the first
firmware version once per power cycle (nothing in the firmware writes it, see
`WriteAteccSlot`). `crypto_engine_generate_ec_keypair` is called with four arguments
where two are declared and the signing call passes an address as a slot: neither
compiles, and the model takes the intended call with a nondeterministic outcome.
`Error_Handler` is `halted`; slots are RAM in the simulation, so a power cycle clears
them.

Seen on the way, without a run of their own: no length of the device secret serves
all callers (8, 12, 16 and 32 bytes are read from one slot of an exact length);
`crypto_engine_derive_pin_key` therefore never succeeds, though a test asserts that
it does (`tests/test_main.c:771`); the AAD counter restarts with each power cycle;
every FIDO2 credential has the same identifier; the policy's `min_allowed_version`
and the running version are never compared with a manifest.

### CommandCodec

A line is a sequence of symbols, one for each word the codec compares, numeral and
separator; other text is one symbol. `Symbols` names them all. Decoding is stated declaratively: a line is
accepted when each token is well formed, and the last token of a key gives the field
its value. Two types are compared as prefixes (`command_codec.c:34, 38` look at 16
characters). `Plain` excludes what the framing cannot carry: the separator in a
field, and a newline at the end of the last one. It is exact: `RoundTrip` says that plain
commands come back from their encoding and no others do. A text longer than its field is
cut, and a nonce saturates where `long` has 32 bits; both are accepted; for the
text see `CodecOversized`.

## 3. Runs

| run | question | size |
|---|---|---|
| `StateMachine` | six invariants, refinement of `PinGate`, three liveness properties | 1 104 states |
| `Vault` | is the array a bounded map? | 27 649 states |
| `RateLimiter` | admissions in any window, waiting time, end of refusals | 44 816 states |
| `Engine` | fills, saves and selections against locks, lockouts, gates, restarts, colliding names, a full vault and repeated nonces | 386 284 states |
| `EngineLocked` | is a credential output only in a session? (no: a hold types a fill left pending) | violation |
| `Settings` | slots as a register, settings loaded, end and success of the boot, under cuts and errors | 14 249 states |
| `SettingsRecovery` | does a boot recover the latest settings record? (no: a torn slot hides it) | violation |
| `Session` | frames accepted once, challenges answered, end of a session | 164 144 states |
| `SessionUnchallenged` | is anybody authenticated only after `usb_session_start`? (no: by the empty challenge) | violation |
| `SecureElement` | sealed passwords, versions and counts over one element | 398 000 states |
| `Codec` | which commands come back from their encoding | 18 902 states |
| `CodecOversized` | are lines with an oversized field rejected? (no: the field is cut) | violation |

Each violation is a disagreement between the code and a sentence of the docs, quoted in
`PROJECT.json` under `findings`. More were met and have no run:

* under the default settings ten failed PINs do not wipe the device, as
  `tests/test_main.c:79-86` asserts: `wipe_on_lockout` is off (`state_machine.c:24`);
* the tap path does not look at the manual gate (`action_engine.c:354`), against
  `docs/SECURITY_MODEL.md:31`;
* a hold that types a pending fill ends a lockout (`action_engine.c:423`, the same cause
  as `EngineLocked`);
* a username longer than the entry's field is cut, and may then be another account's
  (`action_engine.c:58`), against `docs/PROTOCOL_SPEC.md:41`;
* after a save whose flash write failed, a load returns the new settings from the cache
  (`settings_store.c:167`);
* a nonce that overflows is read as the largest one where `long` has 32 bits, though
  the test at `command_codec.c:86` is commented as refusing it;
* the limiter's slots and its clock, which counts commands, never free a refused
  origin (`rate_limiter.c:46`, `action_engine.c:124`).

### Bounds

* PIN limits, lockout delays and the wipe threshold have their real values in the
  state machine's runs. `MaxFailures = 12` passes the threshold of 10, so the wipe,
  the lockouts beyond it and their growing delays all occur. Autolock takes 2 or
  3 ticks: the count only matters relative to it.
* The engine's runs use a limit of 1, a threshold of 2 and delays of 1 tick:
  the engine never looks at these values, only at the states they lead to.
  `MaxFailures` is 2, the threshold, so the wipe occurs.
* `MaxId` bounds the saves of the engine's runs: with three ids and two entries a
  full vault, updates and the reuse of ids after an update occur. Two entries
  are enough for the uniqueness properties, which relate two. Long usernames come in a
  pair that is equal once cut. There are four accounts on two sites, and requests
  that name none. One slot of the limiter is enough for it to refuse by rate and for
  want of a slot; a restart frees it for another site.
* The rate limiter has 3 channels for 2 slots, so the table fills; a window of 3
  and a modulus of 8 let the clock wrap in every phase of a window. In the engine's
  runs window and allowance are 1: a second command at the same clock is refused.
* `Vault` has 4 accounts for 3 entries and 5 ids, so refusals and the end of the
  id range occur.
* `Settings` has generations up to the bound that lets every order of the two slots
  and a reset after each cut occur; writes stop one short of it, so that the boot can
  always write. The wrap of a 32-bit generation is beyond it. Two values of each
  setting tell records apart; one TOTP account separates a store that is saved from
  one that is refused. Both outcomes of the checksum are taken in `Settings`; in
  `SettingsRecovery` headers are always valid, the case most in favour of the code.
* `Session` has two ticks, so that a challenge may come back, payloads of 1, 16 and
  17 bytes, of which the last does not fit the scratch buffer, and two frames a
  session, so that one of an earlier session may be accepted in either place.
* `SecureElement` has two keys and two relying parties (symmetric), the three lengths
  of secrets the engine asks for, three versions, one password that fits the buffer
  and one that does not. The AAD counter and the signature counter stop at 2.
* `Codec` has fields of two symbols with separators, keywords and newlines in them,
  and lines of three fields; `MaxFrame` exceeds every encoding, as 512 does in the
  code, and repeated fields pass it. The largest nonce and the largest `long` are 1, and
  numerals go up to 2, the one that saturates.

Deadlock is checked in every run but the two of `SettingsStore`, where the device
stops by itself when its generations are used up.

### Fairness

The state machine assumes `WF(Tick)`, because `main` calls `state_machine_tick` in
every iteration of its loop (`main.c:228`). No owner or host action is fair: nobody
is obliged to touch the device or to send a command. `RateLimiter` assumes that its
caller's clock moves on. `IdleDeviceLocks` says what happens once only time passes;
gestures legitimately postpone the autolock. `SettingsStore` assumes weak fairness of
the boot and of a flash operation under way: the processor runs while there is power.
`UsbSession` assumes it of the main loop's look at the cable (`main.c:240-253`).
Hosts, owners, power cuts and errors are never fair.

## 4. Proofs

Every theorem holds for all values of the constants that satisfy the named
assumptions of its module, and TLC evaluates those assumptions in the runs. They
say what the code fixes: limits, capacities, windows and thresholds are positive,
the defaults belong to their ranges, inputs are of their types, and stand-ins such
as `None` are not values. Each safety theorem has the same three parts: the initial
states satisfy an inductive invariant, every step preserves it, and it implies the
property. TLC checked each inductive invariant on the instance of its run before it was proved.

### State machine (`StateMachineProofs`)

* Type correctness is inductive by itself: each transformation of the context is
  shown to preserve its type in a lemma.
* `SessionConsistent` needs the types. The delay after a failure is positive
  because the base delay is; that is why a countdown runs exactly in a lockout.
* `SessionClean` needs `SessionConsistent`: a step that opens a session is a
  correct PIN, and the other steps that change the counters close it.
* `WipeNotMissed` needs `SessionClean`: the policy can only change in a session,
  where the failure count is 0, or to itself, so the count is below the new
  threshold.
* `DelayAccounted` needs all of these and the history variable.
* `HaltsOnlyUnprovisioned` needs the context to be untouched while no verifier
  is set.
* `Implements`: initial states map to initial states and every step to a step of
  `PinGate` or a stutter, under the conjunction of the invariants. A PIN is examined
  only with the countdown at 0, and `DelayAccounted` turns that into "the delay
  owed has been served".

### Credential store (`VaultProofs`)

`VaultInv` is `TypeOK` with `OneEntryPerAccount`: an upsert looks for the first
entry of the account, and only if there is at most one does overwriting it leave
the map as `AccountMap` says. The searches are a least and a largest element of a
set of indices; the lemmas on them rest on a least-number principle for sets of naturals.
`ArrayImplementsMap` maps every save to a put of one account, a refusal or nothing.

### Rate limiter (`RateLimiterProofs`)

`SlidingBound` is not inductive. `RateInv` adds, besides the shape of the table,
that the recorded ages rise and stay below one window (`GrantedOK`), and that the
current window covers them (`WindowsCover`): a channel has at most its count and one
allowance of recent admissions, and those beyond the count are at least as old as the
window. So when the window restarts, what is left of the previous one is at most an
allowance. The clock arithmetic is modulo an arbitrary `TickModulus`; that a window is
shorter than the range of the clock is what makes elapsed time add up. `WaitIsExact`
is about the operators alone: it holds in every typed state.

### Action engine (`ActionEngineProofs`)

The handlers are operators on the record of all they touch, and the lemmas say what
each makes of a *good world*: an array with unique accounts and ids, a limiter table
of its type, a pending action that is true of the array (`PendingFresh`), and a context
that is consistent in a session and whenever something is pending. It may be
inconsistent otherwise, after a hold on a device that has locked (the run
`EngineLocked`), and the proofs show that this never reaches a session and never
costs a wipe. `EngineInv` adds that an armed button was pressed since the fill
was queued, that no nonce that came with a command exceeds the last one consumed,
and `WipeNotMissed`, for which the lemmas of `StateMachineProofs` are not enough: the
engine writes the state behind the state machine.

The ids stay distinct because the next id is above all in use; `EngineAssumption`
bounds the ids handed out by `IdLimit`, so that exhausting the 2^32 ids, a hazard of its
own, is excluded. `NoncesAcceptedOnce`, `ChangesAreReported`, `TapsTypeInSession` and
`PressesNotCarriedOver` are action properties proved from the same invariant.

`EngineDrivesStore` shows that every step of the engine is, for the vault, a step of
`Vault`'s specification; with `ArrayImplementsMap` it gives `EngineImplementsMap`: through
everything the engine does, the vault is a bounded map. Neither has a run, for want of
time over the engine's states; TLC checks the refinement of the vault alone.

### Flash slots and settings (`FlashProofs`)

`DistinctGenerations` needs to know what a write under way is about to program. `StorageInv` adds that its
generation is above the other slot's (`JobNewest`), what its sector holds in each
stage of the programming (`JobStages`), and that a wipe has erased the first sector when it comes
to the second (`WipeOrder`). The refinement of `Register` rests on it: torn or whole,
the slot being programmed is the newest as soon as its header is valid, and the other
slot is the record beneath it.

`SettingsInv` adds the caller: `main.c` starts a call only when flash is done, a wipe
runs with an empty cache, and settings in RAM, in flash or on the way there were given
to a save since the last complete wipe. The register theorems then hold under the real
calls, and `OnlySavedLoaded` follows. `BootsWithCrypto`, the safety half of `BootEnds`, needs an invariant of its own,
`Reloadable`: from the reset to the second load the cache holds settings, or the engine
does not work.

### USB session (`SessionProofs`)

`FramesCounted` compares a counter with the size of a history; it is inductive once
`CounterAhead` says that in an open session the expected counter is one ahead of the
frames accepted, and that all of them were signed under a smaller one. None can then be
accepted again, although frames of earlier sessions can.

`ChallengeAnswered` needs `ChallengeStands`: a challenge is held exactly while the loop last
saw a host. Before that the session may be authenticated with nothing issued; the start of
a session clears this, and afterwards an answer is taken only for the challenge held.

### Secure element (`SecureElementProofs`)

Engine and driver keep separate flags. `FlagsTrue` says that the engine's flags tell the truth about
the driver and the slots, and `SealedReady` that what has encrypted stays able to decrypt;
`OpensWhatItSealed` follows. `NoRollback` needs
`CounterReached`: the version counter is at or above the last version accepted.
`CountsRise` is inductive with the types.

### Command codec (`CodecProofs`)

The codec is stated over positions in the line, so no induction is needed. A line made
of a token, a separator and a rest has the first position and the shifted starts of the
rest as its starts, and their tokens are that token and the tokens of the rest. `Reads` says that
the tokens of a line are the pairs of a set of keys, each once; putting a pair in front
extends it by a key, and five steps reach the encoding of a command. A pair is split at its first
equals sign, so whatever its value holds survives; `Plain` is used for the separator and
for the newline at the end, and nowhere else. The converse (`OnlyPlainDecodes`): a field of
a decoded command is part of a token, which holds no separator, and trimming an encoding
trims the password that ends it. What is decoded from any line has fields that fit, so its
own encoding fits a frame. The assumptions: numerals differ and hold no separator, a `long`
holds a nonce, and `MaxFrame` exceeds every encoding.

### Only model-checked

Liveness (`LockoutEnds`, `IdleDeviceLocks`, `ServesDelay`, `RefusalEnds`, `BootEnds`,
`SessionEnds`) is beyond the prover. The four runs that expect a violation are
counterexamples, found by TLC.

## 5. Not modelled, and the plan

Every safety property of the runs has its theorem. What is left is to strengthen the
properties: theorems that join components where the code joins them, as `EngineImplementsMap`
does for engine and vault; the admissions the engine grants through the rate limiter are a
candidate. None of the modules declares a RECURSIVE operator.

Not modelled, and why:

* `usb_msc.c`: `process_cbw` is static and called by nothing, the file has a
  duplicate case label and does not compile, the loop that fills the FAT underflows
  when the image is not a multiple of the sector, and the image is empty. There is no
  behaviour to be faithful to.
* `pcd_hal.c`, `platform_hal.c`: endpoint callbacks, descriptors and GPIO; the typing
  stub always succeeds. Touch is a level: every touch is reported as held
  (`platform_hal.c:126-133`), so one press repeats the hold handler every
  millisecond; see the hazard at `main.c:228`.
* `ui_feedback.c`: a table without state, called with a null action.
* Base32, HMAC, SHA-1 and the TOTP codes: arithmetic on data the properties do not
  tell apart. The password score, the generator's alphabet and the string predicates
  of the browser checks are verdicts of the engine's inputs for the same reason.
* `main.c`: functions it calls that are defined nowhere (`state_machine_on_usb_connect`,
  `state_machine_post_credential_action` and their like).
* Cryptographic computations (outcomes only), vendor HAL calls, the companion page,
  the hardware files, and the stale copies of `main.c` and `platform_hal.c` at the
  root, which the build does not use.
