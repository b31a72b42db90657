---------------------------- MODULE ActionEngine ----------------------------
(***************************************************************************)
(* The action engine of firmware/src/action_engine.c: commands of the host *)
(* and of the device's own menu queue a pending action, a tap or a hold    *)
(* confirms it.  It composes the state machine, the credential store and   *)
(* the rate limiter, and shares the device context with the main loop's    *)
(* tick.                                                                   *)
(*                                                                         *)
(* The device operations are a command with nonce 0 followed at once by a  *)
(* hold, so the two handlers are operators on a record of the state they   *)
(* touch (a world); each action applies one of them, or one after the      *)
(* other.  Reads of the settings are those of state_machine_get_settings.  *)
(*                                                                         *)
(* Left out: the wording of results; timestamps and last_selected, which   *)
(* are written and never read; password reuse, whose checker nothing in    *)
(* the sources installs.                                                   *)
(***************************************************************************)
EXTENDS StateMachine, Sequences

CONSTANTS
    NoOrigin,           \* the empty origin
    TrustedOrigins,     \* not browser_origin_is_suspicious
    Usernames, NoUsername,
    RejectedUsernames,  \* one character, or text no field may hold
    Truncate,           \* what strncpy leaves of a username in an entry
    Passwords, NoPassword,
    RejectedPasswords,  \* text no field may hold: URL-like
    ShortPasswords,     \* shorter than PASSWORD_MIN_LENGTH
    CommonPasswords,    \* contains_common_password
    Generated,          \* password_generate, a function of the origin alone
    VaultCapacity, IdLimit,
    MaxSlots, Window, MaxAttempts, TickModulus,
    DefaultPin,         \* "12345", what action_engine_init provisions
    Commands,           \* the commands a host may send
    Logins,             \* what the owner may save from the device's own menu
    Outcomes,           \* whether an encryption or decryption may succeed, or fail
    MaxId               \* bound: the largest id given out

Kinds == {"NONE", "FILL", "SAVE", "GENERATE", "SELECT"}

CommandType ==
    [type : Kinds, nonce : Nat, origin : Origins, username : Usernames, password : Passwords]

ASSUME EngineAssumption ==
    /\ NoOrigin \in Origins /\ NoOrigin \notin TrustedOrigins /\ TrustedOrigins \subseteq Origins
    /\ NoUsername \in Usernames /\ NoPassword \in Passwords
    /\ RejectedUsernames \subseteq Usernames
    /\ RejectedPasswords \cup ShortPasswords \cup CommonPasswords \subseteq Passwords
    /\ Truncate \in [Usernames -> Usernames]
    /\ Generated \in [Origins -> Passwords \ ShortPasswords]
    /\ DefaultPin \in Pins
    /\ Commands \subseteq CommandType
    /\ Logins \subseteq Origins \X Usernames \X Passwords
    /\ Outcomes \subseteq BOOLEAN
    /\ VaultCapacity \in Nat \ {0} /\ IdLimit \in Nat \ {0}
    /\ {MaxSlots, Window, MaxAttempts} \subseteq Nat \ {0}
    /\ TickModulus \in Nat /\ Window < TickModulus
    /\ MaxId \in Nat /\ MaxId <= IdLimit

VARIABLES
    vault,       \* engine->vault
    pending,     \* engine->pending
    armed,       \* engine->manual_popup_armed
    limiter,     \* g_command_limiter
    clock,       \* g_action_clock: it counts commands and saves, not time
    last_nonce,  \* g_last_nonce
    out,         \* the ActionResult of the last call
    seen,        \* history: nonces of the host commands handled since init
    pressed      \* history: the manual button was pressed since the last queueing

engineVars == <<vault, pending, armed, limiter, clock, last_nonce, out, seen, pressed>>

allVars == <<vars, engineVars>>

Store == INSTANCE Vault

Rate == INSTANCE RateLimiter
          WITH Channels <- Origins, table <- limiter, now <- clock, granted <- << >>

-----------------------------------------------------------------------------
(***************************************************************************)
(* Results and pending actions.                                            *)
(***************************************************************************)

NoCredential ==
    [id |-> 0, origin |-> NoOrigin, username |-> NoUsername, password |-> NoPassword]

Silent ==
    [allowed |-> FALSE, performed |-> FALSE, typed |-> NoCredential, change |-> "none"]

NoPending ==
    [kind |-> "NONE", credential |-> NoCredential, origin |-> NoOrigin,
     override_with_hold |-> FALSE, pending_index |-> 0]

World ==
    [ctx |-> ctx, vault |-> vault, pending |-> pending, armed |-> armed,
     limiter |-> limiter, clock |-> clock, nonce |-> last_nonce, out |-> Silent]

Become(w) ==
    /\ ctx' = w.ctx
    /\ vault' = w.vault
    /\ pending' = w.pending
    /\ armed' = w.armed
    /\ limiter' = w.limiter
    /\ clock' = w.clock
    /\ last_nonce' = w.nonce
    /\ out' = w.out

ClearPending(w) == [w EXCEPT !.pending = NoPending]

\* The clock is unsigned and wraps.
Ticked(w) == [w EXCEPT !.clock = (@ + 1) % TickModulus]

\* Mutant: a press of the manual button outlives the request it was meant for.
QueueKeepsPress(w, kind, entry, cmd, override) ==
    [w EXCEPT !.pending = [kind |-> kind, credential |-> entry, origin |-> cmd.origin,
                           override_with_hold |-> override, pending_index |-> 0],
              !.out.allowed = TRUE]

\* A request that replaces whatever was pending and drops an earlier press of
\* the manual button.
Queue(w, kind, entry, cmd, override) ==
    [w EXCEPT !.pending = [kind |-> kind, credential |-> entry, origin |-> cmd.origin,
                           override_with_hold |-> override, pending_index |-> 0],
              !.armed = FALSE,
              !.out.allowed = TRUE]

-----------------------------------------------------------------------------
(***************************************************************************)
(* Commands.  `ok' says whether the encryption or decryption the handler   *)
(* performs succeeds: it depends on the secure element.                    *)
(***************************************************************************)

CleanText(username, password) ==
    username \notin RejectedUsernames /\ password \notin RejectedPasswords

\* browser_validate_command.
Valid(cmd) ==
    /\ cmd.type # "NONE"
    /\ cmd.type = "SAVE" => cmd.username # NoUsername /\ cmd.password # NoPassword
    /\ cmd.type # "SELECT" => cmd.origin \in TrustedOrigins
    /\ CleanText(cmd.username, cmd.password)

\* The record load_record_plaintext builds of an entry, as request_fill sees it:
\* it validates the origin with the stored username and password.
Loaded(entry) ==
    [origin |-> entry.origin,
     safe |-> entry.origin \in TrustedOrigins /\ CleanText(entry.username, entry.password),
     requires_touch |-> TRUE]

HandleFill(w, cmd, ok) ==
    LET entry == Store!FindByOrigin(w.vault, cmd.origin)
    IN  IF /\ Store!HasOrigin(w.vault, cmd.origin)
           /\ ok
           /\ FillAllowed(w.ctx, Loaded(entry), cmd.origin)
        THEN Queue([w EXCEPT !.ctx = AfterRequestFill(@, settings, Loaded(entry))],
                   "FILL", entry, cmd, FALSE)
        ELSE w

\* stash_record, and the id the engine gives it.
Stashed(w, cmd, password) ==
    [id |-> Store!NextId(w.vault), origin |-> cmd.origin,
     username |-> Truncate[cmd.username], password |-> password]

HandleSave(w, cmd, ok) ==
    IF cmd.password \notin ShortPasswords /\ ok
    THEN Queue(Ticked(w), "SAVE", Stashed(w, cmd, cmd.password), cmd,
               cmd.password \in CommonPasswords)
    ELSE Ticked(w)

HandleGenerate(w, cmd, ok) ==
    IF ok
    THEN Queue(Ticked(w), "GENERATE", Stashed(w, cmd, Generated[cmd.origin]), cmd, FALSE)
    ELSE Ticked(w)

\* The rest of an earlier pending request is not cleared, and a press of the
\* manual button is kept.
HandleSelect(w) ==
    IF Len(w.vault) = 0 THEN w
    ELSE [w EXCEPT !.pending.kind = "SELECT",
                   !.pending.pending_index =
                       (w.ctx.selected_credential_idx + 1) % Len(w.vault),
                   !.ctx.state = "SELECT_CREDENTIAL",
                   !.out.allowed = TRUE]

Dispatch(w, cmd, ok) ==
    CASE cmd.type = "FILL" -> HandleFill(w, cmd, ok)
      [] cmd.type = "SAVE" -> HandleSave(w, cmd, ok)
      [] cmd.type = "GENERATE" -> HandleGenerate(w, cmd, ok)
      [] cmd.type = "SELECT" -> HandleSelect(w)

Replayed(w, cmd) == cmd.nonce # 0 /\ cmd.nonce <= w.nonce

\* Mutant: a nonce is used up only by a command that finds the device unlocked.
ConsumedUnlocked(w, cmd) ==
    [w EXCEPT !.nonce = IF cmd.nonce # 0 /\ w.ctx.unlocked THEN cmd.nonce ELSE @]

Consumed(w, cmd) == [w EXCEPT !.nonce = IF cmd.nonce # 0 THEN cmd.nonce ELSE @]

\* The checks come in this order: a command refused by a later one has used up
\* its nonce and, unless the device is wiped, counts against its origin.
Handle(w, cmd, ok) ==
    LET fresh == Consumed(w, cmd)
        counted == Ticked([fresh EXCEPT
                             !.limiter = Rate!AfterAllow(@, cmd.origin, w.clock)])
    IN  IF Replayed(w, cmd) THEN w
        ELSE IF w.ctx.wiped THEN fresh
        ELSE IF /\ Rate!Admits(w.limiter, cmd.origin, w.clock)
                /\ w.ctx.unlocked /\ w.ctx.state # "LOCKED_OUT"
                /\ Valid(cmd)
        THEN Dispatch(counted, cmd, ok)
        ELSE counted

-----------------------------------------------------------------------------
(***************************************************************************)
(* Confirmation.                                                           *)
(***************************************************************************)

Typed(w) ==
    ClearPending([w EXCEPT !.out.allowed = TRUE, !.out.performed = TRUE,
                           !.out.typed = w.pending.credential])

\* Mutant: the tap does not look at the state it led to.
TapFillAnyState(w, ok) ==
    IF w.ctx.state = "CONFIRM_TYPE" THEN [w EXCEPT !.out.allowed = TRUE]
    ELSE IF ok THEN Typed(w) ELSE ClearPending(w)

TapFill(w, ok) ==
    IF w.ctx.state = "CONFIRM_TYPE" THEN [w EXCEPT !.out.allowed = TRUE]
    ELSE IF w.ctx.state = "UNLOCKED" /\ ok THEN Typed(w)
    ELSE ClearPending(w)

ConfirmTap(w, ok) ==
    LET touched == [w EXCEPT !.ctx = AfterTouchTap(@)]
    IN  CASE w.pending.kind = "NONE" -> w
          [] w.pending.kind = "FILL" -> TapFill(touched, ok)
          [] OTHER -> [touched EXCEPT !.out.allowed = TRUE]

\* A press of the manual button is asked for, and used up by the next hold.
ManualGate(s) == ~s.auto_popup_enabled /\ s.manual_popup_requires_touch

\* Mutant: the fill stays pending after it was typed.
HoldFillKeepsPending(w, ok) ==
    IF ManualGate(settings) /\ ~w.armed THEN w
    ELSE [w EXCEPT !.ctx.state = "UNLOCKED", !.out.allowed = TRUE,
                   !.out.typed = w.pending.credential]

HoldFill(w, ok) ==
    LET passed == [w EXCEPT !.armed = @ /\ ~ManualGate(settings)]
    IN  IF ManualGate(settings) /\ ~w.armed THEN w
        ELSE IF ok THEN Typed([passed EXCEPT !.ctx.state = "UNLOCKED"])
        ELSE ClearPending(passed)

\* Mutants: the save stays pending; whether it updates is asked once it is done.
HoldSaveKeepsPending(w, ok) ==
    IF ~ok \/ ~Store!Storable(w.vault, w.pending.credential) THEN w
    ELSE [w EXCEPT !.vault = Store!Upsert(@, w.pending.credential),
                   !.ctx.state = "UNLOCKED",
                   !.out.allowed = TRUE, !.out.performed = TRUE,
                   !.out.change = IF Store!Exists(w.vault, w.pending.credential)
                                  THEN "updated" ELSE "created"]

HoldSaveAsksLate(w, ok) ==
    IF ~ok \/ ~Store!Storable(w.vault, w.pending.credential) THEN w
    ELSE LET stored == Store!Upsert(w.vault, w.pending.credential)
         IN  ClearPending([w EXCEPT !.vault = stored,
                                    !.ctx.state = "UNLOCKED",
                                    !.out.allowed = TRUE, !.out.performed = TRUE,
                                    !.out.change =
                                        IF Store!Exists(stored, w.pending.credential)
                                        THEN "updated" ELSE "created"])

\* commit_pending_save, always called with hold: the override is then granted.
HoldSave(w, ok) ==
    LET entry == w.pending.credential
        change == IF Store!Exists(w.vault, entry) THEN "updated" ELSE "created"
    IN  IF ~ok \/ ~Store!Storable(w.vault, entry) THEN w
        ELSE ClearPending([w EXCEPT !.vault = Store!Upsert(@, entry),
                                    !.ctx.state = "UNLOCKED",
                                    !.out.allowed = TRUE, !.out.performed = TRUE,
                                    !.out.change = change])

HoldSelect(w) ==
    IF ~Store!HasIndex(w.vault, w.pending.pending_index) THEN ClearPending(w)
    ELSE ClearPending([w EXCEPT !.ctx.selected_credential_idx = w.pending.pending_index,
                                !.ctx.state = "UNLOCKED",
                                !.out.allowed = TRUE, !.out.performed = TRUE])

ConfirmHold(w, ok) ==
    LET touched == [w EXCEPT !.ctx = AfterTouchHold(@), !.out = Silent]
    IN  CASE w.pending.kind = "NONE" -> [w EXCEPT !.out = Silent]
          [] w.pending.kind = "FILL" -> HoldFill(touched, ok)
          [] w.pending.kind = "SELECT" -> HoldSelect(touched)
          [] OTHER -> HoldSave(touched, ok)

\* A device operation: the command and, if it was accepted, a hold.
AtOnce(w, cmd, ok, confirmed) ==
    LET handled == Handle(w, cmd, ok)
    IN  IF handled.out.allowed THEN ConfirmHold(handled, confirmed) ELSE handled

-----------------------------------------------------------------------------
(***************************************************************************)
(* Actions.                                                                *)
(***************************************************************************)

\* action_engine_init on a context just initialised, an empty vault and the
\* provisioned default PIN; a production build halts there.
EngineInit ==
    /\ ctx = InitialContext
    /\ settings \in BootSettings
    /\ verifier = IF Production THEN NoVerifier ELSE DefaultPin
    /\ halted = Production
    /\ vault = << >>
    /\ pending = NoPending /\ armed = FALSE
    /\ limiter = Rate!EmptyTable
    /\ clock = 1 /\ last_nonce = 0
    /\ out = Silent
    /\ seen = {} /\ pressed = FALSE

\* A restart that keeps the RAM, as the tests do it: the context and the engine
\* are initialised again; settings, vault, PIN and clock stay.
Restart ==
    /\ ~halted
    /\ ctx' = InitialContext
    /\ pending' = NoPending /\ armed' = FALSE
    /\ limiter' = Rate!EmptyTable
    /\ last_nonce' = 0
    /\ out' = Silent
    /\ seen' = {} /\ pressed' = FALSE
    /\ UNCHANGED <<settings, verifier, halted, vault, clock>>

EngineTick ==
    /\ Tick
    /\ out' = Silent
    /\ UNCHANGED <<vault, pending, armed, limiter, clock, last_nonce, seen, pressed>>

UnlockWithPin(pin) ==
    /\ TryUnlock(pin)
    /\ out' = Silent
    /\ UNCHANGED <<vault, pending, armed, limiter, clock, last_nonce, seen, pressed>>

TryChangePin(old, new) ==
    /\ SetPin(old, new)
    /\ out' = Silent
    /\ UNCHANGED <<vault, pending, armed, limiter, clock, last_nonce, seen, pressed>>

Running == ~halted /\ Store!NextId(vault) \in 1..MaxId

HandleCommand(cmd, ok) ==
    /\ Running
    /\ Become(Handle(World, cmd, ok))
    /\ seen' = seen \cup ({cmd.nonce} \ {0})
    /\ pressed' = (pressed /\ ~(out'.allowed /\ cmd.type # "SELECT"))
    /\ UNCHANGED <<settings, verifier, halted>>

Tap(ok) ==
    /\ ~halted
    /\ Become(ConfirmTap(World, ok))
    /\ UNCHANGED <<settings, verifier, halted, seen, pressed>>

Hold(ok) ==
    /\ ~halted
    /\ Become(ConfirmHold(World, ok))
    /\ UNCHANGED <<settings, verifier, halted, seen, pressed>>

ArmManualPopup ==
    /\ ~halted
    /\ armed' = TRUE /\ pressed' = TRUE
    /\ out' = Silent
    /\ UNCHANGED <<vars, vault, pending, limiter, clock, last_nonce, seen>>

DeviceOperation(cmd, ok, confirmed) ==
    /\ Running
    /\ Become(AtOnce(World, cmd, ok, confirmed))
    /\ pressed' = (pressed /\ (cmd.type = "SELECT" \/ ~Handle(World, cmd, ok).out.allowed))
    /\ UNCHANGED <<settings, verifier, halted, seen>>

\* action_engine_device_save_credential and _modify_password.
DeviceSave(origin, username, password, ok, confirmed) ==
    DeviceOperation([type |-> "SAVE", nonce |-> 0, origin |-> origin,
                     username |-> username, password |-> password], ok, confirmed)

DeviceFill(origin, ok, confirmed) ==
    DeviceOperation([type |-> "FILL", nonce |-> 0, origin |-> origin,
                     username |-> NoUsername, password |-> NoPassword], ok, confirmed)

DeviceGenerate(origin, username, ok, confirmed) ==
    DeviceOperation([type |-> "GENERATE", nonce |-> 0, origin |-> origin,
                     username |-> username, password |-> NoPassword], ok, confirmed)

DeviceSelectNext(ok, confirmed) ==
    DeviceOperation([type |-> "SELECT", nonce |-> 0, origin |-> NoOrigin,
                     username |-> NoUsername, password |-> NoPassword], ok, confirmed)

\* action_engine_popup_open, _device_open_settings and _button_hold: no check
\* of the device's state comes first.
PopupOpen ==
    /\ ~halted
    /\ settings' = Normalise(OpenGates(settings))
    /\ out' = [Silent EXCEPT !.allowed = TRUE, !.performed = TRUE]
    /\ UNCHANGED <<ctx, verifier, halted, vault, pending, armed, limiter, clock, last_nonce,
                   seen, pressed>>

ButtonPress(origin, ok, confirmed) ==
    IF origin # NoOrigin /\ Store!HasOrigin(vault, origin)
    THEN DeviceFill(origin, ok, confirmed)
    ELSE PopupOpen

\* Mutant: the owner's settings are accepted from a locked device.
DeviceApplySettingsLocked(s) ==
    /\ ~halted
    /\ settings' = Normalise(OpenGates(s))
    /\ out' = [Silent EXCEPT !.allowed = TRUE, !.performed = TRUE]
    /\ UNCHANGED <<ctx, verifier, halted, vault, pending, armed, limiter, clock, last_nonce,
                   seen, pressed>>

DeviceApplySettings(s) ==
    /\ ~halted
    /\ MayRequest(ctx)
    /\ settings' = Normalise(OpenGates(s))
    /\ out' = [Silent EXCEPT !.allowed = TRUE, !.performed = TRUE]
    /\ UNCHANGED <<ctx, verifier, halted, vault, pending, armed, limiter, clock, last_nonce,
                   seen, pressed>>

EngineNext ==
    \/ Restart
    \/ EngineTick
    \/ \E pin \in Pins \cup MalformedPins : UnlockWithPin(pin)
    \/ \E old, new \in Pins \cup MalformedPins : TryChangePin(old, new)
    \/ \E cmd \in Commands, ok \in Outcomes : HandleCommand(cmd, ok)
    \/ \E ok \in Outcomes : Tap(ok)
    \/ \E ok \in Outcomes : Hold(ok)
    \/ ArmManualPopup
    \/ \E login \in Logins, ok, confirmed \in Outcomes :
          DeviceSave(login[1], login[2], login[3], ok, confirmed)
    \/ \E origin \in Origins, ok, confirmed \in Outcomes :
          \/ DeviceFill(origin, ok, confirmed)
          \/ DeviceGenerate(origin, NoUsername, ok, confirmed)
          \/ ButtonPress(origin, ok, confirmed)
    \/ \E ok, confirmed \in Outcomes : DeviceSelectNext(ok, confirmed)
    \/ PopupOpen
    \/ \E s \in SettingsInputs : DeviceApplySettings(s)

EngineSpec == EngineInit /\ [][EngineNext]_allVars

-----------------------------------------------------------------------------
(***************************************************************************)
(* Properties.                                                             *)
(***************************************************************************)

Credentials ==
    [id : Nat, origin : Origins, username : Usernames, password : Passwords]

EngineTypeOK ==
    /\ TypeOK
    /\ Store!TypeOK
    /\ Rate!TypeOK
    /\ pending \in [kind : Kinds, credential : Credentials, origin : Origins,
                    override_with_hold : BOOLEAN, pending_index : Nat]
    /\ armed \in BOOLEAN
    /\ last_nonce \in Nat
    /\ out \in [allowed : BOOLEAN, performed : BOOLEAN, typed : Credentials,
                change : {"none", "created", "updated"}]

\* What a pending action remembers is still true of the vault when it is
\* confirmed, however many commands, locks, unlocks and restarts lie between: a
\* fill's credential is the one the vault holds for the origin it was requested
\* for, a save's id is still free and next, a selection is still in range.
PendingFresh ==
    LET entry == pending.credential
    IN  /\ pending.kind = "FILL" =>
             /\ Store!HasOrigin(vault, pending.origin)
             /\ entry = Store!FindByOrigin(vault, pending.origin)
        /\ pending.kind \in {"SAVE", "GENERATE"} =>
             entry.origin = pending.origin /\ entry.id = Store!NextId(vault)
        /\ pending.kind = "SELECT" => Store!HasIndex(vault, pending.pending_index)

\* No account has two entries and no two entries share an id, across saves,
\* updates and generated passwords from the host and from the device.
VaultKeys == Store!OneEntryPerAccount /\ Store!IdsUnique

\* While an action is pending the engine has not touched the state behind the
\* state machine's back: flags, state and countdown agree.  A tap relies on it,
\* since it looks at the state alone.
PendingConsistent == pending.kind # "NONE" => SessionConsistent

\* A tap never types outside a session: the lock, by whatever cause, takes the
\* prompt away and the tap then drops the pending fill.
TapTypesUnlocked ==
    [][\A ok \in Outcomes : out'.typed # NoCredential /\ Tap(ok) => ctx.unlocked]_allVars

\* From one init to the next a nonce serves for one command only, whatever came
\* of it: a retry of a refused command is refused even where the command itself
\* would now be acceptable, and so is a replay of an accepted one.
AcceptedOnce ==
    [][\A cmd \in Commands, ok \in Outcomes :
          out'.allowed /\ cmd.nonce \in seen \ {0} => ~HandleCommand(cmd, ok)]_allVars

\* The vault changes only in a step whose result reports it, and as reported:
\* one new entry at the end, or the entry of one account replaced.
ChangesReported ==
    [][CASE out'.change = "created" ->
              /\ Len(vault') = Len(vault) + 1
              /\ SubSeq(vault', 1, Len(vault)) = vault
         [] out'.change = "updated" ->
              \E i \in DOMAIN vault :
                 /\ Store!SameAccount(vault[i], vault'[i])
                 /\ vault' = [vault EXCEPT ![i] = vault'[i]]
         [] OTHER -> vault' = vault]_allVars

\* Under the manual gate a hold types only if the manual button was pressed
\* after the fill was queued: no earlier press is carried over to it.
PressNotCarriedOver ==
    [][\A ok \in Outcomes :
          out'.typed # NoCredential /\ ManualGate(settings) /\ Hold(ok) => pressed]_allVars

\* docs/SECURITY_MODEL.md:29, "Do not output credentials while locked or wiped".
OutputOnlyUnlocked ==
    [][out'.typed # NoCredential => ctx.unlocked /\ ~ctx.wiped]_allVars

=============================================================================
