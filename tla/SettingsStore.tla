---------------------------- MODULE SettingsStore ----------------------------
(***************************************************************************)
(* Settings and TOTP accounts over the storage backend: settings_store.c,  *)
(* the store of totp.c, and the part of main() that brings them up.  Both  *)
(* write to the same pair of slots under the same schema version.          *)
(*                                                                         *)
(* main() runs on one thread: while a call programs flash, nothing else    *)
(* runs but the steps of StorageBackend and a power cut.  The boot starts  *)
(* after secure boot, which SecureElement models.                          *)
(*                                                                         *)
(* The settings kept in RAM are the ciphertext of the last save or load:   *)
(* here, what it decrypts to.  A TOTP record is a C string cut at the      *)
(* first zero byte of the struct, so it carries no account count, and      *)
(* every load gives an empty store: its contents are not told apart.       *)
(***************************************************************************)
EXTENDS StorageBackend

CONSTANTS
    Autolocks, Limits,             \* values of two settings
    DefaultAutolock, DefaultLimit, \* AUTO_LOCK_TIMEOUT_SECONDS_DEFAULT, 5
    TotpCapacity                   \* TOTP_MAX_ACCOUNTS

ASSUME SettingsAssumption ==
    /\ DefaultAutolock \in Autolocks /\ DefaultAutolock # 0
    /\ DefaultLimit \in Limits
    /\ TotpCapacity \in Nat

VARIABLES
    pc,       \* where main() is
    crypto,   \* how the crypto engine answers in this power cycle
    cache,    \* g_settings_store: what its ciphertext decrypts to
    runtime,  \* g_runtime_settings
    accounts, \* g_totp_store.count
    saved     \* auxiliary: settings given to a save since the last complete wipe

settingsVars == <<pc, crypto, cache, runtime, accounts, saved>>

vars == <<storageVars, settingsVars>>

Settings == [autolock : Autolocks \ {0}, limit : Limits]

Defaults == [autolock |-> DefaultAutolock, limit |-> DefaultLimit]

\* build_blob: a zero autolock is replaced by the default.
BuildBlob(s) == IF s.autolock = 0 THEN [s EXCEPT !.autolock = DefaultAutolock] ELSE s

SettingsRecord(s) == [kind |-> "settings", settings |-> s]

TotpRecord == [kind |-> "totp"]

StoredRecords == {SettingsRecord(s) : s \in Settings} \cup {TotpRecord}

ASSUME RecordsAssumption == Records = StoredRecords /\ {None, Torn} \cap Settings = {}

SettingsInit ==
    /\ StorageStart
    /\ pc = "off" /\ crypto = "ready"
    /\ cache = None /\ runtime = None
    /\ accounts = 0 /\ saved = {}

\* Error_Handler: nothing runs until power is cut.
Halt == pc' = "halted"

\* Room for one more write, which the next boot may need.
Room == NextGeneration < MaxGeneration

----------------------------------------------------------------------------
\* settings_store_save, on the way to the program counter given.  The cache is
\* replaced before the flash write, which may be refused or fail.
Save(s, next) ==
    /\ UNCHANGED <<crypto, runtime, accounts>>
    /\ CASE crypto = "ready" ->
              /\ cache' = BuildBlob(s)
              /\ saved' = saved \cup {BuildBlob(s)}
              /\ WriteAtomic(SettingsRecord(BuildBlob(s)))
              /\ pc' = next
         [] crypto = "refuses" ->
              /\ Refuse /\ pc' = next /\ UNCHANGED <<cache, saved>>
         [] crypto = "halts" ->
              /\ Halt /\ UNCHANGED <<storageVars, cache, saved>>

\* The cache once settings_store_load has looked into flash.  A torn record is
\* taken when its length word was programmed.
IsSettings(record) == record \in {SettingsRecord(s) : s \in Settings}

\* Mutant: the cache is not looked at, flash alone decides.
LookedUpInFlash ==
    IF IsSettings(ReadLatest) THEN {ReadLatest.settings}
    ELSE IF ReadLatest = Torn THEN {None, Torn}
    ELSE {None}

LookedUp ==
    IF cache # None THEN {cache}
    ELSE IF IsSettings(ReadLatest) THEN {ReadLatest.settings}
    ELSE IF ReadLatest = Torn THEN {None, Torn}
    ELSE {None}

\* The authenticated decryption and the length and checksum tests after it.
Decrypts(c) == crypto = "ready" /\ c \in Settings

\* settings_store_load into g_runtime_settings.
Load(found, missing) ==
    /\ UNCHANGED <<storageVars, crypto, accounts, saved>>
    /\ \E c \in LookedUp :
         /\ cache' = c
         /\ IF c # None /\ crypto = "halts" THEN Halt /\ UNCHANGED runtime
            ELSE IF Decrypts(c) THEN runtime' = c /\ pc' = found
            ELSE pc' = missing /\ UNCHANGED runtime

FactoryReset(next) == Save(Defaults, next)

----------------------------------------------------------------------------
\* main() from storage_backend_init to the loop.

PowerOn ==
    /\ pc = "off" /\ Room
    /\ StorageInit
    /\ crypto' \in {"ready", "refuses", "halts"}
    /\ pc' = "load"
    /\ UNCHANGED <<cache, runtime, accounts, saved>>

BootLoad == pc = "load" /\ Load("totp", "reset")

BootReset == pc = "reset" /\ FactoryReset("reload")

BootReload == pc = "reload" /\ ~Busy /\ Load("totp", "halted")

\* totp_load, or the empty store put in its place: the count is lost either way.
BootTotp ==
    /\ pc = "totp"
    /\ pc' = "on"
    /\ accounts' = 0
    /\ UNCHANGED <<storageVars, crypto, cache, runtime, saved>>

----------------------------------------------------------------------------
\* Calls on a running device.

Running == pc = "on" /\ ~Busy

SaveSettings ==
    /\ Running /\ Room
    /\ \E autolock \in Autolocks, limit \in Limits :
         Save([autolock |-> autolock, limit |-> limit], "on")

LoadSettings == Running /\ Load("on", "on")

\* settings_store_wipe ignores what storage_backend_wipe returns.
WipeSettings ==
    /\ Running /\ Room
    /\ cache' = None
    /\ StartWipe
    /\ pc' = "wiped"
    /\ UNCHANGED <<crypto, runtime, accounts, saved>>

\* A complete wipe leaves the backend uninitialised: this save is not written.
ResetAfterWipe == pc = "wiped" /\ ~Busy /\ FactoryReset("on")

\* Development builds only: the cache is replaced by a record read out of it
\* since the last wipe, or by one that was tampered with.
DebugRestore ==
    /\ Running
    /\ cache' \in saved \cup {Torn}
    /\ UNCHANGED <<storageVars, pc, crypto, runtime, accounts, saved>>

CorruptRecord ==
    /\ Running
    /\ CorruptLatest
    /\ UNCHANGED settingsVars

\* Mutant: an off-by-one in the account limit.
AddAccountOneTooMany ==
    /\ Running /\ accounts <= TotpCapacity
    /\ accounts' = accounts + 1
    /\ UNCHANGED <<storageVars, pc, crypto, cache, runtime, saved>>

AddAccount ==
    /\ Running /\ accounts < TotpCapacity
    /\ accounts' = accounts + 1
    /\ UNCHANGED <<storageVars, pc, crypto, cache, runtime, saved>>

DeleteAccount ==
    /\ Running /\ accounts > 0
    /\ accounts' = accounts - 1
    /\ UNCHANGED <<storageVars, pc, crypto, cache, runtime, saved>>

\* totp_save: the string is empty without accounts, and empty or too long for
\* some secrets; both are refused.
SaveTotp ==
    /\ Running /\ Room
    /\ CASE crypto = "halts" -> Halt /\ UNCHANGED storageVars
         [] crypto = "refuses" -> Refuse /\ UNCHANGED pc
         [] OTHER -> (Refuse \/ (accounts > 0 /\ WriteAtomic(TotpRecord))) /\ UNCHANGED pc
    /\ UNCHANGED <<crypto, cache, runtime, accounts, saved>>

----------------------------------------------------------------------------
\* The steps of flash and the loss of power.  A wipe that is done forgets.

FlashStep ==
    /\ StorageStep
    /\ saved' = IF WipeSecond THEN {} ELSE saved
    /\ UNCHANGED <<pc, crypto, cache, runtime, accounts>>

FlashError == FlashFails /\ UNCHANGED settingsVars

LosePower ==
    /\ pc # "off"
    /\ PowerCut
    /\ pc' = "off" /\ crypto' = "ready"
    /\ cache' = None /\ runtime' = None /\ accounts' = 0
    /\ UNCHANGED saved

Boot == BootLoad \/ BootReset \/ BootReload \/ BootTotp

SettingsNext ==
    \/ PowerOn \/ Boot
    \/ SaveSettings \/ LoadSettings \/ WipeSettings \/ ResetAfterWipe
    \/ DebugRestore \/ CorruptRecord
    \/ AddAccount \/ DeleteAccount \/ SaveTotp
    \/ FlashStep \/ FlashError \/ LosePower

\* The processor runs: a boot and a flash operation go on while there is power.
SettingsSpec ==
    /\ SettingsInit /\ [][SettingsNext]_vars
    /\ WF_vars(Boot) /\ WF_vars(FlashStep)

----------------------------------------------------------------------------
\* The state keeps its shape, the slots below included.
SettingsTypeOK ==
    /\ StorageTypeOK
    /\ pc \in {"off", "load", "reset", "reload", "totp", "on", "wiped", "halted"}
    /\ crypto \in {"ready", "refuses", "halts"}
    /\ cache \in Settings \cup {None, Torn}
    /\ runtime \in Settings \cup {None}
    /\ accounts \in 0..TotpCapacity
    /\ saved \subseteq Settings

\* Whatever was torn, failed, tampered with or overwritten by TOTP, the settings
\* that settings_store_load hands out were given to settings_store_save since the
\* last complete wipe.  They need not have reached flash: the cache is replaced
\* before a write that may fail.
LoadsOnlySaved == [][runtime' \notin {runtime, None} => runtime' \in saved]_vars

\* Nothing that flash can hold or refuse to hold stops a boot: main() halts only
\* where the crypto engine does not work.  The reset puts the defaults into the
\* cache before it writes them, and the second load takes them from there.
HaltsOnlyWithoutCrypto ==
    [][Boot /\ pc' = "halted" => crypto # "ready"]_vars

\* A device that is switched on comes up, unless power fails again or its crypto
\* engine does not work: no torn or foreign record keeps main() in its boot
\* sequence, and none makes it halt, nor does a backend left uninitialised.
BootEnds ==
    pc = "load" ~> \/ pc \in {"on", "off"}
                   \/ pc = "halted" /\ crypto # "ready"

\* The production checklist asks for "atomic settings writes and latest-slot
\* recovery": a boot that can decrypt resets the settings only when neither
\* slot holds a whole settings record.
RecoversLatest ==
    [][(BootReset /\ crypto = "ready") =>
         \A s \in ValidSlots : ~IsSettings(flash[s].record)]_vars

=============================================================================
