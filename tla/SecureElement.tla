---------------------------- MODULE SecureElement ----------------------------
(***************************************************************************)
(* Secure boot and the FIDO2 authenticator over the crypto engine:         *)
(* secure_boot.c and fido2_authenticator.c, called in any order.           *)
(*                                                                         *)
(* main() as committed initialises secure boot before the crypto engine    *)
(* and then verifies a manifest of null pointers, which is refused: it     *)
(* always halts there.  The calls below are those of the two interfaces.   *)
(***************************************************************************)
EXTENDS CryptoEngine, FiniteSets

CONSTANTS
    Rps,      \* relying parties
    NoRp,
    MaxCount  \* bound on the signature counter, for 2^32 - 1

ASSUME SecureElementAssumption == NoRp \notin Rps /\ MaxCount \in Nat

VARIABLES
    boot,      \* g_secure_boot
    fido,      \* g_fido2
    accepted,  \* auxiliary: the last version accepted under anti-rollback
    counts,    \* auxiliary: the counts handed out for this credential
    handed     \* auxiliary: how many assertions were handed out for it

bootVars == <<boot, accepted>>
fidoVars == <<fido, counts, handed>>
vars == <<engineVars, bootVars, fidoVars>>

NoBoot ==
    [initialized |-> FALSE, enforce_signature |-> FALSE,
     enforce_antirollback |-> FALSE, current_version |-> 0]

NoFido ==
    [initialized |-> FALSE, has_credential |-> FALSE, rp |-> NoRp, sign_counter |-> 0]

Init ==
    /\ EngineStart
    /\ boot = NoBoot /\ accepted = 0
    /\ fido = NoFido /\ counts = {} /\ handed = 0

HaltDevice == Halt /\ UNCHANGED <<bootVars, fidoVars>>

----------------------------------------------------------------------------
\* secure_boot.c

\* read_version_from_atecc.
ReadVersion == IsAvailable /\ VersionReadable

BootPolicy(version) ==
    [initialized |-> TRUE, enforce_signature |-> TRUE,
     enforce_antirollback |-> IsAvailable, current_version |-> version]

\* Mutant: the version is used although it could not be read.
SecureBootInitUnread ==
    IF production /\ ~ReadVersion THEN HaltDevice
    ELSE /\ ~halted
         /\ boot' = BootPolicy(slots[VERSION_COUNTER])
         /\ UNCHANGED <<engineVars, accepted, fidoVars>>

\* Without the element a development build gives anti-rollback up; with it, a
\* version that cannot be read counts as 0.
SecureBootInit ==
    IF production /\ ~ReadVersion THEN HaltDevice
    ELSE /\ ~halted
         /\ boot' = BootPolicy(IF ReadVersion THEN slots[VERSION_COUNTER] ELSE 0)
         /\ UNCHANGED <<engineVars, accepted, fidoVars>>

\* Called before secure_boot_init, the next two call it first.
SetPolicy(signature, antirollback) ==
    /\ boot.initialized
    /\ IF production /\ antirollback /\ ~IsAvailable THEN HaltDevice
       ELSE /\ ~halted
            /\ boot' = [boot EXCEPT !.enforce_signature = signature,
                                    !.enforce_antirollback = antirollback]
            /\ UNCHANGED <<engineVars, accepted, fidoVars>>

SetCurrentVersion(v) ==
    /\ ~halted /\ boot.initialized
    /\ boot' = [boot EXCEPT !.current_version = v]
    /\ UNCHANGED <<engineVars, accepted, fidoVars>>

\* The driver takes every signature that is not all zeros.
SignatureOK(nonzero) == boot.enforce_signature => IsAvailable /\ nonzero

RollbackOK(v) ==
    boot.enforce_antirollback => ReadVersion /\ slots[VERSION_COUNTER] <= v

\* What an enforced policy cannot check halts a production build.
VerifyHalts ==
    /\ production
    /\ \/ boot.enforce_signature /\ ~IsAvailable
       \/ boot.enforce_antirollback /\ ~ReadVersion

\* Mutant: the counter is not written.
AcceptUnwritten(v) ==
    /\ boot.enforce_antirollback
    /\ boot' = [boot EXCEPT !.current_version = v]
    /\ accepted' = v
    /\ UNCHANGED slots

\* An accepted manifest raises the counter when anti-rollback is enforced.
Accept(v) ==
    /\ boot.enforce_antirollback
    /\ IF v > slots[VERSION_COUNTER]
       THEN /\ WriteSlot(VERSION_COUNTER, v)
            /\ boot' = [boot EXCEPT !.current_version = v]
       ELSE UNCHANGED <<slots, boot>>
    /\ accepted' = v

\* A rejected manifest, and one accepted without anti-rollback, change nothing.
VerifyManifest(v, nonzero) ==
    /\ boot.initialized
    /\ IF VerifyHalts THEN HaltDevice
       ELSE /\ ~halted
            /\ SignatureOK(nonzero) /\ RollbackOK(v)
            /\ Accept(v)
            /\ UNCHANGED <<build, atecc, engine, aad, sealed, fidoVars>>

----------------------------------------------------------------------------
\* fido2_authenticator.c

Fido2Init ==
    /\ ~halted
    /\ fido' = [NoFido EXCEPT !.initialized = TRUE]
    /\ counts' = {} /\ handed' = 0
    /\ UNCHANGED <<engineVars, bootVars>>

\* The relying party is replaced before the key is generated; what can still
\* fail in between halts.  The key pair depends on its slot alone, so that
\* every credential has the same identifier.
CreateCredential(rp) ==
    IF ~engine.available THEN HaltDevice
    ELSE /\ ~halted
         /\ Provision(FIDO_PRIVKEY_BASE)
         /\ fido' = [initialized |-> TRUE, has_credential |-> TRUE,
                     rp |-> rp, sign_counter |-> 0]
         /\ counts' = {} /\ handed' = 0
         /\ UNCHANGED <<build, atecc, engine, aad, sealed, bootVars>>

\* Mutant: the count of a failed signature is taken back.
CountTakenBack(signed) ==
    /\ fido' = [fido EXCEPT !.sign_counter = IF signed THEN @ + 1 ELSE @ - 1]
    /\ counts' = IF signed THEN counts \cup {fido'.sign_counter} ELSE counts
    /\ handed' = IF signed THEN handed + 1 ELSE handed

\* The counter moves before the signature, and stays when it fails.
Count(signed) ==
    /\ fido' = [fido EXCEPT !.sign_counter = @ + 1]
    /\ counts' = IF signed THEN counts \cup {fido'.sign_counter} ELSE counts
    /\ handed' = IF signed THEN handed + 1 ELSE handed

\* The slot signed with is the low byte of an address: the driver may refuse it.
GetAssertion(rp) ==
    /\ fido.has_credential /\ rp = fido.rp
    /\ IF ~IsReady("sign") THEN HaltDevice
       ELSE /\ ~halted /\ fido.sign_counter < MaxCount
            /\ \E signed \in BOOLEAN : Count(signed)
            /\ UNCHANGED <<engineVars, bootVars>>

----------------------------------------------------------------------------
Engine == EngineCall /\ UNCHANGED <<bootVars, fidoVars>>

PowerOff ==
    /\ EnginePowerOff
    /\ boot' = NoBoot /\ accepted' = 0
    /\ fido' = NoFido /\ counts' = {} /\ handed' = 0

Next ==
    \/ Engine
    \/ SecureBootInit
    \/ \E signature, antirollback \in BOOLEAN : SetPolicy(signature, antirollback)
    \/ \E v \in Versions : SetCurrentVersion(v)
    \/ \E v \in Versions, nonzero \in BOOLEAN : VerifyManifest(v, nonzero)
    \/ Fido2Init
    \/ \E rp \in Rps : CreateCredential(rp) \/ GetAssertion(rp)
    \/ PowerOff

Spec == Init /\ [][Next]_vars

----------------------------------------------------------------------------
\* The state keeps its shape, the engine's below included.
SecureElementTypeOK ==
    /\ EngineTypeOK
    /\ boot \in [initialized : BOOLEAN, enforce_signature : BOOLEAN,
                 enforce_antirollback : BOOLEAN, current_version : Versions]
    /\ fido \in [initialized : BOOLEAN, has_credential : BOOLEAN,
                 rp : Rps \cup {NoRp}, sign_counter : 0..MaxCount]
    /\ accepted \in Versions
    /\ counts \subseteq 1..MaxCount /\ handed \in 0..MaxCount

\* "Firmware with a version strictly lower than the stored counter is rejected":
\* whatever policies, versions and keys are set in between, a manifest accepted
\* under anti-rollback is never older than one accepted so before it.
NoRollback == [][PowerOff \/ accepted' >= accepted]_vars

\* No two assertions of one credential carry the same count, and none a count
\* the authenticator has not reached, however many signatures fail.
CountsRise == Cardinality(counts) = handed /\ counts \subseteq 1..fido.sign_counter

=============================================================================
