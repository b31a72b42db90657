--------------------------- MODULE StorageBackend ---------------------------
(***************************************************************************)
(* The two-slot record store of firmware/src/storage_backend.c.  A write   *)
(* goes to the slot that does not hold the newest record, word by word:    *)
(* erase, the header words up to the payload length, the checksum word,    *)
(* the payload.  Power may be cut, or the flash driver may fail, between   *)
(* any two of them.                                                        *)
(*                                                                         *)
(* The checksum covers the header, its own byte and two of the three       *)
(* padding bytes, which nobody initialises; its own byte cancels out, so   *)
(* whether a finished header is valid depends on the padding alone: the    *)
(* member of Seals a write takes.  In an unfinished header the padding is  *)
(* erased flash, another member of Seals.  The payload has no checksum, so *)
(* a sealed header vouches for a torn payload.                             *)
(*                                                                         *)
(* Left out: addresses, sector numbers, null arguments and lengths out of  *)
(* range, which all return before anything changes.                        *)
(***************************************************************************)
EXTENDS Naturals, FiniteSetsExt

CONSTANTS
    Records,       \* what callers write: a payload with its schema version
    Torn,          \* a valid header over a payload partly programmed
    None,          \* no record
    Seals,         \* the checksum outcomes that the build's padding can give
    MaxGeneration  \* bound on generations, for 2^32 - 1

ASSUME StorageAssumption ==
    /\ None # Torn /\ {None, Torn} \cap Records = {}
    /\ Seals \subseteq BOOLEAN /\ Seals # {}
    /\ MaxGeneration \in Nat \ {0}

VARIABLES
    initialized, \* g_storage_initialized
    flash,       \* the two sectors
    job,         \* the call that is programming flash, if any
    result       \* what the last such call returned

storageVars == <<initialized, flash, job, result>>

SlotA == "A"
SlotB == "B"
Slots == {SlotA, SlotB}

\* A sector as is_slot_valid sees it: invalid contents are all alike.
Invalid == [valid |-> FALSE]

Slot(generation, record) ==
    [valid |-> TRUE, generation |-> generation, record |-> record]

Contents ==
    {Invalid} \cup [valid : {TRUE}, generation : 1..MaxGeneration,
                    record : Records \cup {Torn}]

IsSlotValid(s) == flash[s].valid

ValidSlots == {s \in Slots : IsSlotValid(s)}

\* slot_newer: strictly newer, so that B is taken when generations are equal.
SlotNewer(s, t) == flash[s].generation > flash[t].generation

Other(s) == IF s = SlotA THEN SlotB ELSE SlotA

\* The slot read_latest picks when at least one is valid.
LatestSlot ==
    IF ValidSlots = Slots
    THEN IF SlotNewer(SlotA, SlotB) THEN SlotA ELSE SlotB
    ELSE CHOOSE s \in Slots : IsSlotValid(s)

\* The record in flash that a read finds, before the caller's capacity check.
Latest == IF ValidSlots = {} THEN None ELSE flash[LatestSlot].record

\* storage_backend_read_latest.
ReadLatest == IF initialized THEN Latest ELSE None

\* Mutant: the generation of the overwritten slot is counted on.
NextGenerationOfOlder ==
    IF ValidSlots = {} THEN 1
    ELSE Min({flash[s].generation : s \in ValidSlots}) + 1

NextGeneration ==
    IF ValidSlots = {} THEN 1
    ELSE Max({flash[s].generation : s \in ValidSlots}) + 1

\* Mutant: slot A is written first, whatever it holds.
WriteTargetAlternating == IF IsSlotValid(SlotB) THEN SlotA ELSE SlotB

WriteTarget ==
    IF ~IsSlotValid(SlotA) THEN SlotA
    ELSE IF ~IsSlotValid(SlotB) THEN SlotB
    ELSE Other(LatestSlot)

NoJob == [kind |-> "idle"]

Busy == job # NoJob

Programming(kind, slot, generation, record, sealed) ==
    [kind |-> kind, slot |-> slot, generation |-> generation,
     record |-> record, sealed |-> sealed, stage |-> "erase"]

Jobs ==
    {NoJob} \cup
    [kind : {"write", "rewrite"}, slot : Slots, generation : 1..MaxGeneration,
     record : Records \cup {Torn}, sealed : Seals,
     stage : {"erase", "length", "checksum", "payload"}] \cup
    [kind : {"wipe"}, stage : {SlotA, SlotB}]

StorageStart ==
    /\ initialized = FALSE
    /\ flash = [s \in Slots |-> Invalid]
    /\ job = NoJob
    /\ result = FALSE

\* storage_backend_init only sets the flag.
StorageInit == initialized' = TRUE /\ UNCHANGED <<flash, job, result>>

\* A call that is refused before flash is touched.
Refuse == result' = FALSE /\ UNCHANGED <<initialized, flash, job>>

StartWrite(record) ==
    /\ initialized
    /\ NextGeneration <= MaxGeneration
    /\ \E sealed \in Seals :
         job' = Programming("write", WriteTarget, NextGeneration, record, sealed)
    /\ UNCHANGED <<initialized, flash, result>>

\* storage_backend_write_atomic up to the erase of the chosen sector.
WriteAtomic(record) == IF initialized THEN StartWrite(record) ELSE Refuse

\* storage_backend_debug_corrupt_latest increments the checksum byte and
\* programs the newest slot again: the byte cancels out, the slot stays valid.
CorruptLatest ==
    IF initialized /\ ValidSlots # {}
    THEN LET slot == LatestSlot IN
         /\ TRUE \in Seals
         /\ job' = Programming("rewrite", slot, flash[slot].generation,
                               flash[slot].record, TRUE)
         /\ UNCHANGED <<initialized, flash, result>>
    ELSE Refuse

StartWipe ==
    IF initialized
    THEN /\ job' = [kind |-> "wipe", stage |-> SlotA]
         /\ UNCHANGED <<initialized, flash, result>>
    ELSE Refuse

----------------------------------------------------------------------------
\* write_flash_sector, one word group at a time.

Stage(stage) == job.kind \in {"write", "rewrite"} /\ job.stage = stage

\* The slot under the job becomes as given, and the job goes on.
Program(contents, next) ==
    /\ flash' = [flash EXCEPT ![job.slot] = contents]
    /\ job' = [job EXCEPT !.stage = next]
    /\ UNCHANGED <<initialized, result>>

Header(sealed) == IF sealed THEN Slot(job.generation, Torn) ELSE Invalid

EraseSector == Stage("erase") /\ Program(Invalid, "length")

\* Generation, schema and length: a record with an erased checksum word.
ProgramLength ==
    Stage("length") /\ \E sealed \in Seals : Program(Header(sealed), "checksum")

ProgramChecksum == Stage("checksum") /\ Program(Header(job.sealed), "payload")

\* The last word of the payload; locking the flash afterwards may fail.
ProgramPayload ==
    /\ Stage("payload")
    /\ IF job.sealed
       THEN flash' = [flash EXCEPT ![job.slot] = Slot(job.generation, job.record)]
       ELSE UNCHANGED flash
    /\ job' = NoJob
    /\ result' \in BOOLEAN
    /\ UNCHANGED initialized

\* Mutant: the same sector is erased twice.
WipeSectorTwice(slot) ==
    /\ job.kind = "wipe" /\ job.stage = slot
    /\ flash' = [flash EXCEPT ![SlotA] = Invalid]

\* storage_backend_wipe after unlocking: sector A, then sector B, then lock.
WipeSector(slot) ==
    /\ job.kind = "wipe" /\ job.stage = slot
    /\ flash' = [flash EXCEPT ![slot] = Invalid]

WipeFirst ==
    /\ WipeSector(SlotA)
    /\ job' = [job EXCEPT !.stage = SlotB]
    /\ UNCHANGED <<initialized, result>>

WipeSecond ==
    /\ WipeSector(SlotB)
    /\ job' = NoJob
    /\ result' \in BOOLEAN
    /\ initialized' = ~result'

\* Any flash call fails: the function returns false and leaves what is there.
FlashFails ==
    /\ Busy
    /\ job' = NoJob /\ result' = FALSE
    /\ UNCHANGED <<initialized, flash>>

StorageStep ==
    \/ EraseSector \/ ProgramLength \/ ProgramChecksum \/ ProgramPayload
    \/ WipeFirst \/ WipeSecond

PowerCut ==
    /\ initialized' = FALSE
    /\ job' = NoJob /\ result' = FALSE
    /\ UNCHANGED flash

Call ==
    /\ ~Busy
    /\ \/ StorageInit
       \/ \E record \in Records : WriteAtomic(record)
       \/ CorruptLatest
       \/ StartWipe

StorageNext == Call \/ StorageStep \/ FlashFails \/ PowerCut

StorageSpec == StorageStart /\ [][StorageNext]_storageVars

----------------------------------------------------------------------------
\* The state keeps its shape: every valid slot has a generation and a record.
StorageTypeOK ==
    /\ initialized \in BOOLEAN /\ result \in BOOLEAN
    /\ flash \in [Slots -> Contents]
    /\ job \in Jobs

\* Two valid slots never carry the same generation, whatever was cut or failed:
\* storage_backend_read_latest tells the newer one by its generation alone.
DistinctGenerations ==
    ValidSlots = Slots => flash[SlotA].generation # flash[SlotB].generation

\* What a reader sees, under the slots.
Hidden ==
    IF ValidSlots = Slots THEN flash[Other(LatestSlot)].record ELSE None

Task ==
    IF job.kind = "write" THEN [kind |-> "write", record |-> job.record]
    ELSE [kind |-> job.kind]

R == INSTANCE Register WITH value <- Latest, beneath <- Hidden, task <- Task

\* The slots implement the register: a reader keeps seeing the newest record
\* through cuts and failures, a write replaces it by its own or tears it, and
\* only wiping or rewriting brings an older one back.
ImplementsRegister == R!Spec

=============================================================================
