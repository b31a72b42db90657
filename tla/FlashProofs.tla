----------------------------- MODULE FlashProofs -----------------------------
(***************************************************************************)
(* Proofs about the two flash slots, first under any caller, for every set *)
(* of records, range of generations and checksum outcome: their shape, the *)
(* generations that tell them apart, and the register they implement,      *)
(* through cuts and failures between any two words.                        *)
(*                                                                         *)
(* Then about settings and TOTP accounts over them, for every range of     *)
(* settings, accounts and generations: the same under the calls of main(), *)
(* and only settings that were saved are ever loaded.                      *)
(***************************************************************************)
EXTENDS SettingsStore, TLAPS

-----------------------------------------------------------------------------
(***************************************************************************)
(* The inductive invariant.                                                *)
(***************************************************************************)

Programs == job.kind \in {"write", "rewrite"}

Generation(s) == flash[s].generation

\* A record being programmed is going to be the newest.
JobNewest ==
    Programs /\ IsSlotValid(Other(job.slot)) =>
        Generation(Other(job.slot)) < job.generation

\* What the slot under a job holds in each stage of its sector.
JobStages ==
    /\ Stage("erase") /\ job.kind = "write" /\ IsSlotValid(job.slot) =>
          /\ IsSlotValid(Other(job.slot))
          /\ Generation(job.slot) < Generation(Other(job.slot))
    /\ Stage("erase") /\ job.kind = "rewrite" =>
          IsSlotValid(job.slot) /\ Generation(job.slot) = job.generation
    /\ Stage("length") => flash[job.slot] = Invalid
    /\ Stage("checksum") =>
          flash[job.slot] \in {Invalid, Slot(job.generation, Torn)}
    /\ Stage("payload") => flash[job.slot] = Header(job.sealed)

\* A wipe has erased the first sector when it comes to the second.
WipeOrder == job.kind = "wipe" /\ job.stage = SlotB => flash[SlotA] = Invalid

StorageInv ==
    StorageTypeOK /\ DistinctGenerations /\ JobNewest /\ JobStages /\ WipeOrder

-----------------------------------------------------------------------------
(***************************************************************************)
(* The slots and their order.                                              *)
(***************************************************************************)

\* There are two slots and each is the other's other.
LEMMA OtherSlot ==
  ASSUME NEW s \in Slots
  PROVE  /\ Other(s) \in Slots /\ Other(s) # s /\ Other(Other(s)) = s
         /\ Slots = {s, Other(s)}
BY DEF Slots, SlotA, SlotB, Other

\* Contents are invalid, or a generation and a record.
LEMMA ContentsType ==
  /\ Invalid \in Contents /\ ~Invalid.valid
  /\ \A g \in 1..MaxGeneration, r \in Records \cup {Torn} :
        /\ Slot(g, r) \in Contents /\ Slot(g, r).valid
        /\ Slot(g, r).generation = g /\ Slot(g, r).record = r
  /\ \A c \in Contents :
        /\ c.valid \in BOOLEAN
        /\ ~c.valid => c = Invalid
        /\ c.valid => c.generation \in 1..MaxGeneration /\ c.record \in Records \cup {Torn}
<1>1. Invalid \in Contents /\ ~Invalid.valid
  BY DEF Contents, Invalid
<1>2. ASSUME NEW g \in 1..MaxGeneration, NEW r \in Records \cup {Torn}
      PROVE  /\ Slot(g, r) \in Contents /\ Slot(g, r).valid
             /\ Slot(g, r).generation = g /\ Slot(g, r).record = r
  BY DEF Contents, Slot
<1>3. ASSUME NEW c \in Contents
      PROVE  /\ c.valid \in BOOLEAN
             /\ ~c.valid => c = Invalid
             /\ c.valid => c.generation \in 1..MaxGeneration /\ c.record \in Records \cup {Torn}
  <2>1. CASE c = Invalid
    BY <2>1 DEF Invalid
  <2>2. CASE c \in [valid : {TRUE}, generation : 1..MaxGeneration, record : Records \cup {Torn}]
    BY <2>2
  <2>3. QED
    BY <2>1, <2>2 DEF Contents
<1>4. QED
  BY <1>1, <1>2, <1>3

\* What a reader finds, by which slots are valid and which is newer: the newer
\* record is read and the older one lies beneath it.
LEMMA ReaderView ==
  StorageTypeOK =>
    /\ ValidSlots = {} => Latest = None /\ Hidden = None
    /\ \A s \in Slots :
         /\ IsSlotValid(s) /\ ~IsSlotValid(Other(s)) =>
              LatestSlot = s /\ Latest = flash[s].record /\ Hidden = None
         /\ IsSlotValid(s) /\ IsSlotValid(Other(s)) /\ Generation(Other(s)) < Generation(s) =>
              /\ LatestSlot = s /\ Latest = flash[s].record
              /\ Hidden = flash[Other(s)].record
<1> SUFFICES ASSUME StorageTypeOK
             PROVE  /\ ValidSlots = {} => Latest = None /\ Hidden = None
                    /\ \A s \in Slots :
                         /\ IsSlotValid(s) /\ ~IsSlotValid(Other(s)) =>
                              LatestSlot = s /\ Latest = flash[s].record /\ Hidden = None
                         /\ IsSlotValid(s) /\ IsSlotValid(Other(s))
                              /\ Generation(Other(s)) < Generation(s) =>
                              /\ LatestSlot = s /\ Latest = flash[s].record
                              /\ Hidden = flash[Other(s)].record
  OBVIOUS
<1>1. ValidSlots = {} => Latest = None /\ Hidden = None
  BY DEF Latest, Hidden, Slots
<1>2. ASSUME NEW s \in Slots, IsSlotValid(s), ~IsSlotValid(Other(s))
      PROVE  LatestSlot = s /\ Latest = flash[s].record /\ Hidden = None
  <2>1. ValidSlots = {s} /\ ValidSlots # Slots
    BY <1>2, OtherSlot DEF ValidSlots
  <2>2. \A t \in Slots : IsSlotValid(t) <=> t = s
    BY <2>1 DEF ValidSlots
  <2>3. LatestSlot = s
    BY <2>1, <2>2 DEF LatestSlot
  <2>4. QED
    BY <2>1, <2>3 DEF Latest, Hidden
<1>3. ASSUME NEW s \in Slots, IsSlotValid(s), IsSlotValid(Other(s)),
             Generation(Other(s)) < Generation(s)
      PROVE  /\ LatestSlot = s /\ Latest = flash[s].record
             /\ Hidden = flash[Other(s)].record
  <2>1. ValidSlots = Slots /\ ValidSlots # {}
    BY <1>3, OtherSlot DEF ValidSlots
  <2>2. \A t \in Slots : Generation(t) \in Nat
    BY <2>1, ContentsType DEF ValidSlots, IsSlotValid, Generation, StorageTypeOK
  <2>3. LatestSlot = s
    BY <1>3, <2>1, <2>2 DEF LatestSlot, SlotNewer, Generation, Slots, SlotA, SlotB, Other
  <2>4. QED
    BY <2>1, <2>3 DEF Latest, Hidden
<1>4. QED
  BY <1>1, <1>2, <1>3

\* A new record's generation is above those of all valid slots.
LEMMA NextGenerationAbove ==
  ASSUME StorageTypeOK
  PROVE  /\ NextGeneration \in Nat \ {0}
         /\ \A s \in ValidSlots : Generation(s) < NextGeneration
<1> DEFINE G == {flash[s].generation : s \in ValidSlots}
<1>1. \A s \in ValidSlots : flash[s].generation \in Nat \ {0}
  BY ContentsType DEF ValidSlots, IsSlotValid, StorageTypeOK
<1>2. CASE ValidSlots = {}
  BY <1>2 DEF NextGeneration
<1>3. CASE ValidSlots # {}
  <2>1. \E m \in G : \A g \in G : m >= g
    <3>1. PICK s \in ValidSlots : TRUE
      BY <1>3
    <3>2. s \in Slots /\ ValidSlots \subseteq {s, Other(s)}
      BY OtherSlot DEF ValidSlots
    <3>3. \A t \in ValidSlots : t = s \/ t = Other(s)
      BY <3>2
    <3>4. CASE /\ Other(s) \in ValidSlots
               /\ flash[Other(s)].generation > flash[s].generation
      <4>1. \A t \in ValidSlots : flash[Other(s)].generation >= flash[t].generation
        BY <1>1, <3>3, <3>4
      <4>2. QED
        BY <3>4, <4>1
    <3>5. CASE ~(/\ Other(s) \in ValidSlots
                 /\ flash[Other(s)].generation > flash[s].generation)
      <4>1. \A t \in ValidSlots : flash[s].generation >= flash[t].generation
        BY <1>1, <3>3, <3>5
      <4>2. QED
        BY <4>1
    <3>6. QED
      BY <3>4, <3>5
  <2>2. Max(G) \in G /\ \A g \in G : Max(G) >= g
    BY <2>1 DEF Max
  <2>3. NextGeneration = Max(G) + 1
    BY <1>3 DEF NextGeneration
  <2>4. Max(G) \in Nat \ {0} /\ \A s \in ValidSlots : Max(G) >= flash[s].generation
    BY <1>1, <2>2
  <2>5. QED
    BY <1>1, <2>3, <2>4 DEF Generation
<1>4. QED
  BY <1>2, <1>3

\* A write takes the slot that is invalid, or else the older one.
LEMMA WriteTargetOlder ==
  ASSUME StorageTypeOK, DistinctGenerations
  PROVE  /\ WriteTarget \in Slots
         /\ IsSlotValid(WriteTarget) =>
              /\ IsSlotValid(Other(WriteTarget))
              /\ Generation(WriteTarget) < Generation(Other(WriteTarget))
<1>1. CASE ValidSlots # Slots
  BY <1>1 DEF WriteTarget, ValidSlots, Slots
<1>2. CASE ValidSlots = Slots
  <2>1. \A s \in Slots : IsSlotValid(s) /\ Generation(s) \in Nat
    BY <1>2, ContentsType DEF ValidSlots, IsSlotValid, Generation, StorageTypeOK
  <2>2. PICK s \in Slots : Generation(Other(s)) < Generation(s)
    BY <1>2, <2>1 DEF DistinctGenerations, Generation, Slots, SlotA, SlotB, Other
  <2>3. LatestSlot = s
    BY <2>1, <2>2, OtherSlot, ReaderView
  <2>4. WriteTarget = Other(s)
    BY <2>1, <2>3 DEF WriteTarget, Slots
  <2>5. QED
    BY <2>1, <2>2, <2>4, OtherSlot
<1>3. QED
  BY <1>1, <1>2

\* The slot that is read is valid and strictly newer than the other.
LEMMA LatestSlotNewest ==
  ASSUME StorageTypeOK, DistinctGenerations, ValidSlots # {}
  PROVE  /\ LatestSlot \in Slots /\ IsSlotValid(LatestSlot)
         /\ IsSlotValid(Other(LatestSlot)) =>
              Generation(Other(LatestSlot)) < Generation(LatestSlot)
<1>1. PICK s \in Slots : IsSlotValid(s)
  BY DEF ValidSlots
<1>2. CASE ~IsSlotValid(Other(s))
  BY <1>1, <1>2, ReaderView
<1>3. CASE IsSlotValid(Other(s))
  <2>1. \A t \in Slots : IsSlotValid(t) /\ Generation(t) \in Nat
    BY <1>1, <1>3, OtherSlot, ContentsType DEF IsSlotValid, Generation, StorageTypeOK
  <2>2. Generation(s) # Generation(Other(s))
    BY <2>1 DEF DistinctGenerations, ValidSlots, Generation, Slots, SlotA, SlotB, Other
  <2>3. CASE Generation(Other(s)) < Generation(s)
    BY <1>1, <1>3, <2>3, ReaderView
  <2>4. CASE Generation(s) < Generation(Other(s))
    BY <1>1, <1>3, <2>4, OtherSlot, ReaderView
  <2>5. QED
    BY <2>1, <2>2, <2>3, <2>4, OtherSlot
<1>4. QED
  BY <1>2, <1>3

-----------------------------------------------------------------------------
(***************************************************************************)
(* The invariant is inductive.                                             *)
(***************************************************************************)

\* The fields a job has, by its kind.
LEMMA JobFields ==
  ASSUME job \in Jobs
  PROVE  /\ job = NoJob \/ Programs \/ job.kind = "wipe"
         /\ Programs =>
              /\ job.slot \in Slots /\ job.generation \in 1..MaxGeneration
              /\ job.record \in Records \cup {Torn} /\ job.sealed \in Seals
              /\ job.stage \in {"erase", "length", "checksum", "payload"}
         /\ job.kind = "wipe" => job \in [kind : {"wipe"}, stage : {SlotA, SlotB}]
<1>1. CASE job = NoJob
  BY <1>1 DEF NoJob, Programs
<1>2. CASE job \in [kind : {"write", "rewrite"}, slot : Slots, generation : 1..MaxGeneration,
                    record : Records \cup {Torn}, sealed : Seals,
                    stage : {"erase", "length", "checksum", "payload"}]
  BY <1>2 DEF Programs
<1>3. CASE job \in [kind : {"wipe"}, stage : {SlotA, SlotB}]
  BY <1>3 DEF Programs
<1>4. QED
  BY <1>1, <1>2, <1>3 DEF Jobs

\* A job that goes on to another stage is a job.
LEMMA JobGoesOn ==
  ASSUME job \in Jobs, Programs,
         NEW stage \in {"erase", "length", "checksum", "payload"}
  PROVE  /\ [job EXCEPT !.stage = stage] \in Jobs
         /\ [job EXCEPT !.stage = stage].kind = job.kind
         /\ [job EXCEPT !.stage = stage].slot = job.slot
         /\ [job EXCEPT !.stage = stage].generation = job.generation
         /\ [job EXCEPT !.stage = stage].record = job.record
         /\ [job EXCEPT !.stage = stage].sealed = job.sealed
         /\ [job EXCEPT !.stage = stage].stage = stage
<1>1. job \in [kind : {"write", "rewrite"}, slot : Slots, generation : 1..MaxGeneration,
               record : Records \cup {Torn}, sealed : Seals,
               stage : {"erase", "length", "checksum", "payload"}]
  BY DEF Jobs, Programs, NoJob
<1>2. QED
  BY <1>1 DEF Jobs

\* A job that starts.
LEMMA JobStarts ==
  ASSUME NEW kind \in {"write", "rewrite"}, NEW slot \in Slots,
         NEW generation \in 1..MaxGeneration, NEW record \in Records \cup {Torn},
         NEW sealed \in Seals,
         job' = Programming(kind, slot, generation, record, sealed)
  PROVE  /\ job' \in Jobs
         /\ job'.kind = kind /\ job'.slot = slot /\ job'.generation = generation
         /\ job'.record = record /\ job'.sealed = sealed /\ job'.stage = "erase"
BY DEF Programming, Jobs

\* Programming the slot of a job leaves the other slot alone and keeps the two
\* generations apart.
LEMMA SlotProgrammed ==
  ASSUME StorageInv, Programs,
         NEW contents \in {Invalid, Slot(job.generation, Torn),
                           Slot(job.generation, job.record)},
         flash' = [flash EXCEPT ![job.slot] = contents]
  PROVE  /\ flash' \in [Slots -> Contents]
         /\ flash'[job.slot] = contents
         /\ flash'[Other(job.slot)] = flash[Other(job.slot)]
         /\ DistinctGenerations'
<1>1. /\ job.slot \in Slots /\ job.generation \in 1..MaxGeneration
      /\ job.record \in Records \cup {Torn}
  BY JobFields DEF StorageInv, StorageTypeOK
<1>2. contents \in Contents
  BY <1>1, ContentsType
<1>3. /\ flash' \in [Slots -> Contents]
      /\ flash'[job.slot] = contents
      /\ flash'[Other(job.slot)] = flash[Other(job.slot)]
  BY <1>1, <1>2, OtherSlot DEF StorageInv, StorageTypeOK
<1>4. contents.valid => contents.generation = job.generation
  BY <1>1, ContentsType
<1>5. ASSUME \A s \in Slots : flash'[s].valid
      PROVE  flash'[SlotA].generation # flash'[SlotB].generation
  <2>1. Generation(Other(job.slot)) < job.generation
    BY <1>1, <1>3, <1>5, OtherSlot DEF StorageInv, JobNewest, IsSlotValid
  <2>2. Generation(Other(job.slot)) \in Nat
    BY <1>1, <1>3, <1>5, OtherSlot, ContentsType
       DEF StorageInv, StorageTypeOK, Generation
  <2>3. flash'[job.slot].generation # flash'[Other(job.slot)].generation
    BY <1>1, <1>3, <1>4, <1>5, <2>1, <2>2 DEF Generation
  <2>4. QED
    BY <1>1, <2>3 DEF Slots, SlotA, SlotB, Other
<1>6. DistinctGenerations'
  BY <1>5 DEF DistinctGenerations, ValidSlots, IsSlotValid
<1>7. QED
  BY <1>3, <1>6

\* A write that starts aims at the older slot with a newer generation.
LEMMA StartWriteInv ==
  ASSUME StorageInv, NEW record \in Records, StartWrite(record)
  PROVE  StorageInv'
<1>1. PICK sealed \in Seals :
        job' = Programming("write", WriteTarget, NextGeneration, record, sealed)
  BY DEF StartWrite
<1>2. /\ WriteTarget \in Slots
      /\ NextGeneration \in 1..MaxGeneration
      /\ \A s \in ValidSlots : Generation(s) < NextGeneration
  BY WriteTargetOlder, NextGenerationAbove, StorageAssumption DEF StartWrite, StorageInv
<1>3. /\ job' \in Jobs
      /\ job'.kind = "write" /\ job'.slot = WriteTarget
      /\ job'.generation = NextGeneration /\ job'.stage = "erase"
  BY <1>1, <1>2, JobStarts
<1>4. UNCHANGED <<initialized, flash, result>>
  BY DEF StartWrite
<1>5. StorageTypeOK' /\ DistinctGenerations'
  BY <1>3, <1>4 DEF StorageInv, StorageTypeOK, DistinctGenerations, ValidSlots, IsSlotValid
<1>6. JobNewest'
  BY <1>2, <1>3, <1>4, OtherSlot DEF JobNewest, ValidSlots, IsSlotValid, Generation
<1>7. JobStages'
  BY <1>3, <1>4, WriteTargetOlder
     DEF StorageInv, JobStages, Stage, IsSlotValid, Generation
<1>8. WipeOrder'
  BY <1>3 DEF WipeOrder
<1>9. QED
  BY <1>5, <1>6, <1>7, <1>8 DEF StorageInv

\* Rewriting in place keeps the newest slot's generation and record.
LEMMA CorruptLatestInv ==
  ASSUME StorageInv, initialized, ValidSlots # {}, CorruptLatest
  PROVE  StorageInv'
<1> DEFINE slot == LatestSlot
<1>1. /\ slot \in Slots /\ IsSlotValid(slot)
      /\ IsSlotValid(Other(slot)) => Generation(Other(slot)) < Generation(slot)
  BY LatestSlotNewest DEF StorageInv
<1>2. flash[slot].generation \in 1..MaxGeneration /\ flash[slot].record \in Records \cup {Torn}
  BY <1>1, ContentsType DEF StorageInv, StorageTypeOK, IsSlotValid
<1>3. /\ TRUE \in Seals
      /\ job' = Programming("rewrite", slot, flash[slot].generation,
                            flash[slot].record, TRUE)
      /\ UNCHANGED <<initialized, flash, result>>
  BY DEF CorruptLatest
<1>4. /\ job' \in Jobs
      /\ job'.kind = "rewrite" /\ job'.slot = slot
      /\ job'.generation = flash[slot].generation /\ job'.stage = "erase"
  BY <1>1, <1>2, <1>3, JobStarts
<1>5. StorageTypeOK' /\ DistinctGenerations'
  BY <1>3, <1>4 DEF StorageInv, StorageTypeOK, DistinctGenerations, ValidSlots, IsSlotValid
<1>6. JobNewest' /\ JobStages' /\ WipeOrder'
  BY <1>1, <1>3, <1>4
     DEF JobNewest, JobStages, WipeOrder, Stage, IsSlotValid, Generation
<1>7. QED
  BY <1>5, <1>6 DEF StorageInv

\* A step of a job that programs its slot and goes on to the next stage.
LEMMA ProgramInv ==
  ASSUME StorageInv, Programs,
         NEW contents, NEW next, Program(contents, next),
         \/ next = "length" /\ contents = Invalid
         \/ next = "checksum" /\ contents \in {Invalid, Slot(job.generation, Torn)}
         \/ next = "payload" /\ contents = Header(job.sealed)
  PROVE  StorageInv'
<1>1. contents \in {Invalid, Slot(job.generation, Torn)}
  BY DEF Header
<1>2. /\ flash' \in [Slots -> Contents]
      /\ flash'[job.slot] = contents
      /\ flash'[Other(job.slot)] = flash[Other(job.slot)]
      /\ DistinctGenerations'
  BY <1>1, SlotProgrammed DEF Program
<1>3. /\ job' \in Jobs /\ job'.kind = job.kind /\ job'.slot = job.slot
      /\ job'.generation = job.generation /\ job'.sealed = job.sealed
      /\ job'.stage = next
  BY JobGoesOn DEF Program, StorageInv, StorageTypeOK
<1>4. StorageTypeOK'
  BY <1>2, <1>3 DEF Program, StorageInv, StorageTypeOK
<1>5. JobNewest'
  BY <1>2, <1>3 DEF StorageInv, JobNewest, Programs, IsSlotValid, Generation
<1>6. JobStages'
  BY <1>2, <1>3 DEF JobStages, Stage, Header
<1>7. WipeOrder'
  BY <1>3 DEF Programs, WipeOrder
<1>8. QED
  BY <1>2, <1>4, <1>5, <1>6, <1>7 DEF StorageInv

\* Without a job the slots need only keep their shape and their generations.
LEMMA IdleInv ==
  ASSUME StorageTypeOK', DistinctGenerations', job' = NoJob
  PROVE  StorageInv'
BY DEF StorageInv, JobNewest, JobStages, WipeOrder, Programs, Stage, NoJob

LEMMA ProgramPayloadInv ==
  ASSUME StorageInv, ProgramPayload
  PROVE  StorageInv'
<1>1. Programs
  BY DEF ProgramPayload, Stage, Programs
<1>2. CASE job.sealed
  <2>1. flash' \in [Slots -> Contents] /\ DistinctGenerations'
    BY <1>1, <1>2, SlotProgrammed DEF ProgramPayload
  <2>2. QED
    BY <2>1, IdleInv DEF ProgramPayload, StorageInv, StorageTypeOK, Jobs
<1>3. CASE ~job.sealed
  <2>1. StorageTypeOK' /\ DistinctGenerations'
    BY <1>3 DEF ProgramPayload, StorageInv, StorageTypeOK, Jobs,
                DistinctGenerations, ValidSlots, IsSlotValid
  <2>2. QED
    BY <2>1, IdleInv DEF ProgramPayload
<1>4. QED
  BY <1>2, <1>3

\* Erasing a sector leaves at most one valid slot.
LEMMA WipeSectorKeeps ==
  ASSUME StorageInv, NEW slot \in Slots, WipeSector(slot)
  PROVE  /\ flash' \in [Slots -> Contents] /\ DistinctGenerations'
         /\ flash'[slot] = Invalid
         /\ flash'[Other(slot)] = flash[Other(slot)]
<1>1. /\ flash' \in [Slots -> Contents] /\ flash'[slot] = Invalid
      /\ flash'[Other(slot)] = flash[Other(slot)]
  BY ContentsType, OtherSlot DEF WipeSector, StorageInv, StorageTypeOK
<1>2. DistinctGenerations'
  BY <1>1, ContentsType DEF DistinctGenerations, ValidSlots, IsSlotValid
<1>3. QED
  BY <1>1, <1>2

LEMMA WipeInv ==
  ASSUME StorageInv, WipeFirst \/ WipeSecond
  PROVE  StorageInv'
<1>1. CASE WipeFirst
  <2>1. /\ flash' \in [Slots -> Contents] /\ DistinctGenerations'
        /\ flash'[SlotA] = Invalid
    BY <1>1, WipeSectorKeeps DEF WipeFirst, Slots
  <2>2. job.kind = "wipe" /\ job \in [kind : {"wipe"}, stage : {SlotA, SlotB}]
    BY <1>1, JobFields DEF WipeFirst, WipeSector, StorageInv, StorageTypeOK
  <2>3. job' \in Jobs /\ job'.kind = "wipe" /\ job'.stage = SlotB
    BY <1>1, <2>2 DEF WipeFirst, Jobs
  <2>4. QED
    BY <1>1, <2>1, <2>3 DEF WipeFirst, StorageInv, StorageTypeOK, JobNewest, JobStages,
                            WipeOrder, Programs, Stage
<1>2. CASE WipeSecond
  <2>1. flash' \in [Slots -> Contents] /\ DistinctGenerations'
    BY <1>2, WipeSectorKeeps DEF WipeSecond, Slots
  <2>2. StorageTypeOK'
    BY <1>2, <2>1 DEF WipeSecond, StorageInv, StorageTypeOK, Jobs
  <2>3. QED
    BY <1>2, <2>1, <2>2, IdleInv DEF WipeSecond
<1>3. QED
  BY <1>1, <1>2

LEMMA CallInv ==
  ASSUME StorageInv, Call
  PROVE  StorageInv'
<1> USE DEF StorageInv
<1>1. job = NoJob
  BY DEF Call, Busy
<1>2. CASE StorageInit \/ Refuse
  <2>1. StorageTypeOK' /\ DistinctGenerations' /\ job' = NoJob
    BY <1>1, <1>2 DEF StorageInit, Refuse, StorageTypeOK, DistinctGenerations, ValidSlots,
                      IsSlotValid
  <2>2. QED
    BY <2>1, IdleInv
<1>3. CASE \E record \in Records : StartWrite(record)
  BY <1>3, StartWriteInv
<1>4. CASE initialized /\ ValidSlots # {} /\ CorruptLatest
  BY <1>4, CorruptLatestInv
<1>5. CASE initialized /\ StartWipe
  <2>1. /\ job' = [kind |-> "wipe", stage |-> SlotA]
        /\ UNCHANGED <<initialized, flash, result>>
    BY <1>5 DEF StartWipe
  <2>2. job' \in Jobs /\ job'.kind = "wipe" /\ job'.stage = SlotA
    BY <2>1 DEF Jobs
  <2>3. QED
    BY <2>1, <2>2 DEF StorageTypeOK, DistinctGenerations, ValidSlots, IsSlotValid,
                      JobNewest, JobStages, WipeOrder, Programs, Stage, SlotA, SlotB
<1>6. QED
  BY <1>2, <1>3, <1>4, <1>5 DEF Call, WriteAtomic, CorruptLatest, StartWipe

LEMMA StorageStepInv ==
  ASSUME StorageInv, StorageStep
  PROVE  StorageInv'
<1>1. CASE EraseSector
  BY <1>1, ProgramInv DEF EraseSector, Stage, Programs
<1>2. CASE ProgramLength
  <2>1. PICK sealed \in Seals : Program(Header(sealed), "checksum")
    BY <1>2 DEF ProgramLength
  <2>2. Header(sealed) \in {Invalid, Slot(job.generation, Torn)}
    BY DEF Header
  <2>3. QED
    BY <1>2, <2>1, <2>2, ProgramInv DEF ProgramLength, Stage, Programs
<1>3. CASE ProgramChecksum
  BY <1>3, ProgramInv DEF ProgramChecksum, Stage, Programs
<1>4. QED
  BY <1>1, <1>2, <1>3, ProgramPayloadInv, WipeInv DEF StorageStep

\* A failure or a cut leaves flash as it is, and ends the job.
LEMMA InterruptInv ==
  ASSUME StorageInv, FlashFails \/ PowerCut
  PROVE  StorageInv'
<1>1. StorageTypeOK' /\ DistinctGenerations' /\ job' = NoJob
  BY DEF FlashFails, PowerCut, StorageInv, StorageTypeOK, Jobs, DistinctGenerations,
         ValidSlots, IsSlotValid
<1>2. QED
  BY <1>1, IdleInv

LEMMA StorageStartInv == StorageStart => StorageInv
<1> SUFFICES ASSUME StorageStart PROVE StorageInv
  OBVIOUS
<1>1. StorageTypeOK
  BY ContentsType DEF StorageStart, StorageTypeOK, Jobs
<1>2. ValidSlots = {}
  BY ContentsType DEF StorageStart, ValidSlots, IsSlotValid
<1>3. QED
  BY <1>1, <1>2 DEF StorageStart, StorageInv, DistinctGenerations, JobNewest, JobStages,
                    WipeOrder, Programs, Stage, NoJob, Slots

LEMMA StorageNextInv == StorageInv /\ [StorageNext]_storageVars => StorageInv'
<1> SUFFICES ASSUME StorageInv, [StorageNext]_storageVars PROVE StorageInv'
  OBVIOUS
<1>1. CASE UNCHANGED storageVars
  BY <1>1 DEF storageVars, StorageInv, StorageTypeOK, DistinctGenerations, ValidSlots,
              IsSlotValid, JobNewest, JobStages, WipeOrder, Programs, Stage, Generation,
              Header
<1>2. QED
  BY <1>1, CallInv, StorageStepInv, InterruptInv DEF StorageNext

-----------------------------------------------------------------------------
(***************************************************************************)
(* The slots implement the register.                                       *)
(***************************************************************************)

\* What a reader would find without the given slot.
Under(s) == IF IsSlotValid(Other(s)) THEN flash[Other(s)].record ELSE None

\* The reader's view from a slot that is the newer one if both are valid.
LEMMA SlotView ==
  StorageTypeOK =>
    \A s \in Slots :
      (IsSlotValid(s) /\ IsSlotValid(Other(s)) => Generation(Other(s)) < Generation(s)) =>
        /\ Latest = IF IsSlotValid(s) THEN flash[s].record ELSE Under(s)
        /\ Hidden = IF IsSlotValid(s) THEN Under(s) ELSE None
<1> SUFFICES ASSUME StorageTypeOK, NEW s \in Slots,
                    IsSlotValid(s) /\ IsSlotValid(Other(s)) =>
                      Generation(Other(s)) < Generation(s)
             PROVE  /\ Latest = IF IsSlotValid(s) THEN flash[s].record ELSE Under(s)
                    /\ Hidden = IF IsSlotValid(s) THEN Under(s) ELSE None
  OBVIOUS
<1>1. CASE IsSlotValid(s)
  BY <1>1, ReaderView, OtherSlot DEF Under
<1>2. CASE ~IsSlotValid(s) /\ IsSlotValid(Other(s))
  BY <1>2, ReaderView, OtherSlot DEF Under
<1>3. CASE ~IsSlotValid(s) /\ ~IsSlotValid(Other(s))
  <2>1. ValidSlots = {}
    BY <1>3, OtherSlot DEF ValidSlots
  <2>2. QED
    BY <1>3, <2>1, ReaderView DEF Under
<1>4. QED
  BY <1>1, <1>2, <1>3

LEMMA SlotViewNext ==
  StorageTypeOK' =>
    \A s \in Slots :
      (IsSlotValid(s)' /\ IsSlotValid(Other(s))' => Generation(Other(s))' < Generation(s)') =>
        /\ Latest' = IF IsSlotValid(s)' THEN flash'[s].record ELSE Under(s)'
        /\ Hidden' = IF IsSlotValid(s)' THEN Under(s)' ELSE None
<1>1. (StorageTypeOK =>
         \A s \in Slots :
           (IsSlotValid(s) /\ IsSlotValid(Other(s)) => Generation(Other(s)) < Generation(s)) =>
             /\ Latest = IF IsSlotValid(s) THEN flash[s].record ELSE Under(s)
             /\ Hidden = IF IsSlotValid(s) THEN Under(s) ELSE None)'
  BY SlotView, PTL
<1>2. QED
  BY <1>1

\* Programming the slot of a job, unless that holds an older record, changes
\* the reader's view as the new contents say.
LEMMA ProgramView ==
  ASSUME StorageInv, StorageTypeOK', Programs,
         NEW contents \in {Invalid, Slot(job.generation, Torn),
                           Slot(job.generation, job.record)},
         flash' = [flash EXCEPT ![job.slot] = contents],
         IsSlotValid(job.slot) => Generation(job.slot) = job.generation
  PROVE  /\ Latest = IF IsSlotValid(job.slot) THEN flash[job.slot].record ELSE Under(job.slot)
         /\ Hidden = IF IsSlotValid(job.slot) THEN Under(job.slot) ELSE None
         /\ Latest' = IF contents.valid THEN contents.record ELSE Under(job.slot)
         /\ Hidden' = IF contents.valid THEN Under(job.slot) ELSE None
<1> DEFINE s == job.slot
<1>1. /\ s \in Slots /\ job.generation \in 1..MaxGeneration
      /\ job.record \in Records \cup {Torn}
  BY JobFields DEF StorageInv, StorageTypeOK
<1>2. IsSlotValid(Other(s)) => Generation(Other(s)) < job.generation
  BY DEF StorageInv, JobNewest
<1>3. /\ Latest = IF IsSlotValid(s) THEN flash[s].record ELSE Under(s)
      /\ Hidden = IF IsSlotValid(s) THEN Under(s) ELSE None
  BY <1>1, <1>2, SlotView DEF StorageInv
<1>4. flash'[s] = contents /\ flash'[Other(s)] = flash[Other(s)]
  BY <1>1, SlotProgrammed
<1>5. contents.valid => contents.generation = job.generation
  BY <1>1, ContentsType
<1>6. \A t \in Slots :
        (IsSlotValid(t)' /\ IsSlotValid(Other(t))' => Generation(Other(t))' < Generation(t)') =>
          /\ Latest' = IF IsSlotValid(t)' THEN flash'[t].record ELSE Under(t)'
          /\ Hidden' = IF IsSlotValid(t)' THEN Under(t)' ELSE None
  BY SlotViewNext
<1>7. \A t \in Slots : t = s =>
        /\ IsSlotValid(t)' <=> contents.valid
        /\ IsSlotValid(Other(t))' <=> IsSlotValid(Other(s))
        /\ Generation(t)' = contents.generation
        /\ Generation(Other(t))' = Generation(Other(s))
        /\ flash'[t].record = contents.record
        /\ Under(t)' = Under(s)
  BY <1>4 DEF IsSlotValid, Generation, Under
<1>8. PICK t \in Slots : t = s
  BY <1>1
<1>9. /\ Latest' = IF contents.valid THEN contents.record ELSE Under(s)
      /\ Hidden' = IF contents.valid THEN Under(s) ELSE None
  BY <1>2, <1>5, <1>6, <1>7, <1>8
<1>10. QED
  BY <1>3, <1>9

\* Which task the register sees.
LEMMA TaskOf ==
  ASSUME job \in Jobs
  PROVE  /\ job.kind \in {"idle", "write", "rewrite", "wipe"}
         /\ Task.kind = job.kind
         /\ job.kind = "write" => Task.record = job.record
         /\ job.kind = "wipe" => Task = R!Wipe
         /\ job = NoJob => Task = R!Idle
BY JobFields DEF Programs, NoJob, Task, R!Wipe, R!Idle

\* What flash and the job determine stays when they do.
LEMMA ViewUnchanged ==
  ASSUME UNCHANGED flash
  PROVE  Latest' = Latest /\ Hidden' = Hidden
BY DEF Latest, Hidden, LatestSlot, ValidSlots, IsSlotValid, SlotNewer

\* An operation that ends without touching flash.
LEMMA EndRefines ==
  ASSUME UNCHANGED flash, job' = NoJob
  PROVE  R!Next
BY ViewUnchanged DEF R!Next, R!End, R!Idle, Task, NoJob

LEMMA CallRefines ==
  ASSUME StorageInv, Call
  PROVE  [R!Next]_<<Latest, Hidden, Task>>
<1>1. UNCHANGED flash /\ Latest' = Latest /\ Hidden' = Hidden
  BY ViewUnchanged DEF Call, StorageInit, WriteAtomic, StartWrite, Refuse, CorruptLatest,
                       StartWipe
<1>2. job = NoJob /\ Task = R!Idle
  BY TaskOf DEF Call, Busy, StorageInv, StorageTypeOK
<1>3. CASE UNCHANGED job
  BY <1>1, <1>3 DEF Task
<1>4. CASE \E record \in Records : StartWrite(record)
  <2>1. PICK record \in Records, sealed \in Seals :
          job' = Programming("write", WriteTarget, NextGeneration, record, sealed)
    BY <1>4 DEF StartWrite
  <2>2. Task' \in R!Writes
    BY <2>1 DEF Task, Programming, R!Writes
  <2>3. QED
    BY <1>1, <1>2, <2>2 DEF R!Next, R!Begin
<1>5. CASE initialized /\ ValidSlots # {} /\ CorruptLatest
  <2>1. job'.kind = "rewrite"
    BY <1>5 DEF CorruptLatest, Programming
  <2>2. Task' = R!Rewrite
    BY <2>1 DEF Task, R!Rewrite
  <2>3. QED
    BY <1>1, <1>2, <2>2 DEF R!Next, R!Begin
<1>6. CASE initialized /\ StartWipe
  <2>1. Task' = R!Wipe
    BY <1>6 DEF StartWipe, Task, R!Wipe
  <2>2. QED
    BY <1>1, <1>2, <2>1 DEF R!Next, R!Begin
<1>7. QED
  BY <1>3, <1>4, <1>5, <1>6
     DEF Call, StorageInit, WriteAtomic, CorruptLatest, StartWipe, Refuse

\* Going on to the next stage does not change the task.
LEMMA TaskGoesOn ==
  ASSUME StorageInv, Programs, NEW stage \in {"erase", "length", "checksum", "payload"},
         job' = [job EXCEPT !.stage = stage]
  PROVE  Task' = Task
BY JobGoesOn DEF Task, StorageInv, StorageTypeOK

LEMMA EraseSectorRefines ==
  ASSUME StorageInv, StorageInv', EraseSector
  PROVE  [R!Next]_<<Latest, Hidden, Task>>
<1> DEFINE s == job.slot
<1>1. /\ Programs /\ s \in Slots /\ Stage("erase")
      /\ flash' = [flash EXCEPT ![s] = Invalid]
      /\ Task' = Task /\ Task.kind = job.kind
  BY JobFields, TaskGoesOn, TaskOf
     DEF EraseSector, Stage, Programs, Program, StorageInv, StorageTypeOK
<1>2. CASE job.kind = "write" /\ IsSlotValid(s)
  <2>1. IsSlotValid(Other(s)) /\ Generation(s) < Generation(Other(s))
    BY <1>1, <1>2 DEF StorageInv, JobStages
  <2>2. Latest = flash[Other(s)].record
    BY <1>1, <2>1, OtherSlot, SlotView DEF StorageInv
  <2>3. PICK t \in Slots : t = s
    BY <1>1
  <2>4. /\ ~IsSlotValid(t)' /\ IsSlotValid(Other(t))'
        /\ flash'[Other(t)] = flash[Other(t)]
    BY <1>1, <2>1, <2>3, OtherSlot, ContentsType
       DEF IsSlotValid, StorageInv, StorageTypeOK
  <2>5. Latest' = Latest /\ Hidden' = None
    BY <2>2, <2>3, <2>4, SlotViewNext DEF StorageInv, Under
  <2>6. QED
    BY <1>1, <1>2, <2>5 DEF R!Next, R!Forget, R!MayEnd, R!Idle
<1>3. CASE ~(job.kind = "write" /\ IsSlotValid(s))
  <2>1. IsSlotValid(s) => Generation(s) = job.generation
    BY <1>1, <1>3 DEF StorageInv, JobStages, Programs
  <2>2. /\ Latest = IF IsSlotValid(s) THEN flash[s].record ELSE Under(s)
        /\ Hidden = IF IsSlotValid(s) THEN Under(s) ELSE None
        /\ Latest' = Under(s) /\ Hidden' = None
    BY <1>1, <2>1, ProgramView, ContentsType DEF StorageInv
  <2>3. CASE IsSlotValid(s)
    BY <1>1, <1>3, <2>2, <2>3 DEF R!Next, R!FallBack, R!MayEnd, Programs
  <2>4. CASE ~IsSlotValid(s)
    BY <1>1, <2>2, <2>4
  <2>5. QED
    BY <2>3, <2>4
<1>4. QED
  BY <1>2, <1>3

\* A header may come and go over the record it is written for: the reader sees
\* a torn record or the one beneath.
LEMMA HeaderRefines ==
  ASSUME StorageInv, StorageInv', NEW sealed \in Seals, NEW next, Programs,
         \/ Stage("length") /\ next = "checksum"
         \/ Stage("checksum") /\ next = "payload",
         Program(Header(sealed), next)
  PROVE  [R!Next]_<<Latest, Hidden, Task>>
<1> DEFINE s == job.slot
<1>1. /\ s \in Slots /\ job.generation \in 1..MaxGeneration
      /\ flash' = [flash EXCEPT ![s] = Header(sealed)]
      /\ Task' = Task /\ Task.kind = job.kind
      /\ Header(sealed) \in {Invalid, Slot(job.generation, Torn)}
  BY JobFields, TaskGoesOn, TaskOf DEF Header, Program, StorageInv, StorageTypeOK
<1>2. /\ flash[s] \in {Invalid, Slot(job.generation, Torn)}
      /\ IsSlotValid(s) => Generation(s) = job.generation /\ flash[s].record = Torn
  BY <1>1, ContentsType DEF StorageInv, JobStages, IsSlotValid, Generation
<1>3. Header(sealed).valid => Header(sealed).record = Torn
  BY <1>1, ContentsType
<1>4. /\ Latest = IF IsSlotValid(s) THEN Torn ELSE Under(s)
      /\ Hidden = IF IsSlotValid(s) THEN Under(s) ELSE None
      /\ Latest' = IF Header(sealed).valid THEN Torn ELSE Under(s)
      /\ Hidden' = IF Header(sealed).valid THEN Under(s) ELSE None
  BY <1>1, <1>2, <1>3, ProgramView DEF StorageInv
<1>5. CASE IsSlotValid(s) <=> Header(sealed).valid
  BY <1>1, <1>4, <1>5
<1>6. CASE ~IsSlotValid(s) /\ Header(sealed).valid
  BY <1>1, <1>4, <1>6 DEF R!Next, R!Tear, Programs
<1>7. CASE IsSlotValid(s) /\ ~Header(sealed).valid
  BY <1>1, <1>4, <1>7 DEF R!Next, R!FallBack, R!MayEnd, Programs
<1>8. QED
  BY <1>5, <1>6, <1>7

LEMMA ProgramPayloadRefines ==
  ASSUME StorageInv, StorageInv', ProgramPayload
  PROVE  [R!Next]_<<Latest, Hidden, Task>>
<1> DEFINE s == job.slot
<1>1. /\ Programs /\ s \in Slots /\ job.generation \in 1..MaxGeneration
      /\ job.record \in Records \cup {Torn}
      /\ Task.kind = job.kind /\ (job.kind = "write" => Task.record = job.record)
      /\ Task' = R!Idle
  BY JobFields, TaskOf
     DEF ProgramPayload, Stage, Programs, StorageInv, StorageTypeOK, Task, NoJob, R!Idle
<1>2. CASE job.sealed
  <2>1. /\ flash[s] = Slot(job.generation, Torn)
        /\ flash' = [flash EXCEPT ![s] = Slot(job.generation, job.record)]
    BY <1>2 DEF ProgramPayload, StorageInv, JobStages, Header
  <2>2. IsSlotValid(s) /\ Generation(s) = job.generation /\ flash[s].record = Torn
    BY <1>1, <2>1, ContentsType DEF IsSlotValid, Generation
  <2>3. /\ Slot(job.generation, job.record).valid
        /\ Slot(job.generation, job.record).record = job.record
    BY <1>1, ContentsType
  <2>4. /\ Latest = Torn /\ Latest' = job.record
        /\ Hidden' = Hidden
    BY <1>1, <2>1, <2>2, <2>3, ProgramView DEF StorageInv
  <2>5. QED
    BY <1>1, <2>4 DEF R!Next, R!Complete, Programs
<1>3. CASE ~job.sealed
  BY <1>3, EndRefines DEF ProgramPayload
<1>4. QED
  BY <1>2, <1>3

\* Erasing a sector forgets the older record or falls back to it.
LEMMA WipeRefines ==
  ASSUME StorageInv, StorageInv', WipeFirst \/ WipeSecond
  PROVE  [R!Next]_<<Latest, Hidden, Task>>
<1>1. PICK s \in Slots : WipeSector(s)
  BY DEF WipeFirst, WipeSecond, Slots
<1>2. /\ Task = R!Wipe /\ Task.kind = "wipe"
      /\ Task # R!Idle
  BY <1>1, TaskOf DEF WipeSector, StorageInv, StorageTypeOK, R!Wipe, R!Idle
<1>3. Task' \in {Task, R!Idle}
  <2>1. CASE WipeFirst
    <3>1. job'.kind = "wipe"
      BY <1>1, <2>1, JobFields DEF WipeFirst, WipeSector, StorageInv, StorageTypeOK
    <3>2. QED
      BY <1>2, <3>1 DEF Task, R!Wipe
  <2>2. CASE WipeSecond
    BY <2>2 DEF WipeSecond, Task, NoJob, R!Idle
  <2>3. QED
    BY <2>1, <2>2
<1>4. flash'[s] = Invalid /\ flash'[Other(s)] = flash[Other(s)]
  BY <1>1, WipeSectorKeeps
<1>5. ~IsSlotValid(s)' /\ Under(s)' = Under(s)
  BY <1>4, ContentsType DEF IsSlotValid, Under
<1>6. Latest' = Under(s) /\ Hidden' = None
  BY <1>5, SlotViewNext DEF StorageInv
<1>7. CASE \/ ~(IsSlotValid(s) /\ IsSlotValid(Other(s)))
           \/ Generation(Other(s)) < Generation(s)
  <2>1. /\ Latest = IF IsSlotValid(s) THEN flash[s].record ELSE Under(s)
        /\ Hidden = IF IsSlotValid(s) THEN Under(s) ELSE None
    BY <1>7, SlotView DEF StorageInv
  <2>2. CASE IsSlotValid(s)
    BY <1>2, <1>3, <1>6, <2>1, <2>2 DEF R!Next, R!FallBack, R!MayEnd
  <2>3. CASE ~IsSlotValid(s)
    BY <1>2, <1>3, <1>6, <2>1, <2>3 DEF R!Next, R!Forget, R!MayEnd
  <2>4. QED
    BY <2>2, <2>3
<1>8. CASE /\ IsSlotValid(s) /\ IsSlotValid(Other(s))
           /\ ~(Generation(Other(s)) < Generation(s))
  <2>1. Generation(s) \in Nat /\ Generation(Other(s)) \in Nat
    BY <1>8, OtherSlot, ContentsType DEF IsSlotValid, Generation, StorageInv, StorageTypeOK
  <2>2. Generation(s) # Generation(Other(s))
    BY <1>8 DEF StorageInv, DistinctGenerations, ValidSlots, IsSlotValid, Generation,
                Slots, SlotA, SlotB, Other
  <2>3. Latest = flash[Other(s)].record
    BY <1>8, <2>1, <2>2, OtherSlot, SlotView DEF StorageInv
  <2>4. Latest' = Latest
    BY <1>6, <1>8, <2>3 DEF Under
  <2>5. QED
    BY <1>2, <1>3, <1>6, <2>4 DEF R!Next, R!Forget, R!MayEnd
<1>9. QED
  BY <1>7, <1>8

\* Every step of the slots is a step of the register or leaves it alone.
LEMMA StorageRefines ==
  StorageInv /\ StorageInv' /\ [StorageNext]_storageVars =>
    [R!Next]_<<Latest, Hidden, Task>>
<1> SUFFICES ASSUME StorageInv, StorageInv', [StorageNext]_storageVars
             PROVE  [R!Next]_<<Latest, Hidden, Task>>
  OBVIOUS
<1>1. CASE UNCHANGED storageVars
  BY <1>1, ViewUnchanged DEF storageVars, Task
<1>2. CASE FlashFails \/ PowerCut
  BY <1>2, EndRefines DEF FlashFails, PowerCut
<1>3. CASE ProgramLength
  <2>1. PICK sealed \in Seals : Program(Header(sealed), "checksum")
    BY <1>3 DEF ProgramLength
  <2>2. QED
    BY <1>3, <2>1, HeaderRefines DEF ProgramLength, Stage, Programs
<1>4. CASE ProgramChecksum
  <2>1. Programs /\ job.sealed \in Seals
    BY <1>4, JobFields DEF ProgramChecksum, Stage, Programs, StorageInv, StorageTypeOK
  <2>2. QED
    BY <1>4, <2>1, HeaderRefines DEF ProgramChecksum
<1>5. QED
  BY <1>1, <1>2, <1>3, <1>4, CallRefines, EraseSectorRefines, ProgramPayloadRefines,
     WipeRefines DEF StorageNext, StorageStep

LEMMA StorageStartRefines == StorageStart => R!Init
<1> SUFFICES ASSUME StorageStart PROVE R!Init
  OBVIOUS
<1>1. StorageTypeOK /\ ValidSlots = {}
  BY StorageStartInv, ContentsType DEF StorageInv, StorageStart, ValidSlots, IsSlotValid
<1>2. Latest = None /\ Hidden = None
  BY <1>1, ReaderView
<1>3. QED
  BY <1>2 DEF StorageStart, Task, NoJob, R!Init, R!Idle

-----------------------------------------------------------------------------
(***************************************************************************)
(* Where records come from.                                                *)
(***************************************************************************)

\* The records in valid slots and the one being programmed.
Held == {flash[s].record : s \in ValidSlots} \cup (IF Programs THEN {job.record} ELSE {})

\* What leaves flash and the job alone, or drops the job, brings no record.
LEMMA NoRecordAdded ==
  ASSUME UNCHANGED flash, job' = job \/ ~Programs'
  PROVE  Held' \subseteq Held
BY DEF Held, ValidSlots, IsSlotValid, Programs

LEMMA InterruptHeld ==
  ASSUME FlashFails \/ PowerCut
  PROVE  Held' \subseteq Held
BY NoRecordAdded DEF FlashFails, PowerCut, Programs, NoJob

\* A write brings its own record, a rewrite one that is there.
LEMMA WriteHeld ==
  ASSUME NEW record \in Records, WriteAtomic(record)
  PROVE  Held' \subseteq Held \cup {record}
<1>1. CASE StartWrite(record)
  <2>1. UNCHANGED flash /\ job'.record = record
    BY <1>1 DEF StartWrite, Programming
  <2>2. QED
    BY <2>1 DEF Held, ValidSlots, IsSlotValid
<1>2. CASE Refuse
  BY <1>2, NoRecordAdded DEF Refuse
<1>3. QED
  BY <1>1, <1>2 DEF WriteAtomic

LEMMA CorruptHeld ==
  ASSUME StorageInv, CorruptLatest
  PROVE  Held' \subseteq Held
<1>1. CASE initialized /\ ValidSlots # {}
  <2>1. LatestSlot \in ValidSlots
    BY <1>1, LatestSlotNewest DEF ValidSlots, StorageInv
  <2>2. UNCHANGED flash /\ job'.record = flash[LatestSlot].record
    BY <1>1 DEF CorruptLatest, Programming
  <2>3. QED
    BY <2>1, <2>2 DEF Held, ValidSlots, IsSlotValid
<1>2. CASE ~(initialized /\ ValidSlots # {})
  BY <1>2, NoRecordAdded DEF CorruptLatest, Refuse
<1>3. QED
  BY <1>1, <1>2

LEMMA StartWipeHeld ==
  ASSUME StartWipe
  PROVE  Held' \subseteq Held
BY NoRecordAdded DEF StartWipe, Refuse, Programs

\* Programming puts the job's record, or a torn one, into the job's slot.
LEMMA ProgrammedHeld ==
  ASSUME StorageInv, Programs,
         NEW contents \in {Invalid, Slot(job.generation, Torn),
                           Slot(job.generation, job.record)},
         flash' = [flash EXCEPT ![job.slot] = contents],
         Programs' => job'.record = job.record
  PROVE  Held' \subseteq Held \cup {Torn}
<1>1. /\ job.slot \in Slots /\ job.generation \in 1..MaxGeneration
      /\ job.record \in Records \cup {Torn}
  BY JobFields DEF StorageInv, StorageTypeOK
<1>2. flash'[job.slot] = contents /\ flash'[Other(job.slot)] = flash[Other(job.slot)]
  BY <1>1, SlotProgrammed
<1>3. contents.valid => contents.record \in {Torn, job.record}
  BY <1>1, ContentsType
<1>4. ASSUME NEW s \in Slots, IsSlotValid(s)'
      PROVE  flash'[s].record \in Held \cup {Torn}
  <2>1. CASE s = job.slot
    BY <1>2, <1>3, <1>4, <2>1 DEF IsSlotValid, Held
  <2>2. CASE s = Other(job.slot)
    BY <1>2, <1>4, <2>2 DEF IsSlotValid, ValidSlots, Held
  <2>3. QED
    BY <1>1, <2>1, <2>2, OtherSlot
<1>5. QED
  BY <1>4 DEF Held, ValidSlots

\* Steps on flash move records about or tear them; a finished wipe leaves none.
LEMMA StorageStepHeld ==
  ASSUME StorageInv, StorageStep
  PROVE  /\ Held' \subseteq Held \cup {Torn}
         /\ WipeSecond => Held' = {}
<1>1. ASSUME Programs, NEW contents, NEW next \in {"length", "checksum", "payload"},
             contents \in {Invalid, Slot(job.generation, Torn)},
             Program(contents, next)
      PROVE  Held' \subseteq Held \cup {Torn}
  <2>1. job'.record = job.record
    BY <1>1, JobGoesOn DEF Program, StorageInv, StorageTypeOK
  <2>2. QED
    BY <1>1, <2>1, ProgrammedHeld DEF Program
<1>2. ASSUME EraseSector PROVE Held' \subseteq Held \cup {Torn}
  <2>1. Programs /\ Program(Invalid, "length")
    BY <1>2 DEF EraseSector, Stage, Programs
  <2>2. QED
    BY <1>1, <2>1
<1>3. ASSUME ProgramLength PROVE Held' \subseteq Held \cup {Torn}
  <2>1. Programs /\ \E sealed \in Seals : Program(Header(sealed), "checksum")
    BY <1>3 DEF ProgramLength, Stage, Programs
  <2>2. PICK contents \in {Invalid, Slot(job.generation, Torn)} :
          Program(contents, "checksum")
    BY <2>1 DEF Header
  <2>3. QED
    BY <1>1, <2>1, <2>2
<1>4. ASSUME ProgramChecksum PROVE Held' \subseteq Held \cup {Torn}
  <2>1. Programs /\ Program(Header(job.sealed), "payload")
    BY <1>4 DEF ProgramChecksum, Stage, Programs
  <2>2. QED
    BY <1>1, <2>1 DEF Header
<1>5. ASSUME ProgramPayload PROVE Held' \subseteq Held \cup {Torn}
  <2>1. Programs /\ ~Programs'
    BY <1>5 DEF ProgramPayload, Stage, Programs, NoJob
  <2>2. CASE job.sealed
    BY <1>5, <2>1, <2>2, ProgrammedHeld DEF ProgramPayload
  <2>3. CASE ~job.sealed
    BY <1>5, <2>1, <2>3, NoRecordAdded DEF ProgramPayload
  <2>4. QED
    BY <2>2, <2>3
<1>6. ASSUME WipeFirst PROVE Held' \subseteq Held \cup {Torn}
  <2>1. ~Programs'
    BY <1>6, JobFields DEF WipeFirst, WipeSector, Programs, StorageInv, StorageTypeOK
  <2>2. /\ flash'[SlotA] = Invalid /\ flash'[SlotB] = flash[SlotB]
    BY <1>6, WipeSectorKeeps DEF WipeFirst, Slots, SlotA, SlotB, Other
  <2>3. QED
    BY <2>1, <2>2, ContentsType DEF Held, ValidSlots, IsSlotValid, Slots
<1>7. ASSUME WipeSecond PROVE Held' = {}
  <2>1. ~Programs'
    BY <1>7 DEF WipeSecond, Programs, NoJob
  <2>2. flash[SlotA] = Invalid
    BY <1>7 DEF WipeSecond, WipeSector, StorageInv, WipeOrder
  <2>3. flash'[SlotB] = Invalid /\ flash'[SlotA] = Invalid
    BY <1>7, <2>2, WipeSectorKeeps DEF WipeSecond, Slots, SlotA, SlotB, Other
  <2>4. ValidSlots' = {}
    BY <2>3, ContentsType DEF ValidSlots, IsSlotValid, Slots
  <2>5. Held' = {}
    BY <2>1, <2>4 DEF Held
  <2>6. QED
    BY <2>5
<1>8. ~(WipeSecond /\ (EraseSector \/ ProgramLength \/ ProgramChecksum \/ ProgramPayload
                       \/ WipeFirst))
  BY DEF WipeSecond, WipeSector, EraseSector, ProgramLength, ProgramChecksum,
         ProgramPayload, WipeFirst, Stage, SlotA, SlotB
<1>9. QED
  BY <1>2, <1>3, <1>4, <1>5, <1>6, <1>7, <1>8 DEF StorageStep

-----------------------------------------------------------------------------
(***************************************************************************)
(* The slots by themselves.                                                *)
(***************************************************************************)

\* The slots keep their shape and two valid ones never carry the same
\* generation, wherever a write, a rewrite or a wipe is interrupted.
THEOREM SlotsDistinct == StorageSpec => [](StorageTypeOK /\ DistinctGenerations)
<1>1. StorageInv => StorageTypeOK /\ DistinctGenerations
  BY DEF StorageInv
<1>2. QED
  BY <1>1, StorageStartInv, StorageNextInv, PTL DEF StorageSpec

\* The two slots behave as one register that is torn and completed or falls
\* back: no interruption brings back a record older than the one read before.
THEOREM SlotsImplementRegister == StorageSpec => ImplementsRegister
BY StorageStartInv, StorageNextInv, StorageStartRefines, StorageRefines, PTL
   DEF StorageSpec, ImplementsRegister, R!Spec


-----------------------------------------------------------------------------
(***************************************************************************)
(* Settings over the slots: the inductive invariant.                       *)
(***************************************************************************)

\* main() starts the next call only when flash is done.
OneCallAtATime == Busy => pc \in {"reload", "on", "wiped"}

\* A wipe runs in its own call, whose cache is already empty.
WipeForgets == job.kind = "wipe" => pc = "wiped" /\ cache = None

\* Settings in flash, on the way there or in RAM were saved since the last wipe.
RecordsSaved == \A s \in Settings : SettingsRecord(s) \in Held => s \in saved

CacheSaved == cache \in saved \cup {None, Torn}

SettingsInv ==
    /\ StorageInv /\ SettingsTypeOK
    /\ OneCallAtATime /\ WipeForgets /\ RecordsSaved /\ CacheSaved

-----------------------------------------------------------------------------
(***************************************************************************)
(* Facts about the operators.                                              *)
(***************************************************************************)

LEMMA NoSettings == None \notin Settings /\ Torn \notin Settings
BY RecordsAssumption

LEMMA DefaultsType == Defaults \in Settings /\ BuildBlob(Defaults) \in Settings
BY SettingsAssumption DEF Defaults, Settings, BuildBlob

\* build_blob turns every pair of values into settings.
LEMMA BlobType ==
  ASSUME NEW s \in [autolock : Autolocks, limit : Limits]
  PROVE  BuildBlob(s) \in Settings
BY SettingsAssumption DEF BuildBlob, Settings

\* A settings record is a record and names its settings.
LEMMA SettingsRecordType ==
  ASSUME NEW s \in Settings
  PROVE  /\ SettingsRecord(s) \in Records /\ SettingsRecord(s) # Torn
         /\ SettingsRecord(s).settings = s
         /\ \A t \in Settings : SettingsRecord(t) = SettingsRecord(s) => t = s
BY RecordsAssumption, StorageAssumption DEF SettingsRecord, StoredRecords

LEMMA TotpRecordType ==
  /\ TotpRecord \in Records
  /\ \A s \in Settings : SettingsRecord(s) # TotpRecord
BY RecordsAssumption DEF SettingsRecord, TotpRecord, StoredRecords

-----------------------------------------------------------------------------
(***************************************************************************)
(* What each call does to the slots.                                       *)
(***************************************************************************)

\* A step of the slots, or a call refused before flash is touched.
SlotStep == [StorageNext]_storageVars \/ Refuse

LEMMA SlotStepInv ==
  ASSUME StorageInv, SlotStep
  PROVE  StorageInv' /\ [R!Next]_<<Latest, Hidden, Task>>
<1>1. CASE [StorageNext]_storageVars
  BY <1>1, StorageNextInv, StorageRefines
<1>2. CASE Refuse
  <2>1. StorageInv'
    BY <1>2 DEF Refuse, StorageInv, StorageTypeOK, DistinctGenerations, ValidSlots,
                IsSlotValid, JobNewest, JobStages, WipeOrder, Programs, Stage, Generation,
                Header
  <2>2. QED
    BY <1>2, <2>1, ViewUnchanged DEF Refuse, Task
<1>3. QED
  BY <1>1, <1>2 DEF SlotStep

\* A write that main() may start: it brings at most its own record.
LEMMA WriteSlotStep ==
  ASSUME ~Busy, NEW record \in Records, WriteAtomic(record)
  PROVE  SlotStep /\ (job'.kind = "wipe" => job.kind = "wipe")
<1>1. SlotStep
  BY DEF SlotStep, StorageNext, Call
<1>2. CASE initialized
  BY <1>1, <1>2 DEF WriteAtomic, StartWrite, Programming
<1>3. CASE ~initialized
  BY <1>1, <1>3 DEF WriteAtomic, Refuse
<1>4. QED
  BY <1>1, <1>2, <1>3

LEMMA BusyNext == ASSUME job' = job PROVE Busy' <=> Busy
BY DEF Busy

\* Saving, from a state of main() that waits for flash: the settings saved are
\* remembered before any record of them exists.
LEMMA SaveInv ==
  ASSUME SettingsInv, ~Busy, NEW s \in [autolock : Autolocks, limit : Limits],
         NEW next \in {"reload", "on"}, Save(s, next)
  PROVE  SettingsInv' /\ SlotStep /\ UNCHANGED runtime
<1> DEFINE blob == BuildBlob(s)
<1>1. blob \in Settings
  BY BlobType
<1>2. job = NoJob /\ job.kind # "wipe"
  BY DEF Busy, NoJob
<1>3. CASE crypto = "ready"
  <2>1. /\ cache' = blob /\ saved' = saved \cup {blob}
        /\ WriteAtomic(SettingsRecord(blob))
        /\ pc' = next
        /\ UNCHANGED <<crypto, runtime, accounts>>
    BY <1>3 DEF Save
  <2>2. SlotStep /\ job'.kind # "wipe" /\ Held' \subseteq Held \cup {SettingsRecord(blob)}
    BY <1>1, <1>2, <2>1, SettingsRecordType, WriteSlotStep, WriteHeld
  <2>3. StorageInv'
    BY <2>2, SlotStepInv DEF SettingsInv
  <2>4. SettingsTypeOK'
    BY <1>1, <2>1, <2>3 DEF SettingsInv, SettingsTypeOK, StorageInv
  <2>5. RecordsSaved'
    BY <1>1, <2>1, <2>2, SettingsRecordType DEF SettingsInv, RecordsSaved
  <2>6. OneCallAtATime' /\ WipeForgets' /\ CacheSaved'
    BY <2>1, <2>2 DEF OneCallAtATime, WipeForgets, CacheSaved
  <2>7. QED
    BY <2>1, <2>2, <2>3, <2>4, <2>5, <2>6 DEF SettingsInv
<1>4. CASE crypto = "refuses"
  <2>1. /\ Refuse /\ pc' = next
        /\ UNCHANGED <<cache, saved, crypto, runtime, accounts>>
    BY <1>4 DEF Save
  <2>2. SlotStep /\ UNCHANGED <<flash, job>>
    BY <2>1 DEF SlotStep, Refuse
  <2>3. StorageInv' /\ Held' \subseteq Held
    BY <2>2, SlotStepInv, NoRecordAdded DEF SettingsInv
  <2>4. SettingsTypeOK'
    BY <2>1, <2>3 DEF SettingsInv, SettingsTypeOK, StorageInv
  <2>5. RecordsSaved' /\ OneCallAtATime' /\ WipeForgets' /\ CacheSaved'
    BY <1>2, <2>1, <2>2, <2>3
       DEF SettingsInv, RecordsSaved, OneCallAtATime, WipeForgets, CacheSaved
  <2>6. QED
    BY <2>1, <2>2, <2>3, <2>4, <2>5 DEF SettingsInv
<1>5. CASE crypto = "halts"
  <2>1. /\ pc' = "halted"
        /\ UNCHANGED <<storageVars, cache, saved, crypto, runtime, accounts>>
    BY <1>5 DEF Save, Halt
  <2>2. SlotStep /\ UNCHANGED <<flash, job>>
    BY <2>1 DEF SlotStep, storageVars
  <2>3. StorageInv' /\ Held' \subseteq Held
    BY <2>2, SlotStepInv, NoRecordAdded DEF SettingsInv
  <2>4. SettingsTypeOK'
    BY <2>1, <2>3 DEF SettingsInv, SettingsTypeOK, StorageInv
  <2>5. ~Busy'
    BY <2>2, BusyNext
  <2>6. RecordsSaved' /\ OneCallAtATime' /\ WipeForgets' /\ CacheSaved'
    BY <1>2, <2>1, <2>2, <2>3, <2>5
       DEF SettingsInv, RecordsSaved, OneCallAtATime, WipeForgets, CacheSaved
  <2>7. QED
    BY <2>1, <2>2, <2>3, <2>4, <2>6 DEF SettingsInv
<1>6. QED
  BY <1>3, <1>4, <1>5 DEF SettingsInv, SettingsTypeOK

\* A step that only changes RAM while flash is done.
LEMMA RamInv ==
  ASSUME SettingsInv, ~Busy, UNCHANGED <<storageVars, saved>>,
         SettingsTypeOK', CacheSaved'
  PROVE  SettingsInv' /\ SlotStep
<1>1. SlotStep /\ UNCHANGED <<flash, job>>
  BY DEF SlotStep, storageVars
<1>2. StorageInv' /\ Held' \subseteq Held
  BY <1>1, SlotStepInv, NoRecordAdded DEF SettingsInv
<1>3. ~Busy' /\ job'.kind # "wipe"
  BY <1>1, BusyNext DEF Busy, NoJob
<1>4. OneCallAtATime' /\ WipeForgets' /\ RecordsSaved'
  BY <1>2, <1>3 DEF SettingsInv, OneCallAtATime, WipeForgets, RecordsSaved
<1>5. QED
  BY <1>1, <1>2, <1>4 DEF SettingsInv

\* Whatever a read finds was saved, unless it is torn.
LEMMA LookedUpSaved ==
  ASSUME SettingsInv, NEW c \in LookedUp
  PROVE  c \in saved \cup {None, Torn}
<1>1. CASE cache # None
  BY <1>1 DEF LookedUp, SettingsInv, CacheSaved
<1>2. CASE cache = None /\ IsSettings(ReadLatest)
  <2>1. PICK s \in Settings : ReadLatest = SettingsRecord(s)
    BY <1>2 DEF IsSettings
  <2>2. c = s
    BY <1>2, <2>1, SettingsRecordType DEF LookedUp
  <2>3. ReadLatest \in Held
    <3>1. ReadLatest # None
      BY <2>1, SettingsRecordType, StorageAssumption
    <3>2. ReadLatest = flash[LatestSlot].record /\ ValidSlots # {}
      BY <3>1 DEF ReadLatest, Latest
    <3>3. LatestSlot \in ValidSlots
      BY <3>2, LatestSlotNewest DEF ValidSlots, SettingsInv, StorageInv
    <3>4. QED
      BY <3>2, <3>3 DEF Held
  <2>4. QED
    BY <2>1, <2>2, <2>3 DEF SettingsInv, RecordsSaved
<1>3. CASE cache = None /\ ~IsSettings(ReadLatest)
  BY <1>3 DEF LookedUp
<1>4. QED
  BY <1>1, <1>2, <1>3

\* Loading takes only settings that were saved.
LEMMA LoadInv ==
  ASSUME SettingsInv, ~Busy, NEW found \in {"totp", "on"},
         NEW missing \in {"reset", "halted", "on"}, Load(found, missing)
  PROVE  /\ SettingsInv' /\ SlotStep
         /\ runtime' \notin {runtime, None} => runtime' \in saved
<1>1. UNCHANGED <<storageVars, crypto, accounts, saved>>
  BY DEF Load
<1>2. PICK c \in LookedUp :
        /\ cache' = c
        /\ IF c # None /\ crypto = "halts" THEN Halt /\ UNCHANGED runtime
           ELSE IF Decrypts(c) THEN runtime' = c /\ pc' = found
           ELSE pc' = missing /\ UNCHANGED runtime
  BY DEF Load
<1>3. c \in saved \cup {None, Torn} /\ saved \subseteq Settings
  BY LookedUpSaved DEF SettingsInv, SettingsTypeOK
<1>4. CacheSaved'
  BY <1>1, <1>2, <1>3 DEF CacheSaved
<1>5. runtime' = runtime \/ (runtime' = c /\ c \in saved)
  BY <1>2, <1>3, NoSettings DEF Decrypts
<1>6. pc' \in {"totp", "on", "reset", "halted"}
  BY <1>2 DEF Halt
<1>7. SettingsTypeOK'
  <2>1. StorageTypeOK'
    BY <1>1 DEF storageVars, StorageTypeOK, SettingsInv, StorageInv
  <2>2. QED
    BY <1>1, <1>2, <1>3, <1>5, <1>6, <2>1 DEF SettingsInv, SettingsTypeOK
<1>8. QED
  BY <1>1, <1>4, <1>5, <1>7, RamInv

-----------------------------------------------------------------------------
(***************************************************************************)
(* The invariant is inductive.                                             *)
(***************************************************************************)

\* What the proof shows of every step.
Sound ==
    /\ SettingsInv' /\ SlotStep
    /\ runtime' \notin {runtime, None} => runtime' \in saved

\* Flash is done in every state in which main() calls.
LEMMA Idle ==
  ASSUME SettingsInv, pc \notin {"reload", "on", "wiped"}
  PROVE  ~Busy
BY DEF SettingsInv, OneCallAtATime

LEMMA PowerOnSound == ASSUME SettingsInv, PowerOn PROVE Sound
<1>1. /\ ~Busy /\ StorageInit /\ pc' = "load"
      /\ crypto' \in {"ready", "refuses", "halts"}
      /\ UNCHANGED <<cache, runtime, accounts, saved>>
  BY Idle DEF PowerOn
<1>2. SlotStep /\ UNCHANGED <<flash, job>>
  BY <1>1 DEF SlotStep, StorageNext, Call, StorageInit
<1>3. StorageInv' /\ Held' \subseteq Held
  BY <1>2, SlotStepInv, NoRecordAdded DEF SettingsInv
<1>4. ~Busy' /\ job'.kind # "wipe"
  BY <1>1, <1>2, BusyNext DEF Busy, NoJob
<1>5. SettingsTypeOK' /\ OneCallAtATime' /\ WipeForgets' /\ RecordsSaved' /\ CacheSaved'
  BY <1>1, <1>3, <1>4
     DEF SettingsInv, SettingsTypeOK, StorageInv, OneCallAtATime, WipeForgets,
         RecordsSaved, CacheSaved
<1>6. QED
  BY <1>1, <1>2, <1>3, <1>5 DEF Sound, SettingsInv

LEMMA BootSound == ASSUME SettingsInv, Boot PROVE Sound
<1>1. CASE BootLoad
  BY <1>1, Idle, LoadInv DEF BootLoad, Sound
<1>2. CASE BootReset
  <2>1. ~Busy /\ Save(Defaults, "reload")
    BY <1>2, Idle DEF BootReset, FactoryReset
  <2>2. Defaults \in [autolock : Autolocks, limit : Limits]
    BY SettingsAssumption DEF Defaults
  <2>3. QED
    BY <2>1, <2>2, SaveInv DEF Sound
<1>3. CASE BootReload
  BY <1>3, LoadInv DEF BootReload, Sound
<1>4. CASE BootTotp
  <2>1. ~Busy /\ UNCHANGED <<storageVars, saved, runtime>>
    BY <1>4, Idle DEF BootTotp
  <2>2. SettingsTypeOK' /\ CacheSaved'
    BY <1>4, SettingsAssumption
       DEF BootTotp, storageVars, SettingsInv, SettingsTypeOK, StorageTypeOK, CacheSaved
  <2>3. QED
    BY <2>1, <2>2, RamInv DEF Sound
<1>5. QED
  BY <1>1, <1>2, <1>3, <1>4 DEF Boot

LEMMA WipeSettingsSound == ASSUME SettingsInv, WipeSettings PROVE Sound
<1>1. /\ ~Busy /\ StartWipe /\ cache' = None /\ pc' = "wiped"
      /\ UNCHANGED <<crypto, runtime, accounts, saved>>
  BY DEF WipeSettings, Running
<1>2. SlotStep
  BY <1>1 DEF SlotStep, StorageNext, Call
<1>3. StorageInv' /\ Held' \subseteq Held
  BY <1>1, <1>2, SlotStepInv, StartWipeHeld DEF SettingsInv
<1>4. SettingsTypeOK' /\ OneCallAtATime' /\ WipeForgets' /\ RecordsSaved' /\ CacheSaved'
  BY <1>1, <1>3
     DEF SettingsInv, SettingsTypeOK, StorageInv, OneCallAtATime, WipeForgets,
         RecordsSaved, CacheSaved
<1>5. QED
  BY <1>1, <1>2, <1>3, <1>4 DEF Sound, SettingsInv

LEMMA CorruptRecordSound == ASSUME SettingsInv, CorruptRecord PROVE Sound
<1>1. /\ ~Busy /\ CorruptLatest /\ pc = "on"
      /\ UNCHANGED <<pc, crypto, cache, runtime, accounts, saved>>
  BY DEF CorruptRecord, Running, settingsVars
<1>2. SlotStep
  BY <1>1 DEF SlotStep, StorageNext, Call
<1>3. StorageInv' /\ Held' \subseteq Held
  BY <1>1, <1>2, SlotStepInv, CorruptHeld DEF SettingsInv
<1>4. job'.kind # "wipe"
  <2>1. CASE initialized /\ ValidSlots # {}
    <3>1. job' = Programming("rewrite", LatestSlot, flash[LatestSlot].generation,
                             flash[LatestSlot].record, TRUE)
      BY <1>1, <2>1 DEF CorruptLatest
    <3>2. QED
      BY <3>1 DEF Programming
  <2>2. CASE ~(initialized /\ ValidSlots # {})
    <3>1. job = NoJob /\ job' = job
      BY <1>1, <2>2 DEF CorruptLatest, Refuse, Busy
    <3>2. QED
      BY <3>1 DEF NoJob
  <2>3. QED
    BY <2>1, <2>2
<1>5. SettingsTypeOK' /\ OneCallAtATime' /\ WipeForgets' /\ RecordsSaved' /\ CacheSaved'
  BY <1>1, <1>3, <1>4
     DEF SettingsInv, SettingsTypeOK, StorageInv, OneCallAtATime, WipeForgets,
         RecordsSaved, CacheSaved
<1>6. QED
  BY <1>1, <1>2, <1>3, <1>5 DEF Sound, SettingsInv

LEMMA SaveTotpSound == ASSUME SettingsInv, SaveTotp PROVE Sound
<1>1. /\ ~Busy /\ pc = "on"
      /\ UNCHANGED <<crypto, cache, runtime, accounts, saved>>
  BY DEF SaveTotp, Running
<1>2. job = NoJob /\ job.kind # "wipe"
  BY <1>1 DEF Busy, NoJob
<1>3. CASE UNCHANGED storageVars /\ pc' = "halted"
  <2>1. SettingsTypeOK' /\ CacheSaved'
    BY <1>1, <1>3
       DEF storageVars, SettingsInv, SettingsTypeOK, StorageTypeOK, CacheSaved
  <2>2. QED
    BY <1>1, <1>3, <2>1, RamInv DEF Sound
<1>4. CASE (Refuse \/ WriteAtomic(TotpRecord)) /\ UNCHANGED pc
  <2>1. SlotStep /\ job'.kind # "wipe" /\ Held' \subseteq Held \cup {TotpRecord}
    <3>1. CASE Refuse
      BY <1>2, <3>1, NoRecordAdded DEF SlotStep, Refuse
    <3>2. CASE WriteAtomic(TotpRecord)
      BY <1>1, <1>2, <3>2, TotpRecordType, WriteSlotStep, WriteHeld
    <3>3. QED
      BY <1>4, <3>1, <3>2
  <2>2. StorageInv'
    BY <2>1, SlotStepInv DEF SettingsInv
  <2>3. RecordsSaved'
    BY <1>1, <2>1, TotpRecordType DEF SettingsInv, RecordsSaved
  <2>4. SettingsTypeOK' /\ OneCallAtATime' /\ WipeForgets' /\ CacheSaved'
    BY <1>1, <1>4, <2>1, <2>2
       DEF SettingsInv, SettingsTypeOK, StorageInv, OneCallAtATime, WipeForgets, CacheSaved
  <2>5. QED
    BY <1>1, <2>1, <2>2, <2>3, <2>4 DEF Sound, SettingsInv
<1>5. QED
  BY <1>3, <1>4 DEF SaveTotp, Halt

\* The other calls on a running device.
LEMMA RunningSound ==
  ASSUME SettingsInv,
         \/ SaveSettings \/ LoadSettings \/ ResetAfterWipe \/ DebugRestore
         \/ AddAccount \/ DeleteAccount
  PROVE  Sound
<1>1. CASE SaveSettings
  <2>1. PICK autolock \in Autolocks, limit \in Limits :
          Save([autolock |-> autolock, limit |-> limit], "on")
    BY <1>1 DEF SaveSettings
  <2>2. QED
    BY <1>1, <2>1, SaveInv DEF SaveSettings, Running, Sound
<1>2. CASE LoadSettings
  BY <1>2, LoadInv DEF LoadSettings, Running, Sound
<1>3. CASE ResetAfterWipe
  <2>1. Defaults \in [autolock : Autolocks, limit : Limits]
    BY SettingsAssumption DEF Defaults
  <2>2. QED
    BY <1>3, <2>1, SaveInv DEF ResetAfterWipe, FactoryReset, Sound
<1>4. CASE DebugRestore \/ AddAccount \/ DeleteAccount
  <2>1. ~Busy /\ UNCHANGED <<storageVars, saved, runtime, pc, crypto>>
    BY <1>4 DEF DebugRestore, AddAccount, DeleteAccount, Running
  <2>2. cache' \in saved \cup {None, Torn}
    BY <1>4 DEF DebugRestore, AddAccount, DeleteAccount, SettingsInv, CacheSaved
  <2>3. accounts' \in 0..TotpCapacity
    BY <1>4, SettingsAssumption
       DEF DebugRestore, AddAccount, DeleteAccount, SettingsInv, SettingsTypeOK
  <2>4. SettingsTypeOK' /\ CacheSaved'
    BY <2>1, <2>2, <2>3
       DEF storageVars, SettingsInv, SettingsTypeOK, StorageTypeOK, CacheSaved
  <2>5. QED
    BY <2>1, <2>4, RamInv DEF Sound
<1>5. QED
  BY <1>1, <1>2, <1>3, <1>4

LEMMA FlashStepSound == ASSUME SettingsInv, FlashStep PROVE Sound
<1>1. /\ StorageStep /\ UNCHANGED <<pc, crypto, cache, runtime, accounts>>
      /\ saved' = IF WipeSecond THEN {} ELSE saved
  BY DEF FlashStep
<1>2. SlotStep
  BY <1>1 DEF SlotStep, StorageNext
<1>3. /\ StorageInv'
      /\ Held' \subseteq Held \cup {Torn}
      /\ WipeSecond => Held' = {}
  BY <1>1, <1>2, SlotStepInv, StorageStepHeld DEF SettingsInv
<1>4. Busy
  <2>1. \/ job.kind \in {"write", "rewrite"}
        \/ job.kind = "wipe"
    BY <1>1 DEF StorageStep, EraseSector, ProgramLength, ProgramChecksum, ProgramPayload,
                WipeFirst, WipeSecond, WipeSector, Stage
  <2>2. QED
    BY <2>1 DEF Busy, NoJob
<1>5. pc \in {"reload", "on", "wiped"}
  BY <1>4 DEF SettingsInv, OneCallAtATime
<1>6. WipeSecond => cache = None
  BY DEF WipeSecond, WipeSector, SettingsInv, WipeForgets
<1>7. job'.kind = "wipe" => job.kind = "wipe"
  <2>1. CASE WipeFirst \/ WipeSecond
    BY <2>1 DEF WipeFirst, WipeSecond, WipeSector
  <2>2. CASE ProgramPayload
    BY <2>2 DEF ProgramPayload, NoJob
  <2>3. CASE EraseSector \/ ProgramLength \/ ProgramChecksum
    <3>1. Programs /\ \E stage \in {"length", "checksum", "payload"} :
                         job' = [job EXCEPT !.stage = stage]
      BY <2>3 DEF EraseSector, ProgramLength, ProgramChecksum, Program, Stage, Programs
    <3>2. job'.kind = job.kind
      BY <3>1, JobGoesOn DEF SettingsInv, StorageInv, StorageTypeOK
    <3>3. QED
      BY <3>2
  <2>4. QED
    BY <1>1, <2>1, <2>2, <2>3 DEF StorageStep
<1>8. RecordsSaved'
  BY <1>1, <1>3, SettingsRecordType DEF SettingsInv, RecordsSaved
<1>9. SettingsTypeOK' /\ OneCallAtATime' /\ WipeForgets' /\ CacheSaved'
  BY <1>1, <1>3, <1>5, <1>6, <1>7
     DEF SettingsInv, SettingsTypeOK, StorageInv, OneCallAtATime, WipeForgets, CacheSaved
<1>10. QED
  BY <1>1, <1>2, <1>3, <1>8, <1>9 DEF Sound, SettingsInv

LEMMA InterruptSound ==
  ASSUME SettingsInv, FlashError \/ LosePower
  PROVE  Sound
<1>1. SlotStep /\ (FlashFails \/ PowerCut)
  BY DEF FlashError, LosePower, SlotStep, StorageNext
<1>2. StorageInv' /\ Held' \subseteq Held
  BY <1>1, SlotStepInv, InterruptHeld DEF SettingsInv
<1>3. ~Busy' /\ job'.kind # "wipe"
  BY <1>1 DEF FlashFails, PowerCut, Busy, NoJob
<1>4. /\ saved' = saved /\ runtime' \in {runtime, None}
      /\ cache' \in {cache, None} /\ accounts' \in {accounts, 0}
      /\ pc' \in {pc, "off"} /\ crypto' \in {crypto, "ready"}
  BY DEF FlashError, LosePower, settingsVars
<1>5. SettingsTypeOK'
  BY <1>2, <1>4, SettingsAssumption DEF SettingsInv, SettingsTypeOK, StorageInv
<1>6. OneCallAtATime' /\ WipeForgets' /\ RecordsSaved' /\ CacheSaved'
  BY <1>2, <1>3, <1>4
     DEF SettingsInv, OneCallAtATime, WipeForgets, RecordsSaved, CacheSaved
<1>7. QED
  BY <1>1, <1>2, <1>4, <1>5, <1>6 DEF Sound, SettingsInv

LEMMA SettingsInitInv == SettingsInit => SettingsInv
<1> SUFFICES ASSUME SettingsInit PROVE SettingsInv
  OBVIOUS
<1>1. StorageInv
  BY StorageStartInv DEF SettingsInit
<1>2. SettingsTypeOK /\ CacheSaved
  BY <1>1, SettingsAssumption DEF SettingsInit, SettingsTypeOK, StorageInv, CacheSaved
<1>3. ~Busy /\ job.kind # "wipe" /\ ~Programs /\ ValidSlots = {}
  BY ContentsType
     DEF SettingsInit, StorageStart, Busy, NoJob, Programs, ValidSlots, IsSlotValid
<1>4. OneCallAtATime /\ WipeForgets /\ RecordsSaved
  BY <1>3 DEF OneCallAtATime, WipeForgets, RecordsSaved, Held
<1>5. QED
  BY <1>1, <1>2, <1>4 DEF SettingsInv

LEMMA SettingsStepSound == SettingsInv /\ [SettingsNext]_vars => Sound
<1> SUFFICES ASSUME SettingsInv, [SettingsNext]_vars PROVE Sound
  OBVIOUS
<1>1. CASE UNCHANGED vars
  <2>1. SlotStep /\ UNCHANGED <<flash, job, runtime>>
    BY <1>1 DEF vars, settingsVars, storageVars, SlotStep
  <2>2. StorageInv' /\ Held' = Held /\ (Busy' <=> Busy)
    BY <2>1, SlotStepInv, BusyNext
       DEF SettingsInv, Held, ValidSlots, IsSlotValid, Programs
  <2>3. SettingsInv'
    BY <1>1, <2>1, <2>2
       DEF vars, settingsVars, SettingsInv, SettingsTypeOK, StorageInv, OneCallAtATime,
           WipeForgets, RecordsSaved, CacheSaved
  <2>4. QED
    BY <2>1, <2>3 DEF Sound
<1>2. QED
  BY <1>1, PowerOnSound, BootSound, WipeSettingsSound, CorruptRecordSound, SaveTotpSound,
     RunningSound, FlashStepSound, InterruptSound DEF SettingsNext

LEMMA SettingsInvariant == SettingsSpec => []SettingsInv
<1>1. SettingsInv /\ [SettingsNext]_vars => SettingsInv'
  BY SettingsStepSound DEF Sound
<1>2. QED
  BY <1>1, SettingsInitInv, PTL DEF SettingsSpec

-----------------------------------------------------------------------------
(***************************************************************************)
(* Theorems.                                                               *)
(***************************************************************************)

\* Slots, cache, settings in use, accounts and the place in the boot keep their
\* types through cuts, errors and every order of calls.
THEOREM SettingsTypeCorrect == SettingsSpec => []SettingsTypeOK
<1>1. SettingsInv => SettingsTypeOK
  BY DEF SettingsInv
<1>2. QED
  BY <1>1, SettingsInvariant, PTL

\* storage_backend_read_latest can always tell which of two slots is newer.
THEOREM GenerationsDistinct == SettingsSpec => []DistinctGenerations
<1>1. SettingsInv => DistinctGenerations
  BY DEF SettingsInv, StorageInv
<1>2. QED
  BY <1>1, SettingsInvariant, PTL

\* Under the calls of main() the two slots implement the register.
THEOREM SettingsImplementRegister == SettingsSpec => ImplementsRegister
<1>1. SettingsInv /\ [SettingsNext]_vars => [R!Next]_<<Latest, Hidden, Task>>
  BY SettingsStepSound, SlotStepInv DEF Sound, SettingsInv
<1>2. SettingsInit => R!Init
  BY StorageStartRefines DEF SettingsInit
<1>3. QED
  BY <1>1, <1>2, SettingsInvariant, PTL DEF SettingsSpec, ImplementsRegister, R!Spec

\* settings_store_load hands out only settings saved since the last complete
\* wipe, however the slots were torn, rewritten or taken by TOTP in between.
THEOREM OnlySavedLoaded == SettingsSpec => LoadsOnlySaved
<1>1. SettingsInv /\ [SettingsNext]_vars =>
        [runtime' \notin {runtime, None} => runtime' \in saved]_vars
  BY SettingsStepSound DEF Sound
<1>2. QED
  BY <1>1, SettingsInvariant, PTL DEF SettingsSpec, LoadsOnlySaved

\* Once the reset is through, an engine that works finds settings in the cache.
Reloadable == pc = "reload" /\ crypto = "ready" => cache \in Settings

LEMMA ReloadableStep ==
  ASSUME SettingsTypeOK, Reloadable, [SettingsNext]_vars
  PROVE  Reloadable'
<1>1. CASE BootReset
  <2>1. crypto \in {"ready", "refuses", "halts"} /\ crypto' = crypto
    BY <1>1 DEF BootReset, FactoryReset, Save, SettingsTypeOK
  <2>2. crypto = "ready" => cache' \in Settings
    BY <1>1, DefaultsType DEF BootReset, FactoryReset, Save
  <2>3. QED
    BY <2>1, <2>2 DEF Reloadable
<1>2. CASE BootLoad \/ BootReload
  BY <1>2 DEF BootLoad, BootReload, Load, Halt, Reloadable
<1>3. CASE PowerOn \/ BootTotp \/ LosePower
  BY <1>3 DEF PowerOn, BootTotp, LosePower, Reloadable
<1>4. CASE SaveSettings \/ ResetAfterWipe
  <2>1. PICK s : Save(s, "on")
    BY <1>4 DEF SaveSettings, ResetAfterWipe, FactoryReset
  <2>2. pc' \in {"on", "halted"}
    BY <2>1 DEF Save, Halt, SettingsTypeOK
  <2>3. QED
    BY <2>2 DEF Reloadable
<1>5. CASE LoadSettings
  BY <1>5 DEF LoadSettings, Load, Halt, Reloadable
<1>6. CASE WipeSettings
  BY <1>6 DEF WipeSettings, Reloadable
<1>7. CASE DebugRestore \/ CorruptRecord \/ AddAccount \/ DeleteAccount
  BY <1>7 DEF DebugRestore, CorruptRecord, AddAccount, DeleteAccount, Running, settingsVars,
     Reloadable
<1>8. CASE SaveTotp
  <2>1. pc = "on" /\ (pc' = pc \/ pc' = "halted")
    BY <1>8 DEF SaveTotp, Running, Halt, SettingsTypeOK
  <2>2. QED
    BY <2>1 DEF Reloadable
<1>9. CASE FlashStep \/ FlashError \/ UNCHANGED vars
  BY <1>9 DEF FlashStep, FlashError, vars, settingsVars, Reloadable
<1>10. QED
  BY <1>1, <1>2, <1>3, <1>4, <1>5, <1>6, <1>7, <1>8, <1>9 DEF SettingsNext, Boot

\* A boot with a crypto engine that works comes up, whatever flash holds and
\* whatever became of the write of its reset.
THEOREM BootsWithCrypto == SettingsSpec => HaltsOnlyWithoutCrypto
<1>1. SettingsInit => Reloadable
  BY DEF SettingsInit, Reloadable
<1>2. ASSUME Reloadable, Boot, pc' = "halted"
      PROVE  crypto # "ready"
  <2>1. CASE BootLoad
    BY <1>2, <2>1 DEF BootLoad, Load, Decrypts
  <2>2. CASE BootReset
    BY <1>2, <2>2 DEF BootReset, FactoryReset, Save
  <2>3. CASE BootReload
    <3>1. SUFFICES ASSUME crypto = "ready" PROVE FALSE
      OBVIOUS
    <3>2. cache \in Settings /\ cache # None
      BY <1>2, <2>3, <3>1, NoSettings DEF BootReload, Reloadable
    <3>3. LookedUp = {cache} /\ Decrypts(cache)
      BY <3>1, <3>2 DEF LookedUp, Decrypts
    <3>4. pc' = "totp"
      BY <2>3, <3>1, <3>3 DEF BootReload, Load
    <3>5. QED
      BY <1>2, <3>4
  <2>4. CASE BootTotp
    BY <1>2, <2>4 DEF BootTotp
  <2>5. QED
    BY <1>2, <2>1, <2>2, <2>3, <2>4 DEF Boot
<1>3. Reloadable => [Boot /\ pc' = "halted" => crypto # "ready"]_vars
  BY <1>2
<1>4. QED
  BY <1>1, <1>3, ReloadableStep, SettingsTypeCorrect, PTL
     DEF SettingsSpec, HaltsOnlyWithoutCrypto

=============================================================================
