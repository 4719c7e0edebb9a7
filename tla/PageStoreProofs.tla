-------------------------- MODULE PageStoreProofs ---------------------------
(***************************************************************************)
(* The driver of module Dfu implements PageStore, built without            *)
(* ENABLE_SAFEWRITE, for every flash layout at an even address, every set  *)
(* of buffers, block numbers and lengths, and wherever power fails.        *)
(***************************************************************************)
EXTENDS DfuProofs

Downloaded == (Images \cup {ZeroBuf}) \X (0 .. PageSize - 1)

\* The half-words of flash are those of a page, and data is not erased bytes.
HalfWordsFit == FLASH_BASE_ADDR % 2 = 0 /\ Erased \notin Downloaded

\* The bytes of a half-word are erased together, and stay so.
Paired(f) ==
  \A c \in Cells : c % 2 = 0 => (f[c] = Erased <=> f[c + 1] = Erased)

-----------------------------------------------------------------------------
(***************************************************************************)
(* Half-words.                                                             *)
(***************************************************************************)
LEMMA EvenMultiple ==
  ASSUME NEW k \in Nat
  PROVE  k * PageSize \in Nat /\ (k * PageSize) % 2 = 0
<1>1. PageSize \in Nat /\ PageSize % 4 = 0
  BY FlashAssumption
<1>2. PICK q \in Nat : PageSize = 2 * q
  <2>1. PageSize = 2 * (PageSize \div 2) /\ PageSize \div 2 \in Nat
    BY <1>1
  <2> QED
    BY <2>1
<1>3. k * PageSize = 2 * (k * q) /\ k * q \in Nat
  BY <1>2
<1> QED
  BY <1>3

\* The payload and the flash begin and end between half-words.
LEMMA EvenBorders ==
  ASSUME HalfWordsFit
  PROVE  FLASH_BASE_ADDR % 2 = 0 /\ start_addr % 2 = 0 /\ end_addr % 2 = 0
<1> DEFINE b == BootPages * PageSize
           e == FlashPages * PageSize
<1>1. /\ b \in Nat /\ b % 2 = 0 /\ e \in Nat /\ e % 2 = 0
  BY EvenMultiple, FlashAssumption
<1>2. start_addr = FLASH_BASE_ADDR + b /\ end_addr = FLASH_BASE_ADDR + e
  BY DEF start_addr, end_addr
<1> HIDE DEF b, e
<1>3. FLASH_BASE_ADDR \in Nat
  BY FlashAssumption
<1> QED
  BY <1>1, <1>2, <1>3 DEF HalfWordsFit

LEMMA PairInCells ==
  ASSUME HalfWordsFit, NEW c \in Int, c % 2 = 0
  PROVE  c \in Cells <=> c + 1 \in Cells
  BY EvenBorders, Layout DEF Cells

LEMMA PairInPage ==
  ASSUME HalfWordsFit, NEW a, NEW c \in Cells, c % 2 = 0
  PROVE  c \in PageOf(a) <=> c + 1 \in PageOf(a)
<1>1. c \in Int /\ c + 1 \in Cells
  BY PairInCells, Layout DEF Cells
<1>2. ASSUME NEW s \in PageStarts
      PROVE  c \in s .. s + PageSize - 1 <=> c + 1 \in s .. s + PageSize - 1
  <2>1. PICK k \in 0 .. FlashPages - 1 : s = FLASH_BASE_ADDR + k * PageSize
    BY DEF PageStarts
  <2>2. k * PageSize \in Nat /\ (k * PageSize) % 2 = 0
    BY EvenMultiple, FlashAssumption
  <2>3. s \in Nat /\ s % 2 = 0
    BY <2>1, <2>2, Layout DEF HalfWordsFit
  <2> QED
    BY <1>1, <2>3, Layout
<1> QED
  BY <1>1, <1>2, PageOfIs

\* Erasing, or half erasing, whole pages keeps half-words together.
LEMMA PagePaired ==
  ASSUME HalfWordsFit, NEW a, NEW byte, NEW f, Paired(f)
  PROVE  Paired([c \in Cells |-> IF c \in PageOf(a) THEN byte ELSE f[c]])
<1> SUFFICES ASSUME NEW c \in Cells, c % 2 = 0
             PROVE  LET g == [d \in Cells |-> IF d \in PageOf(a) THEN byte
                                              ELSE f[d]]
                    IN  g[c] = Erased <=> g[c + 1] = Erased
  BY DEF Paired
<1>1. c + 1 \in Cells
  BY PairInCells, Layout DEF Cells
<1>2. c \in PageOf(a) <=> c + 1 \in PageOf(a)
  BY PairInPage
<1>3. f[c] = Erased <=> f[c + 1] = Erased
  BY DEF Paired
<1> QED
  BY <1>1, <1>2, <1>3

\* Programming from an even address takes a half-word or leaves it.
LEMMA ProgramPair ==
  ASSUME TypeOK, HalfWordsFit, NEW f, Paired(f), NEW k \in Nat,
         2 * k <= PageSize, Target % 2 = 0, NEW c \in Cells, c % 2 = 0
  PROVE  LET g == flash_program_buffer(f, Target, Data, k)
         IN  /\ g[c] = Erased <=> g[c + 1] = Erased
             /\ \A d \in {c, c + 1} :
                  g[d] = IF Target <= d /\ d < Target + 2 * k /\ f[d] = Erased
                         THEN <<prog.buf.id, d - Target>> ELSE f[d]
<1>1. c \in Int /\ c + 1 \in Cells /\ Target \in Nat
  BY PairInCells, BlockTypes, Layout DEF Cells, Address
<1>2. HalfWord(Target, c) = {c, c + 1} /\ HalfWord(Target, c + 1) = {c, c + 1}
  BY <1>1 DEF HalfWord
<1>3. Target <= c <=> Target <= c + 1
  BY <1>1
<1>4. c < Target + 2 * k <=> c + 1 < Target + 2 * k
  BY <1>1
<1>5. f[c] = Erased <=> f[c + 1] = Erased
  BY DEF Paired
<1>6. ASSUME NEW d \in {c, c + 1}, Target <= d, d < Target + 2 * k
      PROVE  Data[d - Target] = <<prog.buf.id, d - Target>>
             /\ <<prog.buf.id, d - Target>> # Erased
  <2>1. d - Target \in 0 .. PageSize - 1
    BY <1>1, <1>6, Layout
  <2>2. prog.buf.id \in Images \cup {ZeroBuf}
    BY BlockTypes
  <2> QED
    BY <2>1, <2>2 DEF Data, HalfWordsFit, Downloaded
<1> DEFINE g == flash_program_buffer(f, Target, Data, k)
<1>7. ASSUME NEW d \in {c, c + 1}
      PROVE  g[d] = IF Target <= d /\ d < Target + 2 * k /\ f[d] = Erased
                    THEN <<prog.buf.id, d - Target>> ELSE f[d]
  <2>1. d \in Cells /\ HalfWord(Target, d) = {c, c + 1}
    BY <1>1, <1>2
  <2>2. g[d] = IF Target <= d /\ d < Target + 2 * k /\ f[c] = Erased
                  /\ f[c + 1] = Erased
               THEN Data[d - Target] ELSE f[d]
    BY <2>1 DEF flash_program_buffer
  <2>3. f[d] = Erased <=> f[c] = Erased /\ f[c + 1] = Erased
    BY <1>5
  <2> HIDE DEF g
  <2> QED
    BY <1>6, <2>2, <2>3
<1>8. g[c] = Erased <=> g[c + 1] = Erased
  <2> HIDE DEF g
  <2> QED
    BY <1>3, <1>4, <1>5, <1>6, <1>7
<1> QED
  BY <1>7, <1>8

-----------------------------------------------------------------------------
(***************************************************************************)
(* The inductive invariant.  Half-words are erased together.  A block      *)
(* about to be programmed was accepted, and the page it wanted erased is.  *)
(* The device that is off or has reset itself owes nothing.                *)
(***************************************************************************)
PageReady == MustErase => \A c \in PageOf(Target) : flash[c] = Erased

StoreInv ==
  /\ TypeOK /\ Told
  /\ Paired(flash)
  /\ at # "wipe"
  /\ at = "program" => Accepted /\ prog.blocknum # 0 /\ PageReady
  /\ power \in {"reset", "down"} => usbdfu_state = "dfuIDLE"

LEMMA ErasePaired ==
  ASSUME HalfWordsFit, Paired(flash)
  PROVE  Paired(EnsureErased(Target))
<1>1. CASE flash_page_is_erased(flash, Target)
  BY <1>1 DEF EnsureErased
<1>2. CASE ~flash_page_is_erased(flash, Target)
  BY <1>2, PagePaired DEF EnsureErased, flash_erase_page
<1> QED
  BY <1>1, <1>2

\* With at least one half-word to write, an odd target is a bus fault.
LEMMA EvenTarget ==
  ASSUME TypeOK, ~StoreFaults, prog.len \div 2 >= 1
  PROVE  Target % 2 = 0
  BY BlockTypes, Layout DEF StoreFaults, Address

LEMMA ProgramPaired ==
  ASSUME TypeOK, HalfWordsFit, NEW f, Paired(f), ~StoreFaults,
         NEW k \in Nat, k <= prog.len \div 2
  PROVE  Paired(flash_program_buffer(f, Target, Data, k))
<1> DEFINE g == flash_program_buffer(f, Target, Data, k)
<1>1. prog.len \div 2 \in Nat /\ 2 * (prog.len \div 2) <= PageSize
  BY BlockTypes, HalfWords
<1>2. CASE k = 0
  <2>1. \A c \in Cells : ~(Target <= c /\ c < Target + 2 * k)
    BY <1>2, BlockTypes, Layout DEF Cells, Address
  <2>2. \A c \in Cells : g[c] = f[c]
    BY <2>1 DEF flash_program_buffer
  <2>3. \A c \in Cells : c % 2 = 0 => c + 1 \in Cells
    BY PairInCells, Layout DEF Cells
  <2> HIDE DEF g
  <2>4. Paired(g)
    BY <2>2, <2>3 DEF Paired
  <2> QED
    BY <2>4 DEF g
<1>3. CASE k >= 1
  <2>1. Target % 2 = 0 /\ 2 * k <= PageSize
    BY <1>1, <1>3, EvenTarget, Layout
  <2>2. \A c \in Cells : c % 2 = 0 => (g[c] = Erased <=> g[c + 1] = Erased)
    BY <2>1, ProgramPair
  <2> HIDE DEF g
  <2>3. Paired(g)
    BY <2>2 DEF Paired
  <2> QED
    BY <2>3 DEF g
<1> QED
  BY <1>2, <1>3

\* Power that fails while a half-word is programmed: the half-words before
\* it are programmed, and it is garbage if it was erased.
LEMMA TornProgramIs ==
  ASSUME TypeOK, ~StoreFaults, NEW f \in TornProgram
  PROVE  \E k \in Nat :
           LET done == flash_program_buffer(flash, Target, Data, k)
               next == {Target + 2 * k, Target + 2 * k + 1}
           IN  /\ k + 1 <= prog.len \div 2 /\ Target % 2 = 0
               /\ f = [c \in Cells |-> IF c \in next /\ done[c] = Erased
                                       THEN Garbage ELSE done[c]]
<1>1. PICK k \in 0 .. (prog.len \div 2) - 1 :
        f = [c \in Cells |->
               IF /\ c \in HalfWord(Target, Target + 2 * k)
                  /\ flash_program_buffer(flash, Target, Data, k)[c] = Erased
               THEN Garbage
               ELSE flash_program_buffer(flash, Target, Data, k)[c]]
  BY Zenon DEF TornProgram
<1>2. prog.len \div 2 \in Nat
  BY BlockTypes, HalfWords
<1>3. k \in Nat /\ k + 1 <= prog.len \div 2
  BY <1>2
<1>4. Target \in Nat
  BY BlockTypes, Layout DEF Address
<1>5. HalfWord(Target, Target + 2 * k) = {Target + 2 * k, Target + 2 * k + 1}
  BY <1>3, <1>4 DEF HalfWord
<1>6. Target % 2 = 0
  BY <1>2, <1>3, EvenTarget
<1> QED
  BY <1>1, <1>3, <1>5, <1>6

LEMMA TornPaired ==
  ASSUME TypeOK, HalfWordsFit, Paired(flash), at # "wipe", NEW f \in Torn
  PROVE  Paired(f)
<1>1. CASE f = flash
  BY <1>1
<1>2. CASE f \in TornErase
  <2>1. CASE Accepted /\ ~flash_page_is_erased(flash, Target)
    <3>1. f = [c \in Cells |-> IF c \in PageOf(Target) THEN Garbage
                              ELSE flash[c]]
      BY <1>2, <2>1 DEF TornErase
    <3> QED
      BY <3>1, PagePaired
  <2>2. CASE ~(Accepted /\ ~flash_page_is_erased(flash, Target))
    <3>1. f = flash
      BY <1>2, <2>2 DEF TornErase, TypeOK
    <3> QED
      BY <3>1
  <2> QED
    BY <2>1, <2>2
<1>3. CASE ~StoreFaults /\ f \in TornProgram
  <2>1. PICK k \in Nat :
          /\ k + 1 <= prog.len \div 2 /\ Target % 2 = 0
          /\ f = [c \in Cells |->
                    IF /\ c \in {Target + 2 * k, Target + 2 * k + 1}
                       /\ flash_program_buffer(flash, Target, Data, k)[c] = Erased
                    THEN Garbage
                    ELSE flash_program_buffer(flash, Target, Data, k)[c]]
    BY <1>3, TornProgramIs
  <2> DEFINE done == flash_program_buffer(flash, Target, Data, k)
  <2>2. Paired(done)
    <3>1. k <= prog.len \div 2
      BY <2>1, BlockTypes, HalfWords
    <3> QED
      BY <1>3, <3>1, ProgramPaired
  <2>3. \A c \in Cells : f[c] = IF /\ c \in {Target + 2 * k, Target + 2 * k + 1}
                                   /\ done[c] = Erased
                                THEN Garbage ELSE done[c]
    BY <2>1
  <2> HIDE DEF done
  <2>4. \A c \in Cells : c % 2 = 0 =>
          /\ c + 1 \in Cells
          /\ c \in {Target + 2 * k, Target + 2 * k + 1}
               <=> c + 1 \in {Target + 2 * k, Target + 2 * k + 1}
    <3>1. Target \in Nat
      BY BlockTypes, Layout DEF Address
    <3> QED
      BY <2>1, <3>1, PairInCells, Layout DEF Cells
  <2> QED
    BY <2>2, <2>3, <2>4 DEF Paired
<1> QED
  BY <1>1, <1>2, <1>3 DEF Torn, Running

LEMMA InitStoreInv ==
  ASSUME HalfWordsFit, Init PROVE StoreInv
<1>1. Paired(flash)
  <2> SUFFICES ASSUME NEW c \in Cells, c % 2 = 0
               PROVE  flash[c] = flash[c + 1]
    BY DEF Paired
  <2>1. c + 1 \in Cells /\ (c \in BootCells <=> c + 1 \in BootCells)
    BY PairInCells, EvenBorders, Layout DEF Cells, BootCells
  <2> QED
    BY <2>1 DEF Init
<1> QED
  BY <1>1, InitTypeOK, InitTold DEF Init, Fresh, StoreInv

\* A block that stays what it is, in a flash that stays what it is.
LEMMA PendingStays ==
  ASSUME UNCHANGED <<prog, flash>>
  PROVE  /\ Accepted' <=> Accepted
         /\ Target' = Target /\ MustErase' = MustErase
         /\ PageReady => PageReady'
  BY DEF PageReady, MustErase, Accepted, WantsErase, InPayload, Target, Extent,
         BlockAddr

\* What erasing the page leaves of the wish to erase it.
LEMMA ErasedOnce ==
  ASSUME TypeOK, Accepted, UNCHANGED prog, flash' = EnsureErased(Target)
  PROVE  /\ Accepted' /\ Target' = Target
         /\ MustErase' => MustErase
         /\ PageReady'
         /\ flash' = [c \in Cells |-> IF MustErase /\ c \in PageOf(Target)
                                     THEN Erased ELSE flash[c]]
<1>1. (Accepted' <=> Accepted) /\ Target' = Target
  BY DEF Accepted, WantsErase, InPayload, Target, Extent, BlockAddr
<1>2. CASE flash_page_is_erased(flash, Target)
  <2>1. flash' = flash /\ ~MustErase
    BY <1>2 DEF EnsureErased, MustErase
  <2>2. ~MustErase'
    BY <2>1, PendingStays
  <2> QED
    BY <1>1, <2>1, <2>2 DEF PageReady, TypeOK
<1>3. CASE ~flash_page_is_erased(flash, Target)
  <2>1. MustErase
    BY <1>3 DEF MustErase
  <2>2. flash' = [c \in Cells |-> IF c \in PageOf(Target) THEN Erased
                                ELSE flash[c]]
    BY <1>3 DEF EnsureErased, flash_erase_page
  <2>3. \A c \in PageOf(Target) : flash'[c] = Erased
    BY <2>2, PageOfIs
  <2> QED
    BY <1>1, <2>1, <2>2, <2>3 DEF PageReady
<1> QED
  BY <1>2, <1>3

LEMMA NextStoreInv ==
  ASSUME ENABLE_SAFEWRITE = FALSE, HalfWordsFit, StoreInv, Next
  PROVE  StoreInv'
<1>1. TypeOK /\ Told /\ Paired(flash) /\ TypeOK' /\ Told'
  BY NextTypeOK, NextTold DEF StoreInv
<1>2. ASSUME UNCHANGED flash, at' \notin {"wipe", "program"},
             power' \in {"reset", "down"} => usbdfu_state' = "dfuIDLE"
      PROVE  StoreInv'
  BY <1>1, <1>2 DEF StoreInv, Paired
<1>3. CASE Request \/ DataStage \/ StatusStage \/ StartBlock
  <2>1. UNCHANGED flash /\ at' \in {"poll", "execute"}
    BY <1>3, Zenon
       DEF Request, Dnload, DnloadZero, ClrStatus, Abort, Detach, Upload,
           UploadFault, GetStatus, GetState, OtherSetup, DataStage,
           StatusStage, StartBlock, WipesFirst, Handled, Polling, memory,
           machine
  <2>2. power' \in {"on", "hung"}
    BY <1>3, Zenon
       DEF Request, Dnload, DnloadZero, ClrStatus, Abort, Detach, Upload,
           UploadFault, GetStatus, GetState, OtherSetup, DataStage,
           StatusStage, StartBlock, Handled, Polling, machine
  <2> QED
    BY <1>2, <2>1, <2>2
<1>4. CASE SetAddr \/ Ignore
  <2>1. UNCHANGED <<flash, power>> /\ at' = "poll" /\ power = "on"
    BY <1>4 DEF SetAddr, Ignore, BlockDone, Untouched, Running
  <2> QED
    BY <1>2, <2>1
<1>5. CASE ErasePage \/ StartWrite
  <2>1. /\ Accepted /\ UNCHANGED <<prog, power>> /\ power = "on"
        /\ flash' = EnsureErased(Target)
    BY <1>5 DEF ErasePage, StartWrite, Untouched, Running
  <2>2. Paired(flash') /\ Accepted' /\ PageReady'
    BY <1>1, <2>1, ErasePaired, ErasedOnce
  <2>3. at' = "poll" \/ (at' = "program" /\ prog.blocknum # 0)
    BY <1>5 DEF ErasePage, StartWrite, BlockDone
  <2> QED
    BY <1>1, <2>1, <2>2, <2>3 DEF StoreInv, Paired
<1>6. CASE Program
  <2>1. /\ ~StoreFaults /\ at' = "poll" /\ power = "on" /\ UNCHANGED power
        /\ flash' = flash_program_buffer(flash, Target, Data, prog.len \div 2)
    BY <1>6 DEF Program, BlockDone, Untouched, Running
  <2>2. Paired(flash')
    <3>1. prog.len \div 2 \in Nat
      BY <1>1, BlockTypes, HalfWords
    <3> QED
      BY <1>1, <2>1, <3>1, ProgramPaired
  <2> QED
    BY <1>1, <2>1, <2>2 DEF StoreInv, Paired
<1>7. CASE BlockFault \/ Restart
  <2>1. UNCHANGED <<prog, flash, at>> /\ power' \in {"on", "hung"}
    BY <1>7 DEF BlockFault, Restart, protocol, memory
  <2> QED
    BY <1>1, <2>1, PendingStays DEF StoreInv, Paired
<1>8. CASE Outage \/ ManifestReset
  <2>1. at' = "poll" /\ usbdfu_state' = "dfuIDLE"
    BY <1>8 DEF Outage, ManifestReset, Fresh
  <2>2. Paired(flash')
    BY <1>1, <1>8, TornPaired DEF Outage, ManifestReset, StoreInv, Paired
  <2> QED
    BY <1>1, <2>1, <2>2 DEF StoreInv, Paired
<1>9. CASE Wipe
  BY <1>9 DEF Wipe, Running, StoreInv
<1> QED
  BY <1>3, <1>4, <1>5, <1>6, <1>7, <1>8, <1>9 DEF Next, Transfer, Block

-----------------------------------------------------------------------------
(***************************************************************************)
(* The steps of PageStore.                                                 *)
(***************************************************************************)
Powered == power \in {"on", "hung"}

LEMMA NothingOwed == ~Owed => PendingCommand = Pages!Nothing
  BY DEF PendingCommand, Pages!Nothing

\* The block of prog never names a cell outside the payload.
LEMMA PendingIsCommand == TypeOK => Pages!IsCommand(PendingCommand)
<1> SUFFICES ASSUME TypeOK PROVE Pages!IsCommand(PendingCommand)
  OBVIOUS
<1>1. MustErase => PageOf(Target) \subseteq PayloadCells
  BY AcceptedTarget, PageBehindBootloader DEF MustErase
<1>2. Written \cap Cells \subseteq PayloadCells
  <2>1. Accepted => Target \in Nat /\ Target >= start_addr
    BY AcceptedTarget
  <2>2. prog.len \div 2 \in Nat
    BY BlockTypes, HalfWords
  <2> QED
    BY <2>1, <2>2, Layout DEF Written, Cells, PayloadCells
<1> QED
  BY <1>1, <1>2 DEF PendingCommand, Pages!IsCommand

LEMMA PendingIsCommandNext == TypeOK' => Pages!IsCommand(PendingCommand)'
  BY PendingIsCommand, PTL

\* A step that leaves flash and power alone brings some command or none.
LEMMA StepAccepts ==
  ASSUME TypeOK', UNCHANGED flash, Powered, Powered'
  PROVE  Pages!Accept
<1>1. Pages!IsCommand(PendingCommand')
  BY PendingIsCommandNext DEF Pages!IsCommand
<1> QED
  BY <1>1 DEF Pages!Accept, Powered

LEMMA RestartRecovers ==
  ASSUME StoreInv, Restart
  PROVE  Pages!Recover
<1>1. ~Owed /\ ~Owed'
  BY DEF Restart, Owed, StoreInv, protocol
<1>2. UNCHANGED PendingCommand
  BY <1>1 DEF PendingCommand
<1>3. power' = "on" /\ UNCHANGED flash
  BY DEF Restart, memory
<1> QED
  BY <1>2, <1>3 DEF Pages!Recover

\* The page that ErasePage and StartWrite erase is the one the command names.
LEMMA ErasePerforms ==
  ASSUME StoreInv, ErasePage
  PROVE  Pages!Perform
<1>1. /\ Accepted /\ UNCHANGED <<prog, power>> /\ power = "on"
      /\ at = "execute" /\ prog.blocknum = 0
      /\ flash' = EnsureErased(Target) /\ usbdfu_state' = "dfuDNLOAD_IDLE"
  BY DEF ErasePage, BlockDone, Untouched, Running
<1>2. Owed /\ ~Owed'
  BY <1>1 DEF StoreInv, Told, Owed
<1>3. /\ PendingCommand.page = IF MustErase THEN PageOf(Target) ELSE {}
      /\ DOMAIN PendingCommand.put = {}
  BY <1>1, <1>2 DEF PendingCommand, Written
<1>4. flash' = [c \in Cells |-> IF MustErase /\ c \in PageOf(Target)
                              THEN Erased ELSE flash[c]]
  BY <1>1, ErasedOnce DEF StoreInv
<1>5. flash' = Pages!Put(Pages!Cleared(flash, PendingCommand.page),
                         PendingCommand.put)
  BY <1>3, <1>4 DEF Pages!Put, Pages!Cleared
<1>6. PendingCommand' = Pages!Nothing
  BY <1>2 DEF PendingCommand, Pages!Nothing
<1> QED
  BY <1>1, <1>5, <1>6 DEF Pages!Perform

LEMMA StartWriteClears ==
  ASSUME StoreInv, StartWrite
  PROVE  Pages!Clear
<1>1. /\ Accepted /\ UNCHANGED <<prog, power, usbdfu_state>> /\ power = "on"
      /\ at = "execute" /\ flash' = EnsureErased(Target)
  BY DEF StartWrite, Untouched, Running
<1>2. Owed /\ Owed'
  BY <1>1 DEF StoreInv, Told, Owed
<1>3. Accepted' /\ Target' = Target /\ (MustErase' => MustErase)
  BY <1>1, ErasedOnce DEF StoreInv
<1> DEFINE put == [c \in Written \cap Cells |-> <<prog.buf.id, c - Target>>]
<1>4. /\ PendingCommand = [page |-> IF MustErase THEN PageOf(Target) ELSE {},
                          put  |-> put]
      /\ PendingCommand' = [page |-> IF MustErase' THEN PageOf(Target) ELSE {},
                           put  |-> put]
  <2>1. Written' = Written
    BY <1>1, <1>3 DEF Written
  <2> QED
    BY <1>1, <1>2, <1>3, <2>1 DEF PendingCommand
<1>5. flash' = [c \in Cells |-> IF MustErase /\ c \in PageOf(Target)
                              THEN Erased ELSE flash[c]]
  BY <1>1, ErasedOnce DEF StoreInv
<1> HIDE DEF put
<1>6. flash' = Pages!Cleared(flash, PendingCommand.page)
  BY <1>4, <1>5 DEF Pages!Cleared
<1>7. PendingCommand' \in {PendingCommand, [PendingCommand EXCEPT !.page = {}]}
  BY <1>3, <1>4
<1> QED
  BY <1>1, <1>6, <1>7 DEF Pages!Clear

\* Half-word by half-word or cell by cell, the bytes that are erased get data.
LEMMA ProgramPuts ==
  ASSUME TypeOK, HalfWordsFit, Paired(flash), ~StoreFaults,
         NEW k \in Nat, k <= prog.len \div 2, NEW c \in Cells
  PROVE  flash_program_buffer(flash, Target, Data, k)[c]
           = IF Target <= c /\ c < Target + 2 * k /\ flash[c] = Erased
             THEN <<prog.buf.id, c - Target>> ELSE flash[c]
<1>1. c \in Int /\ Target \in Nat
  BY BlockTypes, Layout DEF Cells, Address
<1>2. CASE k = 0
  <2>1. ~(Target <= c /\ c < Target + 2 * k)
    BY <1>1, <1>2
  <2> QED
    BY <2>1 DEF flash_program_buffer
<1>3. CASE k >= 1
  <2>1. Target % 2 = 0 /\ 2 * k <= PageSize
    BY <1>3, EvenTarget, BlockTypes, HalfWords, Layout
  <2>2. PICK e \in Cells : e % 2 = 0 /\ c \in {e, e + 1}
    <3>1. CASE c % 2 = 0
      BY <3>1
    <3>2. CASE c % 2 = 1
      <4>1. (c - 1) % 2 = 0 /\ c - 1 \in Int /\ c = (c - 1) + 1
        BY <1>1, <3>2
      <4>2. c - 1 \in Cells
        BY <4>1, PairInCells
      <4> QED
        BY <4>1, <4>2
    <3> QED
      BY <1>1, <3>1, <3>2
  <2> QED
    BY <2>1, <2>2, ProgramPair
<1> QED
  BY <1>2, <1>3

LEMMA ProgramPerforms ==
  ASSUME HalfWordsFit, StoreInv, Program
  PROVE  Pages!Perform
<1> DEFINE n == prog.len \div 2
           put == [c \in Written \cap Cells |-> <<prog.buf.id, c - Target>>]
<1>1. /\ UNCHANGED <<prog, power>> /\ power = "on" /\ at = "program"
      /\ ~StoreFaults /\ usbdfu_state' = "dfuDNLOAD_IDLE"
      /\ flash' = flash_program_buffer(flash, Target, Data, n)
  BY DEF Program, BlockDone, Untouched, Running
<1>2. /\ TypeOK /\ Paired(flash) /\ flash \in [Cells -> Bytes]
      /\ Accepted /\ prog.blocknum # 0 /\ PageReady
  BY <1>1 DEF StoreInv, TypeOK
<1>3. Owed /\ ~Owed'
  BY <1>1 DEF StoreInv, Told, Owed
<1>4. n \in Nat /\ Target \in Nat /\ \A c \in Cells : c \in Int
  BY <1>2, BlockTypes, HalfWords, Layout DEF Address, Cells
<1>5. \A c \in Cells : c \in Written <=> Target <= c /\ c < Target + 2 * n
  BY <1>2, <1>4 DEF Written
<1>6. \A c \in Cells :
        flash'[c] = IF Target <= c /\ c < Target + 2 * n /\ flash[c] = Erased
                    THEN <<prog.buf.id, c - Target>> ELSE flash[c]
  BY <1>1, <1>2, <1>4, ProgramPuts
<1> HIDE DEF n
<1>7. \A c \in Cells : flash'[c] = IF c \in DOMAIN put /\ flash[c] = Erased
                                  THEN put[c] ELSE flash[c]
  BY <1>5, <1>6
<1>8. PendingCommand = [page |-> IF MustErase THEN PageOf(Target) ELSE {},
                        put  |-> put]
  BY <1>3 DEF PendingCommand
<1> HIDE DEF put
<1>9. Pages!Cleared(flash, PendingCommand.page) = flash
  BY <1>2, <1>8 DEF Pages!Cleared, PageReady
<1>10. flash' = Pages!Put(flash, put)
  <2>1. flash' = [c \in Cells |-> flash'[c]]
    BY <1>1 DEF flash_program_buffer
  <2> QED
    BY <1>7, <2>1 DEF Pages!Put
<1>11. PendingCommand' = Pages!Nothing
  BY <1>3 DEF PendingCommand, Pages!Nothing
<1> QED
  BY <1>1, <1>8, <1>9, <1>10, <1>11 DEF Pages!Perform

\* What power that fails leaves behind differs in cells of the command only.
LEMMA TornIsTorn ==
  ASSUME HalfWordsFit, StoreInv, Powered, NEW f \in Torn, NEW c \in Cells,
         f[c] # flash[c]
  PROVE  \/ c \in PendingCommand.page /\ f[c] \in {Erased, Garbage}
         \/ /\ c \in DOMAIN PendingCommand.put
            /\ f[c] \in {PendingCommand.put[c], Garbage}
<1>1. at # "poll" => Owed
  BY DEF StoreInv, Told, Owed, Powered
<1>2. CASE at = "execute" /\ f \in TornErase
  <2>1. c \in PageOf(Target) /\ MustErase /\ f[c] = Garbage
    BY <1>2 DEF TornErase, MustErase
  <2> QED
    BY <1>1, <1>2, <2>1 DEF PendingCommand
<1>3. CASE at = "program" /\ ~StoreFaults /\ f \in TornProgram
  <2>1. TypeOK /\ Paired(flash) /\ Accepted /\ prog.blocknum # 0
    BY <1>3 DEF StoreInv
  <2>2. PICK k \in Nat :
          /\ k + 1 <= prog.len \div 2
          /\ f = [d \in Cells |->
                    IF /\ d \in {Target + 2 * k, Target + 2 * k + 1}
                       /\ flash_program_buffer(flash, Target, Data, k)[d] = Erased
                    THEN Garbage
                    ELSE flash_program_buffer(flash, Target, Data, k)[d]]
    BY <1>3, <2>1, TornProgramIs
  <2>3. prog.len \div 2 \in Nat /\ Target \in Nat /\ c \in Int
    BY <2>1, BlockTypes, HalfWords, Layout DEF Address, Cells
  <2> DEFINE done == flash_program_buffer(flash, Target, Data, k)
  <2>4. done[c] = IF Target <= c /\ c < Target + 2 * k /\ flash[c] = Erased
                  THEN <<prog.buf.id, c - Target>> ELSE flash[c]
    BY <1>3, <2>1, <2>2, <2>3, ProgramPuts
  <2>5. f[c] = IF c \in {Target + 2 * k, Target + 2 * k + 1} /\ done[c] = Erased
               THEN Garbage ELSE done[c]
    BY <2>2
  <2> HIDE DEF done
  <2>6. Target <= c /\ c < Target + 2 * (prog.len \div 2)
    BY <2>2, <2>3, <2>4, <2>5
  <2>7. c \in Written
    BY <2>1, <2>3, <2>6 DEF Written
  <2>8. f[c] \in {<<prog.buf.id, c - Target>>, Garbage}
    BY <2>4, <2>5
  <2> QED
    BY <1>1, <1>3, <2>7, <2>8 DEF PendingCommand
<1> QED
  BY <1>2, <1>3 DEF Torn, Running, StoreInv

LEMMA StopIsOutage ==
  ASSUME HalfWordsFit, StoreInv, Outage \/ ManifestReset
  PROVE  Pages!Outage
<1>1. Powered /\ ~Powered'
  BY DEF Outage, ManifestReset, Polling, Powered
<1>2. flash' \in Torn
  BY DEF Outage, ManifestReset, Torn
<1>3. PendingCommand' = Pages!Nothing
  BY <1>1 DEF PendingCommand, Owed, Powered, Pages!Nothing
<1>4. \A c \in Cells : flash'[c] # flash[c] =>
        \/ c \in PendingCommand.page /\ flash'[c] \in {Erased, Garbage}
        \/ /\ c \in DOMAIN PendingCommand.put
           /\ flash'[c] \in {PendingCommand.put[c], Garbage}
  BY <1>1, <1>2, TornIsTorn
<1> QED
  BY <1>1, <1>3, <1>4 DEF Pages!Outage, Powered

\* Every step of the driver is a step of PageStore.
LEMMA NextSimulates ==
  ASSUME ENABLE_SAFEWRITE = FALSE, HalfWordsFit, StoreInv, Next
  PROVE  Pages!Next
<1>1. TypeOK'
  BY NextTypeOK DEF StoreInv
<1>2. CASE Request \/ DataStage \/ StatusStage \/ StartBlock \/ SetAddr
           \/ Ignore \/ BlockFault
  <2>1. UNCHANGED flash /\ Powered /\ Powered'
    BY <1>2, Zenon
       DEF Request, Dnload, DnloadZero, ClrStatus, Abort, Detach, Upload,
           UploadFault, GetStatus, GetState, OtherSetup, DataStage,
           StatusStage, StartBlock, SetAddr, Ignore, BlockFault, Handled,
           Polling, Running, Untouched, Powered, memory, machine
  <2> QED
    BY <1>1, <2>1, StepAccepts DEF Pages!Next
<1>3. CASE ErasePage
  BY <1>3, ErasePerforms DEF Pages!Next
<1>4. CASE StartWrite
  BY <1>4, StartWriteClears DEF Pages!Next
<1>5. CASE Program
  BY <1>5, ProgramPerforms DEF Pages!Next
<1>6. CASE Outage \/ ManifestReset
  BY <1>6, StopIsOutage DEF Pages!Next
<1>7. CASE Restart
  BY <1>7, RestartRecovers DEF Pages!Next
<1>8. CASE Wipe
  BY <1>8 DEF Wipe, Running, StoreInv
<1> QED
  BY <1>2, <1>3, <1>4, <1>5, <1>6, <1>7, <1>8 DEF Next, Transfer, Block

\* The driver keeps the promise of PageStore: only the last block the host
\* sent changes flash, at most once, and no cell it does not name.
THEOREM DriverImplementsPageStore ==
  ASSUME ENABLE_SAFEWRITE = FALSE, HalfWordsFit
  PROVE  Spec => ImplementsPageStore
<1>1. Init => Pages!Init
  BY NothingOwed DEF Init, Fresh, Owed, Pages!Init
<1>2. StoreInv /\ [Next]_vars => StoreInv'
  <2>1. CASE Next
    BY <2>1, NextStoreInv
  <2>2. CASE UNCHANGED vars
    BY <2>2, PendingStays
       DEF StoreInv, TypeOK, Told, Paired, vars, protocol, memory, machine
  <2> QED
    BY <2>1, <2>2
<1>3. StoreInv /\ [Next]_vars => [Pages!Next]_Pages!vars
  <2>1. CASE Next
    BY <2>1, NextSimulates
  <2>2. CASE UNCHANGED vars
    <3>1. UNCHANGED <<flash, prog, power, usbdfu_state>>
      BY <2>2 DEF vars, protocol, memory, machine
    <3>2. UNCHANGED PendingCommand
      <4>1. /\ Target' = Target /\ Accepted' = Accepted
            /\ MustErase' = MustErase
        BY <3>1 DEF MustErase, Accepted, WantsErase, InPayload, Target, Extent,
                    BlockAddr
      <4>2. Written' = Written /\ Owed' = Owed
        BY <3>1, <4>1 DEF Written, Owed
      <4> QED
        BY <3>1, <4>1, <4>2 DEF PendingCommand
    <3> QED
      BY <3>1, <3>2 DEF Pages!vars
  <2> QED
    BY <2>1, <2>2
<1> QED
  BY <1>1, <1>2, <1>3, InitStoreInv, PTL
     DEF Spec, ImplementsPageStore, Pages!Spec
=============================================================================
