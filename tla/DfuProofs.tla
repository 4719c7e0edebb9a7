------------------------------ MODULE DfuProofs ------------------------------
(***************************************************************************)
(* Theorems of module Dfu, for every flash layout, every set of buffers    *)
(* and both build options.                                                 *)
(***************************************************************************)
EXTENDS Dfu, TLAPS

-----------------------------------------------------------------------------
(***************************************************************************)
(* Arithmetic of the flash layout.                                         *)
(***************************************************************************)
\* Multiplication by a page size preserves the order.
LEMMA TimesMonotone ==
  ASSUME NEW i \in Nat, NEW j \in Nat, NEW p \in Nat, i <= j
  PROVE  i * p \in Nat /\ j * p \in Nat /\ i * p <= j * p
<1> DEFINE d == j - i
<1>1. d \in Nat /\ j = i + d
  OBVIOUS
<1> HIDE DEF d
<1>2. d * p \in Nat /\ i * p \in Nat
  BY <1>1
<1>3. (i + d) * p = i * p + d * p
  BY <1>1
<1> QED
  BY <1>1, <1>2, <1>3

\* The bootloader, the payload and the end of flash, in this order, all in
\* the address space.
LEMMA Layout ==
  /\ FLASH_BASE_ADDR \in Nat /\ PageSize \in Nat /\ AddrSpace \in Nat
  /\ start_addr \in Nat /\ end_addr \in Nat
  /\ FLASH_BASE_ADDR <= start_addr /\ start_addr <= end_addr
  /\ end_addr + PageSize <= AddrSpace
  /\ PageSize >= 8 /\ PageSize % 4 = 0
<1> USE FlashAssumption
<1>1. BootPages * PageSize \in Nat /\ FlashPages * PageSize \in Nat
      /\ BootPages * PageSize <= FlashPages * PageSize
  BY TimesMonotone
<1>2. (FlashPages + 1) * PageSize = FlashPages * PageSize + PageSize
  BY FlashPages \in Nat, PageSize \in Nat
<1> QED
  BY <1>1, <1>2 DEF start_addr, end_addr

\* The pages of flash are in flash.
LEMMA PageInCells ==
  ASSUME NEW a \in PageStarts
  PROVE  a \in Nat /\ a .. a + PageSize - 1 \subseteq Cells
<1>1. PICK k \in 0 .. FlashPages - 1 : a = FLASH_BASE_ADDR + k * PageSize
  BY DEF PageStarts
<1>2. k \in Nat /\ FlashPages \in Nat /\ PageSize \in Nat /\ k + 1 <= FlashPages
      /\ FLASH_BASE_ADDR \in Nat
  BY FlashAssumption
<1>3. (k + 1) * PageSize = k * PageSize + PageSize
  BY <1>2
<1>4. k * PageSize \in Nat /\ FlashPages * PageSize \in Nat
      /\ (k + 1) * PageSize <= FlashPages * PageSize
  BY <1>2, TimesMonotone
<1> QED
  BY <1>1, <1>2, <1>3, <1>4 DEF Cells, end_addr

LEMMA PageOfIs ==
  ASSUME NEW a
  PROVE  PageOf(a) = { c \in Cells : \E s \in PageStarts :
                                       {a, c} \subseteq s .. s + PageSize - 1 }
  BY PageInCells DEF PageOf

\* The page of an address behind the bootloader is behind the bootloader.
LEMMA PageBehindBootloader ==
  ASSUME NEW a \in Nat, a >= start_addr
  PROVE  PageOf(a) \subseteq PayloadCells
<1> SUFFICES ASSUME NEW c \in PageOf(a)
             PROVE  c \in PayloadCells
  OBVIOUS
<1>1. PICK k \in 0 .. FlashPages - 1 :
        {a, c} \subseteq FLASH_BASE_ADDR + k * PageSize
                         .. FLASH_BASE_ADDR + k * PageSize + PageSize - 1
  BY PageOfIs DEF PageStarts
<1>2. k \in Nat /\ BootPages \in Nat /\ PageSize \in Nat /\ FLASH_BASE_ADDR \in Nat
  BY FlashAssumption
<1>3. k >= BootPages
  <2> SUFFICES ASSUME k + 1 <= BootPages PROVE FALSE
    BY <1>2
  <2>1. (k + 1) * PageSize <= BootPages * PageSize
        /\ BootPages * PageSize \in Nat /\ k * PageSize \in Nat
    BY <1>2, TimesMonotone
  <2>2. (k + 1) * PageSize = k * PageSize + PageSize
    BY <1>2
  <2> QED
    BY <1>1, <1>2, <2>1, <2>2 DEF start_addr
<1>4. k * PageSize \in Nat /\ BootPages * PageSize \in Nat
      /\ BootPages * PageSize <= k * PageSize
  BY <1>2, <1>3, TimesMonotone
<1>5. c \in Cells
  BY PageOfIs
<1> QED
  BY <1>1, <1>2, <1>4, <1>5, Layout DEF Cells, PayloadCells, start_addr

LEMMA WrapType ==
  ASSUME NEW a \in Int PROVE Wrap(a) \in Address
  BY Layout DEF Wrap, Address

LEMMA Addresses ==
  /\ 0 \in Address /\ Address \subseteq 0 .. AddrSpace
  /\ Address \subseteq Int /\ AddrSpace \in 0 .. AddrSpace
  BY Layout DEF Address

-----------------------------------------------------------------------------
(***************************************************************************)
(* Type correctness.  First, what the flash routines yield is a flash.     *)
(***************************************************************************)
LEMMA EraseTypes ==
  ASSUME NEW f \in [Cells -> Bytes], NEW a
  PROVE  /\ flash_erase_page(f, a) \in [Cells -> Bytes]
         /\ flash_erase_payload(f) \in [Cells -> Bytes]
  BY DEF flash_erase_page, flash_erase_payload, Bytes

LEMMA ProgramType ==
  ASSUME NEW f \in [Cells -> Bytes], NEW a \in Int, NEW k \in Nat,
         2 * k <= PageSize, prog.buf.id \in Images \cup {ZeroBuf}
  PROVE  flash_program_buffer(f, a, Data, k) \in [Cells -> Bytes]
<1>1. ASSUME NEW c \in Cells, a <= c, c < a + 2 * k
      PROVE  Data[c - a] \in Bytes
  <2>1. c \in Int
    BY Layout DEF Cells
  <2>2. c - a \in 0 .. PageSize - 1
    BY <1>1, <2>1, Layout
  <2> QED
    BY <2>2 DEF Data, Bytes
<1> QED
  BY <1>1 DEF flash_program_buffer

\* The length of a block is at most a page of half-words.
LEMMA HalfWords ==
  ASSUME NEW len \in 0 .. PageSize
  PROVE  len \div 2 \in Nat /\ 2 * (len \div 2) <= PageSize
  BY Layout

LEMMA UInt16Int == UInt16 \subseteq Int /\ 0 \in UInt16
  BY 2^16 \in Nat, 2^16 - 1 >= 0 DEF UInt16

\* What TypeOK says of the block.
LEMMA BlockTypes ==
  ASSUME TypeOK
  PROVE  /\ prog.blocknum \in UInt16 /\ prog.len \in 0 .. PageSize
         /\ prog.addr \in Address /\ prog.buf \in Buffer
         /\ prog.buf.arg \in Address
         /\ prog.buf.id \in Images \cup {ZeroBuf}
         /\ Target \in Address
<1>1. /\ prog.blocknum \in UInt16 /\ prog.len \in 0 .. PageSize
      /\ prog.addr \in Address /\ prog.buf \in Buffer
  BY DEF TypeOK
<1>2. prog.buf.arg \in Address /\ prog.buf.id \in Images \cup {ZeroBuf}
  BY <1>1 DEF Buffer
<1>3. prog.addr + (prog.blocknum - 2) * PageSize \in Int
  <2>1. prog.blocknum \in Int
    BY <1>1, UInt16Int
  <2>2. prog.addr \in Int
    BY <1>1, Addresses
  <2>3. PageSize \in Int
    BY Layout
  <2> QED
    BY <2>1, <2>2, <2>3
<1> QED
  BY <1>1, <1>2, <1>3, WrapType DEF Target, BlockAddr

LEMMA TornType ==
  ASSUME TypeOK PROVE Torn \subseteq [Cells -> Bytes]
<1> flash \in [Cells -> Bytes] /\ Erased \in Bytes /\ Garbage \in Bytes
  BY DEF TypeOK, Bytes
<1>1. TornWipe \subseteq [Cells -> Bytes]
  BY DEF TornWipe
<1>2. TornErase \subseteq [Cells -> Bytes]
  BY DEF TornErase
<1>3. TornProgram \subseteq [Cells -> Bytes]
  <2>1. ASSUME NEW k \in 0 .. (prog.len \div 2) - 1
        PROVE  flash_program_buffer(flash, Target, Data, k)
                 \in [Cells -> Bytes]
    <3>1. prog.len \in 0 .. PageSize /\ Target \in Address
          /\ prog.buf.id \in Images \cup {ZeroBuf}
      BY BlockTypes
    <3>2. prog.len \div 2 \in Nat /\ 2 * (prog.len \div 2) <= PageSize
      BY <3>1, HalfWords
    <3>3. k \in Nat /\ 2 * k <= PageSize
      BY <3>2, Layout
    <3>4. Target \in Int
      BY <3>1, Addresses
    <3> QED
      BY <3>1, <3>3, <3>4, ProgramType
  <2> QED
    BY <2>1, Zenon DEF TornProgram
<1> QED
  BY <1>1, <1>2, <1>3 DEF Torn

LEMMA FreshType ==
  ASSUME NEW st, NEW p, NEW c, NEW sg, NEW r, NEW sn, NEW lk, NEW er, NEW a,
         Fresh(st, p, c, sg, r, sn, lk, er, a)
  PROVE  /\ st \in DfuState
         /\ p \in [blocknum : UInt16, len : 0 .. PageSize,
                   buf : Buffer, addr : Address]
         /\ c \in BOOLEAN /\ sg \in {"none", "data", "status"}
         /\ r \in [state : DfuState \cup {NoState}, from : 0 .. AddrSpace]
         /\ sn \in DfuState \cup {NoState}
         /\ lk \in BOOLEAN /\ er \in BOOLEAN
         /\ a \in {"poll", "wipe", "execute", "program"}
<1>1. 0 \in UInt16 /\ 0 \in 0 .. PageSize
  BY UInt16Int, Layout
<1>2. [cmd |-> "other", arg |-> 0, id |-> ZeroBuf] \in Buffer
  BY Addresses DEF Buffer
<1>3. FreshProg \in [blocknum : UInt16, len : 0 .. PageSize,
                    buf : Buffer, addr : Address]
  BY <1>1, <1>2, Addresses DEF FreshProg
<1>4. NoReply \in [state : DfuState \cup {NoState}, from : 0 .. AddrSpace]
  BY Addresses DEF NoReply, NoAddr
<1> QED
  BY <1>3, <1>4 DEF Fresh, DfuState

LEMMA InitTypeOK == Init => TypeOK
<1> SUFFICES ASSUME Init PROVE TypeOK
  OBVIOUS
<1>1. flash \in [Cells -> Bytes]
  BY DEF Init, Bytes
<1> QED
  BY <1>1, FreshType DEF Init, TypeOK

\* An answer that names a state of the driver, and one that names memory.
LEMMA ReplyTypes ==
  /\ NoReply \in [state : DfuState \cup {NoState}, from : 0 .. AddrSpace]
  /\ \A s \in DfuState :
       [NoReply EXCEPT !.state = s]
         \in [state : DfuState \cup {NoState}, from : 0 .. AddrSpace]
  /\ \A a \in 0 .. AddrSpace :
       [NoReply EXCEPT !.from = a]
         \in [state : DfuState \cup {NoState}, from : 0 .. AddrSpace]
  BY Addresses DEF NoReply, NoAddr

LEMMA NextTypeOK ==
  ASSUME TypeOK, Next PROVE TypeOK'
<1> USE DEF memory, machine, protocol
<1>1. ASSUME NEW n \in Blocknums, NEW len \in Lens, NEW b \in Buffers,
             Dnload(n, len, b)
      PROVE  TypeOK'
  <2>1. n \in UInt16 /\ len \in 0 .. PageSize /\ b \in Buffer
    BY DfuAssumption, Layout
  <2>2. PICK word \in {c.arg : c \in Buffers} \cup {prog.buf.arg} :
          prog' = [prog EXCEPT !.blocknum = n, !.len = len,
                               !.buf = [b EXCEPT !.arg = word]]
    BY <1>1 DEF Dnload
  <2>3. word \in Address
    BY DfuAssumption, BlockTypes DEF Buffer
  <2>4. [b EXCEPT !.arg = word] \in Buffer
    BY <2>1, <2>3 DEF Buffer
  <2>5. prog' \in [blocknum : UInt16, len : 0 .. PageSize,
                  buf : Buffer, addr : Address]
    BY <2>1, <2>2, <2>4 DEF TypeOK
  <2> QED
    BY <1>1, <2>5, ReplyTypes DEF Dnload, Handled, TypeOK, DfuState
<1>2. ASSUME DnloadZero \/ ClrStatus \/ Abort \/ Detach \/ OtherSetup
      PROVE  TypeOK'
  <2>1. Polling /\ stage' \in {"none", "status"} /\ reply' = NoReply
        /\ complete' \in BOOLEAN /\ UNCHANGED <<memory, machine, prog, seen>>
    BY <1>2 DEF DnloadZero, ClrStatus, Abort, Detach, OtherSetup, Handled
  <2>2. usbdfu_state' \in DfuState
    BY <1>2 DEF DnloadZero, ClrStatus, Abort, Detach, OtherSetup, TypeOK, DfuState
  <2> QED
    BY <2>1, <2>2, ReplyTypes DEF TypeOK
<1>3. ASSUME NEW n \in Blocknums, Upload(n) PROVE TypeOK'
  <2>1. BlockAddr(n) \in Address
    <3>1. n \in Int
      BY DfuAssumption, UInt16Int
    <3>2. prog.addr \in Int
      BY BlockTypes, Addresses
    <3>3. prog.addr + (n - 2) * PageSize \in Int
      BY <3>1, <3>2, Layout
    <3> QED
      BY <3>3, WrapType DEF BlockAddr
  <2>2. BlockAddr(n) \in 0 .. AddrSpace /\ NoReply.from \in 0 .. AddrSpace
    BY <2>1, Addresses DEF NoReply, NoAddr
  <2>3. reply' \in [state : DfuState \cup {NoState}, from : 0 .. AddrSpace]
    BY <1>3, <2>2, ReplyTypes DEF Upload, Handled
  <2> QED
    BY <1>3, <2>3 DEF Upload, Handled, TypeOK, DfuState
<1>4. ASSUME NEW n \in Blocknums, UploadFault(n) PROVE TypeOK'
  BY <1>4 DEF UploadFault, TypeOK, DfuState
<1>5. CASE GetStatus
  <2>1. usbdfu_state' \in DfuState
    BY <1>5 DEF GetStatus, usbdfu_getstatus, TypeOK, DfuState
  <2> QED
    BY <1>5, <2>1, ReplyTypes DEF GetStatus, Handled, TypeOK
<1>6. CASE GetState
  BY <1>6, ReplyTypes DEF GetState, Handled, TypeOK
<1>7. CASE DataStage
  <2>1. reply.state \in DfuState \cup {NoState}
    BY DEF TypeOK
  <2> QED
    BY <1>7, <2>1, ReplyTypes DEF DataStage, TypeOK
<1>8. CASE StatusStage \/ StartBlock
  BY <1>8 DEF StatusStage, StartBlock, TypeOK
<1>9. CASE ManifestReset
  <2>1. flash' \in [Cells -> Bytes] /\ power' = "reset"
    BY <1>9 DEF ManifestReset, TypeOK
  <2> QED
    BY <1>9, <2>1, FreshType DEF ManifestReset, TypeOK
<1>10. EnsureErased(Target) \in [Cells -> Bytes]
  BY EraseTypes DEF EnsureErased, TypeOK
<1>11. CASE Wipe
  BY <1>11, EraseTypes DEF Wipe, Untouched, TypeOK
<1>12. CASE SetAddr
  <2>1. prog' \in [blocknum : UInt16, len : 0 .. PageSize,
                  buf : Buffer, addr : Address]
    BY <1>12, BlockTypes DEF SetAddr, TypeOK
  <2> QED
    BY <1>12, <2>1 DEF SetAddr, BlockDone, Untouched, TypeOK, DfuState
<1>13. CASE Ignore \/ ErasePage \/ StartWrite
  <2>1. flash' \in [Cells -> Bytes] /\ locked' \in BOOLEAN
        /\ at' \in {"poll", "program"} /\ usbdfu_state' \in DfuState
    BY <1>10, <1>13
       DEF Ignore, ErasePage, StartWrite, BlockDone, TypeOK, DfuState
  <2>2. UNCHANGED <<complete, stage, reply, seen, power, prog, erased>>
    BY <1>13 DEF Ignore, ErasePage, StartWrite, Untouched
  <2> QED
    BY <2>1, <2>2 DEF TypeOK
<1>14. CASE Program
  <2>1. flash' \in [Cells -> Bytes]
    <3>1. Target \in Int /\ prog.len \in 0 .. PageSize
          /\ prog.buf.id \in Images \cup {ZeroBuf}
      BY BlockTypes, Addresses
    <3>2. prog.len \div 2 \in Nat /\ 2 * (prog.len \div 2) <= PageSize
      BY <3>1, HalfWords
    <3>3. flash \in [Cells -> Bytes]
      BY DEF TypeOK
    <3> QED
      BY <1>14, <3>1, <3>2, <3>3, ProgramType DEF Program
  <2> QED
    BY <1>14, <2>1 DEF Program, BlockDone, Untouched, TypeOK, DfuState
<1>15. CASE BlockFault \/ Restart
  BY <1>15 DEF BlockFault, Restart, TypeOK
<1>16. CASE Outage
  <2>1. flash' \in [Cells -> Bytes] /\ power' = "down"
    BY <1>16, TornType DEF Outage
  <2> QED
    BY <1>16, <2>1, FreshType DEF Outage, TypeOK
<1> QED
  BY <1>1, <1>2, <1>3, <1>4, <1>5, <1>6, <1>7, <1>8, <1>9, <1>11, <1>12, <1>13,
     <1>14, <1>15, <1>16 DEF Next, Request, Transfer, Block

\* Every reachable state of the driver is well typed: the address pointer and
\* the block stay in range, and flash holds bytes somebody put there.
THEOREM TypeCorrect == Spec => []TypeOK
<1>1. TypeOK /\ [Next]_vars => TypeOK'
  <2>1. CASE Next
    BY <2>1, NextTypeOK
  <2>2. CASE UNCHANGED vars
    BY <2>2 DEF TypeOK, vars, protocol, memory, machine
  <2> QED
    BY <2>1, <2>2
<1> QED
  BY <1>1, InitTypeOK, PTL DEF Spec

-----------------------------------------------------------------------------
(***************************************************************************)
(* The bootloader's own pages.  An accepted block lies behind the          *)
(* bootloader, and so do the page erased for it and the half-words written *)
(* from it on; so do the pages of check_do_erase.                          *)
(***************************************************************************)
Keeps(f) == \A c \in BootCells : f[c] = BootCode

LEMMA BootCellsApart ==
  /\ BootCells \subseteq Cells /\ BootCells \cap PayloadCells = {}
  /\ \A c \in BootCells : c \in Int /\ c < start_addr
  BY Layout DEF BootCells, Cells, PayloadCells

LEMMA AcceptedTarget ==
  ASSUME TypeOK, Accepted
  PROVE  Target \in Nat /\ Target >= start_addr
  BY BlockTypes, Layout DEF Accepted, InPayload, Address

LEMMA EraseKeeps ==
  ASSUME NEW f, NEW a \in Nat, a >= start_addr, Keeps(f)
  PROVE  Keeps(flash_erase_page(f, a)) /\ Keeps(flash_erase_payload(f))
  BY PageBehindBootloader, BootCellsApart
     DEF Keeps, flash_erase_page, flash_erase_payload

LEMMA ProgramKeeps ==
  ASSUME NEW f, NEW a \in Nat, a >= start_addr, NEW data, NEW k, Keeps(f)
  PROVE  Keeps(flash_program_buffer(f, a, data, k))
<1> SUFFICES ASSUME NEW c \in BootCells
             PROVE  flash_program_buffer(f, a, data, k)[c] = BootCode
  BY DEF Keeps
<1>1. c \in Cells /\ ~(a <= c)
  BY BootCellsApart, Layout
<1> QED
  BY <1>1 DEF flash_program_buffer, Keeps

LEMMA PageBehind ==
  ASSUME NEW p \in PageStarts \cap PayloadCells
  PROVE  PageOf(p) \subseteq PayloadCells
  BY PageBehindBootloader, Layout DEF PayloadCells

\* Whatever moment power fails at while a block is executed.
LEMMA TornKeeps ==
  ASSUME TypeOK, Keeps(flash), at = "program" => Accepted,
         NEW f \in Torn
  PROVE  Keeps(f)
<1>1. ASSUME f \in TornWipe PROVE Keeps(f)
  <2>1. PICK p \in PageStarts \cap PayloadCells :
          f = [c \in Cells |->
                 IF c \in PayloadCells /\ c < p THEN Erased
                 ELSE IF c \in PageOf(p) /\ ~flash_page_is_erased(flash, p)
                 THEN Garbage ELSE flash[c]]
    BY <1>1, Zenon DEF TornWipe
  <2>2. PageOf(p) \subseteq PayloadCells
    BY PageBehind
  <2> QED
    BY <2>1, <2>2, BootCellsApart DEF Keeps
<1>2. ASSUME f \in TornErase PROVE Keeps(f)
  <2>1. \A c \in BootCells : ~(Accepted /\ c \in PageOf(Target))
    BY AcceptedTarget, PageBehindBootloader, BootCellsApart
  <2> QED
    BY <1>2, <2>1, BootCellsApart DEF TornErase, Keeps
<1>3. ASSUME at = "program", f \in TornProgram PROVE Keeps(f)
  <2>1. Target \in Nat /\ Target >= start_addr
    BY <1>3, AcceptedTarget
  <2>2. PICK k \in 0 .. (prog.len \div 2) - 1 :
          f = [c \in Cells |->
                 IF /\ c \in HalfWord(Target, Target + 2 * k)
                    /\ flash_program_buffer(flash, Target, Data, k)[c] = Erased
                 THEN Garbage
                 ELSE flash_program_buffer(flash, Target, Data, k)[c]]
    BY <1>3, Zenon DEF TornProgram
  <2>3. k \in Nat
    BY BlockTypes, HalfWords
  <2>4. \A c \in HalfWord(Target, Target + 2 * k) : c >= start_addr
    BY <2>1, <2>3, Layout DEF HalfWord
  <2>5. Keeps(flash_program_buffer(flash, Target, Data, k))
    BY <2>1, ProgramKeeps
  <2> QED
    BY <2>2, <2>4, <2>5, BootCellsApart, Layout DEF Keeps
<1> QED
  BY <1>1, <1>2, <1>3 DEF Torn, Running

\* The inductive invariant: also, a block is only programmed once accepted.
BootInv ==
  /\ TypeOK
  /\ Keeps(flash)
  /\ at = "program" => Accepted

LEMMA InitBootInv == Init => BootInv
  BY InitTypeOK, BootCellsApart DEF Init, Fresh, BootInv, Keeps

LEMMA NextBootInv ==
  ASSUME BootInv, Next PROVE BootInv'
<1> TypeOK /\ Keeps(flash) /\ TypeOK'
  BY NextTypeOK DEF BootInv
<1> USE DEF memory, machine, protocol
<1>1. CASE Request \/ Transfer
  <2>1. UNCHANGED flash /\ at' # "program"
    BY <1>1, Zenon
       DEF Request, Transfer, Dnload, DnloadZero, ClrStatus, Abort, Detach,
           Upload, UploadFault, GetStatus, GetState, OtherSetup, DataStage,
           StatusStage, StartBlock, ManifestReset, Handled, Polling, Fresh
  <2> QED
    BY <2>1 DEF BootInv, Keeps
<1>2. CASE Wipe \/ SetAddr \/ Ignore
  <2>1. Keeps(flash') /\ at' # "program"
    BY <1>2, EraseKeeps, Layout DEF Wipe, SetAddr, Ignore, BlockDone
  <2> QED
    BY <2>1 DEF BootInv, Keeps
<1>3. CASE ErasePage \/ StartWrite
  <2>1. Accepted
    BY <1>3 DEF ErasePage, StartWrite
  <2>2. Keeps(flash')
    BY <1>3, <2>1, AcceptedTarget, EraseKeeps DEF ErasePage, StartWrite, EnsureErased
  <2>3. Accepted'
    BY <1>3, <2>1 DEF ErasePage, StartWrite, Accepted, WantsErase, InPayload,
                      Target, Extent, BlockAddr
  <2> QED
    BY <2>2, <2>3 DEF BootInv, Keeps
<1>4. CASE Program
  <2>1. Keeps(flash')
    BY <1>4, AcceptedTarget, ProgramKeeps DEF Program, Running, BootInv
  <2> QED
    BY <1>4, <2>1 DEF BootInv, Keeps, Program, BlockDone
<1>5. CASE BlockFault \/ Restart
  <2>1. UNCHANGED <<flash, prog, at>>
    BY <1>5 DEF BlockFault, Restart
  <2> QED
    BY <2>1 DEF BootInv, Keeps, Accepted, WantsErase, InPayload, Target,
                Extent, BlockAddr
<1>6. CASE Outage
  <2>1. Keeps(flash')
    BY <1>6, TornKeeps DEF Outage, BootInv
  <2> QED
    BY <1>6, <2>1 DEF BootInv, Keeps, Outage, Fresh
<1> QED
  BY <1>1, <1>2, <1>3, <1>4, <1>5, <1>6 DEF Next, Block

\* The bootloader never overwrites itself, whatever the host sends and
\* wherever power fails (the range checks of usbdfu_getstatus_complete).
THEOREM BootloaderSafe == Spec => []BootloaderIntact
<1>1. BootInv /\ [Next]_vars => BootInv'
  <2>1. CASE Next
    BY <2>1, NextBootInv
  <2>2. CASE UNCHANGED vars
    BY <2>2 DEF BootInv, TypeOK, Keeps, Accepted, WantsErase, InPayload,
                Target, Extent, BlockAddr, vars, protocol, memory, machine
  <2> QED
    BY <2>1, <2>2
<1>2. BootInv => BootloaderIntact
  BY DEF BootInv, Keeps, BootloaderIntact
<1> QED
  BY <1>1, <1>2, InitBootInv, PTL DEF Spec

-----------------------------------------------------------------------------
(***************************************************************************)
(* What the host has been told when flash changes and when the device      *)
(* resets.  The callback is armed by three requests; of these only         *)
(* GETSTATUS leaves the driver in a state the callback acts upon, and its  *)
(* answer, which the host reads before the status stage, names that state. *)
(***************************************************************************)
Told ==
  /\ stage = "data" /\ complete => reply.state = usbdfu_state
  /\ stage = "status" /\ complete /\ usbdfu_state \in {"dfuDNBUSY", "dfuMANIFEST"}
       => seen = usbdfu_state
  /\ stage # "data" => reply = NoReply
  /\ at # "poll" => /\ stage = "none" /\ ~locked
                   /\ usbdfu_state = "dfuDNBUSY" /\ seen = "dfuDNBUSY"
  /\ at = "poll" => locked

LEMMA InitTold == Init => Told
  BY DEF Init, Fresh, Told

LEMMA NextTold ==
  ASSUME TypeOK, Told, Next PROVE Told'
<1> USE DEF memory, machine, protocol, Told
<1>1. ASSUME NEW n \in Blocknums, NEW len \in Lens, NEW b \in Buffers,
             Dnload(n, len, b)
      PROVE  Told'
  BY <1>1 DEF Dnload, Handled, Polling
<1>2. CASE DnloadZero \/ ClrStatus \/ Abort \/ Detach \/ OtherSetup
  BY <1>2 DEF DnloadZero, ClrStatus, Abort, Detach, OtherSetup, Handled, Polling
<1>3. ASSUME NEW n \in Blocknums, Upload(n) \/ UploadFault(n)
      PROVE  Told'
  BY <1>3 DEF Upload, UploadFault, Handled, Polling
<1>4. CASE GetStatus \/ GetState
  <2>1. usbdfu_state' \in DfuState
    BY NextTypeOK DEF TypeOK
  <2>2. [NoReply EXCEPT !.state = usbdfu_state'].state = usbdfu_state'
    BY DEF NoReply
  <2> QED
    BY <1>4, <2>1, <2>2 DEF GetStatus, GetState, Handled, Polling
<1>5. CASE DataStage
  <2>1. usbdfu_state # NoState
    BY DEF TypeOK, DfuState, NoState
  <2> QED
    BY <1>5, <2>1 DEF DataStage, Polling
<1>6. CASE StatusStage \/ StartBlock
  BY <1>6 DEF StatusStage, StartBlock, Polling
<1>7. CASE Wipe \/ StartWrite \/ BlockFault \/ Restart
  BY <1>7 DEF Wipe, StartWrite, BlockFault, Restart, Untouched, Running
<1>8. CASE SetAddr \/ Ignore \/ ErasePage \/ Program
  BY <1>8 DEF SetAddr, Ignore, ErasePage, Program, Untouched, Running, BlockDone
<1>9. CASE ManifestReset \/ Outage
  BY <1>9 DEF ManifestReset, Outage, Fresh
<1> QED
  BY <1>1, <1>2, <1>3, <1>4, <1>5, <1>6, <1>7, <1>8, <1>9
     DEF Next, Request, Transfer, Block

LEMMA SpecTold == Spec => [](TypeOK /\ Told)
<1>1. TypeOK /\ Told /\ [Next]_vars => (TypeOK /\ Told)'
  <2>1. CASE Next
    BY <2>1, NextTypeOK, NextTold
  <2>2. CASE UNCHANGED vars
    BY <2>2 DEF TypeOK, Told, vars, protocol, memory, machine
  <2> QED
    BY <2>1, <2>2
<1> QED
  BY <1>1, InitTypeOK, InitTold, PTL DEF Spec

\* Flash changes only while the controller is unlocked for a block whose
\* dfuDNBUSY the host has read.
THEOREM AllWritesAnnounced == Spec => WritesAreAnnounced
<1>1. ASSUME TypeOK, Told, Next, flash' # flash
      PROVE  seen = "dfuDNBUSY" /\ ~locked
  <2>1. at # "poll"
    <3> SUFFICES ASSUME at = "poll" PROVE flash' = flash
      BY <1>1
    <3>1. Torn = {flash}
      BY DEF Torn, Running
    <3> QED
      BY <1>1, <3>1, Zenon
         DEF Next, Request, Transfer, Block, Outage, Restart, Dnload, DnloadZero,
             ClrStatus, Abort, Detach, Upload, UploadFault, GetStatus, GetState,
             OtherSetup, DataStage, StatusStage, StartBlock, ManifestReset,
             Handled, Wipe, SetAddr, Ignore, ErasePage, StartWrite, Program,
             BlockFault, Running, memory
  <2> QED
    BY <1>1, <2>1 DEF Told
<1>2. TypeOK /\ Told /\ [Next]_vars
        => [flash' # flash => seen = "dfuDNBUSY" /\ ~locked]_vars
  BY <1>1
<1> QED
  BY <1>2, SpecTold, PTL DEF Spec, WritesAreAnnounced

\* The device resets itself only after the host has read dfuMANIFEST, and
\* with no block under way.
THEOREM AllResetsAnnounced == Spec => ResetIsAnnounced
<1>1. ASSUME TypeOK, Told, Next, power' = "reset", power # "reset"
      PROVE  seen = "dfuMANIFEST" /\ locked /\ at = "poll"
  <2>1. ManifestReset
    BY <1>1, Zenon
       DEF Next, Request, Transfer, Block, Outage, Restart, Dnload, DnloadZero,
           ClrStatus, Abort, Detach, Upload, UploadFault, GetStatus, GetState,
           OtherSetup, DataStage, StatusStage, StartBlock, Handled, Wipe, SetAddr,
           Ignore, ErasePage, StartWrite, Program, BlockFault, Untouched, machine
  <2> QED
    BY <1>1, <2>1 DEF ManifestReset, Polling, Told
<1>2. TypeOK /\ Told /\ [Next]_vars
        => [power' = "reset" /\ power # "reset" =>
              seen = "dfuMANIFEST" /\ locked /\ at = "poll"]_vars
  BY <1>1
<1> QED
  BY <1>2, SpecTold, PTL DEF Spec, ResetIsAnnounced

-----------------------------------------------------------------------------
(***************************************************************************)
(* An acknowledged page is in flash.  The invariant: whenever the driver,  *)
(* an answer on its way or the host says dfuDNLOAD_IDLE the page is done,  *)
(* and a block about to be programmed has its page erased.                 *)
(***************************************************************************)
PageErased ==
  Target \in PageStarts =>
    \A c \in Target .. Target + PageSize - 1 : flash[c] = Erased

AckInv ==
  /\ "dfuDNLOAD_IDLE" \in {usbdfu_state, reply.state, seen} => PageIsDone
  /\ at = "program" => Accepted /\ prog.blocknum # 0 /\ PageErased

\* A page that reads as erased word by word is erased cell by cell.
LEMMA ErasedPage ==
  ASSUME NEW f, NEW a \in Nat, flash_page_is_erased(f, a),
         NEW c \in a .. a + PageSize - 1
  PROVE  f[c] = Erased
<1> DEFINE i == (c - a) \div 4
           w == a + 4 * i
<1>1. c - a \in 0 .. PageSize - 1 /\ PageSize \in Nat /\ PageSize % 4 = 0
  BY Layout
<1>2. i \in 0 .. (PageSize \div 4) - 1 /\ c \in w .. w + 3
  BY <1>1
<1>3. w \in PageWords(a)
  BY <1>2 DEF PageWords
<1> HIDE DEF w
<1> QED
  BY <1>2, <1>3 DEF flash_page_is_erased, WordErased

LEMMA EnsureErasedErases ==
  ASSUME TypeOK, Target \in PageStarts,
         NEW c \in Target .. Target + PageSize - 1
  PROVE  EnsureErased(Target)[c] = Erased
<1>1. Target \in Nat /\ c \in Cells
  BY PageInCells
<1>2. c \in PageOf(Target)
  BY <1>1, PageOfIs, Layout
<1>3. CASE flash_page_is_erased(flash, Target)
  BY <1>1, <1>3, ErasedPage DEF EnsureErased
<1>4. CASE ~flash_page_is_erased(flash, Target)
  BY <1>1, <1>2, <1>4 DEF EnsureErased, flash_erase_page
<1> QED
  BY <1>3, <1>4

\* Programming an erased page.
LEMMA ProgramFills ==
  ASSUME TypeOK, PageErased, Target \in PageStarts,
         NEW c \in Target .. Target + PageSize - 1
  PROVE  flash_program_buffer(flash, Target, Data, prog.len \div 2)[c]
           = IF c < Target + 2 * (prog.len \div 2)
             THEN <<prog.buf.id, c - Target>> ELSE Erased
<1> DEFINE n == prog.len \div 2
<1>1. Target \in Nat /\ c \in Cells /\ c \in Nat /\ Target <= c
  BY PageInCells
<1>2. n \in Nat /\ 2 * n <= PageSize
  BY BlockTypes, HalfWords
<1> HIDE DEF n
<1>3. c < Target + 2 * n
        => HalfWord(Target, c) \subseteq Target .. Target + PageSize - 1
  BY <1>1, <1>2, Layout DEF HalfWord
<1>4. c - Target \in 0 .. PageSize - 1
  BY <1>1, Layout
<1> QED
  BY <1>1, <1>3, <1>4 DEF PageErased, flash_program_buffer, Data, n

\* A block that stays what it is, in a flash that stays what it is, stays done.
LEMMA DoneStays ==
  ASSUME UNCHANGED <<prog, flash>>
  PROVE  /\ PageIsDone => PageIsDone'
         /\ Accepted' <=> Accepted
         /\ PageErased => PageErased'
  BY DEF PageIsDone, PageErased, Accepted, WantsErase, InPayload, Target,
         Extent, BlockAddr

LEMMA NextAckInv ==
  ASSUME TypeOK, Told, AckInv, Next PROVE AckInv'
<1> USE DEF memory, machine, protocol
<1> NoReply.state # "dfuDNLOAD_IDLE" /\ NoState # "dfuDNLOAD_IDLE"
  BY DEF NoReply, NoState
<1>1. ASSUME NEW n \in Blocknums, NEW len \in Lens, NEW b \in Buffers,
             Dnload(n, len, b)
      PROVE  AckInv'
  BY <1>1 DEF Dnload, Handled, Polling, AckInv
<1>2. ASSUME UNCHANGED <<prog, flash>>, at' = at,
             "dfuDNLOAD_IDLE" \in {usbdfu_state', reply'.state, seen'}
               => "dfuDNLOAD_IDLE" \in {usbdfu_state, reply.state, seen}
      PROVE  AckInv'
  BY <1>2, DoneStays DEF AckInv
<1>3. CASE DnloadZero \/ ClrStatus \/ Abort \/ Detach \/ OtherSetup
  BY <1>2, <1>3 DEF DnloadZero, ClrStatus, Abort, Detach, OtherSetup, Handled
<1>4. ASSUME NEW n \in Blocknums, Upload(n) \/ UploadFault(n)
      PROVE  AckInv'
  <2>1. \A a : [NoReply EXCEPT !.from = a].state # "dfuDNLOAD_IDLE"
    BY DEF NoReply, NoState
  <2> QED
    BY <1>2, <1>4, <2>1 DEF Upload, UploadFault, Handled
<1>5. CASE GetStatus \/ GetState
  <2>1. \A s : [NoReply EXCEPT !.state = s].state = s
    BY DEF NoReply
  <2>2. usbdfu_state' = "dfuDNLOAD_IDLE" => usbdfu_state = "dfuDNLOAD_IDLE"
    BY <1>5 DEF GetStatus, GetState, usbdfu_getstatus
  <2> QED
    BY <1>2, <1>5, <2>1, <2>2 DEF GetStatus, GetState, Handled
<1>6. CASE DataStage \/ StatusStage \/ BlockFault \/ Restart
  BY <1>2, <1>6 DEF DataStage, StatusStage, BlockFault, Restart
<1>7. CASE StartBlock
  BY <1>7, DoneStays DEF StartBlock, AckInv, Told
<1>8. CASE ManifestReset \/ Outage
  BY <1>8 DEF ManifestReset, Outage, Fresh, AckInv
<1>9. at # "poll" => reply = NoReply /\ seen = "dfuDNBUSY" /\ usbdfu_state = "dfuDNBUSY"
  BY DEF Told
<1>10. CASE Wipe
  BY <1>9, <1>10 DEF Wipe, Running, Untouched, AckInv
<1>11. CASE SetAddr
  <2>1. PageIsDone'
    BY <1>11, BlockTypes
       DEF SetAddr, PageIsDone, Accepted, WantsErase, TypeOK, CMD_SETADDR, CMD_ERASE
  <2> QED
    BY <1>11, <2>1 DEF SetAddr, BlockDone, AckInv
<1>12. CASE Ignore
  <2>1. PageIsDone
    BY <1>12 DEF Ignore, PageIsDone
  <2> QED
    BY <1>12, <2>1, DoneStays DEF Ignore, BlockDone, AckInv
<1>13. ASSUME UNCHANGED prog
       PROVE  Target' = Target /\ (Accepted' <=> Accepted)
  BY <1>13 DEF Accepted, WantsErase, InPayload, Target, Extent, BlockAddr
<1>14. CASE ErasePage
  <2>1. UNCHANGED prog /\ prog.blocknum = 0 /\ flash' = EnsureErased(Target)
    BY <1>14 DEF ErasePage
  <2>2. prog.buf.cmd # CMD_SETADDR
    BY <1>14 DEF ErasePage, Accepted, WantsErase, CMD_SETADDR, CMD_ERASE
  <2>3. PageIsDone'
    BY <1>13, <2>1, <2>2, EnsureErasedErases DEF PageIsDone
  <2> QED
    BY <1>14, <2>3 DEF ErasePage, BlockDone, AckInv
<1>15. CASE StartWrite
  <2>1. UNCHANGED prog /\ prog.blocknum # 0 /\ flash' = EnsureErased(Target)
        /\ Accepted
    BY <1>15 DEF StartWrite
  <2>2. PageErased' /\ Accepted' /\ prog'.blocknum # 0
    BY <1>13, <2>1, EnsureErasedErases DEF PageErased
  <2> QED
    BY <1>9, <1>15, <2>2 DEF StartWrite, Running, Untouched, AckInv
<1>16. CASE Program
  <2>1. UNCHANGED prog /\ PageErased /\ prog.blocknum # 0
        /\ flash' = flash_program_buffer(flash, Target, Data, prog.len \div 2)
    BY <1>16 DEF Program, Running, AckInv
  <2>2. PageIsDone'
    BY <1>13, <2>1, ProgramFills DEF PageIsDone
  <2> QED
    BY <1>16, <2>2 DEF Program, BlockDone, AckInv
<1> QED
  BY <1>1, <1>3, <1>4, <1>5, <1>6, <1>7, <1>8, <1>10, <1>11, <1>12, <1>14, <1>15,
     <1>16 DEF Next, Request, Transfer, Block

\* After a block that the range check lets pass and that starts on a page,
\* dfuDNLOAD_IDLE means that the page holds the half-words of the block and is
\* erased behind them, for every sequence of requests and outages.
THEOREM AckedPagesAreDone == Spec => []AckedPageIsDone
<1>1. Init => AckInv
  BY DEF Init, Fresh, AckInv, NoReply, NoState
<1>2. TypeOK /\ Told /\ AckInv /\ [Next]_vars => AckInv'
  <2>1. CASE Next
    BY <2>1, NextAckInv
  <2>2. CASE UNCHANGED vars
    BY <2>2, DoneStays DEF AckInv, vars, protocol, memory, machine
  <2> QED
    BY <2>1, <2>2
<1>3. AckInv => AckedPageIsDone
  BY DEF AckInv, AckedPageIsDone
<1> QED
  BY <1>1, <1>2, <1>3, SpecTold, PTL DEF Spec

-----------------------------------------------------------------------------
(***************************************************************************)
(* The driver runs into a bus fault only for addresses that are not a      *)
(* page's, if the flash lies where it does on the part: an even address, a *)
(* page or more above 0, and so far below the end of the address space     *)
(* that no block number a host sends reaches that end.                     *)
(***************************************************************************)
BlocksFit ==
  /\ FLASH_BASE_ADDR % 2 = 0 /\ FLASH_BASE_ADDR >= PageSize
  /\ \A n \in Blocknums : end_addr + (n - 1) * PageSize <= AddrSpace

\* The inductive invariant: also, the block is one the host may send, and is
\* accepted before it is programmed.
HangInv ==
  /\ TypeOK
  /\ prog.blocknum \in Blocknums \cup {0}
  /\ prog.blocknum # 0 => prog.len >= 1
  /\ at = "program" => Accepted /\ prog.blocknum # 0
  /\ HangsOnlyOffPage

-----------------------------------------------------------------------------
(***************************************************************************)
(* Pages.                                                                  *)
(***************************************************************************)
\* A page start is even, and the words of its page are in flash.
LEMMA PageStartFits ==
  ASSUME BlocksFit, NEW t \in PageStarts
  PROVE  /\ t \in Nat /\ t % 2 = 0
         /\ t >= FLASH_BASE_ADDR /\ t + PageSize <= end_addr
<1>1. PICK k \in 0 .. FlashPages - 1 : t = FLASH_BASE_ADDR + k * PageSize
  BY DEF PageStarts
<1>2. k \in Nat /\ FlashPages \in Nat /\ PageSize \in Nat /\ k + 1 <= FlashPages
      /\ FLASH_BASE_ADDR \in Nat /\ PageSize % 4 = 0
  BY <1>1, FlashAssumption
<1>3. (k + 1) * PageSize <= FlashPages * PageSize /\ k * PageSize \in Nat
      /\ FlashPages * PageSize \in Nat
  BY <1>2, TimesMonotone
<1>4. (k + 1) * PageSize = k * PageSize + PageSize
  BY <1>2
<1>5. (k * PageSize) % 2 = 0
  <2>1. PICK q \in Nat : PageSize = 2 * q
    <3>1. PageSize = 2 * (PageSize \div 2) /\ PageSize \div 2 \in Nat
      BY <1>2
    <3> QED
      BY <3>1
  <2>2. k * PageSize = 2 * (k * q) /\ k * q \in Nat
    BY <1>2, <2>1
  <2> QED
    BY <2>2
<1> QED
  BY <1>1, <1>2, <1>3, <1>4, <1>5 DEF BlocksFit, end_addr

LEMMA PageStartScans ==
  ASSUME BlocksFit, NEW t \in PageStarts, NEW f
  PROVE  Mapped(t) /\ ~PageScanFaults(f, t)
<1>1. /\ t \in Nat /\ t >= FLASH_BASE_ADDR /\ t + PageSize <= end_addr
      /\ PageSize \in Nat /\ PageSize >= 8 /\ PageSize % 4 = 0
      /\ FLASH_BASE_ADDR \in Nat /\ end_addr \in Nat
  BY PageStartFits, Layout
<1>2. Mapped(t)
  BY <1>1 DEF Mapped, Cells
<1>3. ASSUME NEW w \in PageWords(t) PROVE Mapped(w)
  <2>1. PICK i \in 0 .. (PageSize \div 4) - 1 : w = t + 4 * i
    BY <1>3 DEF PageWords
  <2>2. i \in Nat /\ 4 * i + 4 <= PageSize
    BY <1>1, <2>1
  <2> QED
    BY <1>1, <2>1, <2>2 DEF Mapped, Cells
<1> QED
  BY <1>2, <1>3 DEF PageScanFaults

\* From the address of a page, a block that passes the range check starts on
\* a page: neither the address nor the end of the block wraps around.
LEMMA BlockOnPage ==
  ASSUME BlocksFit, prog.addr \in PageStarts,
         NEW n \in Blocknums, n # 0,
         NEW len \in 1 .. PageSize, InPayload(BlockAddr(n), len)
  PROVE  BlockAddr(n) \in PageStarts
<1>1. PICK k \in 0 .. FlashPages - 1 :
        prog.addr = FLASH_BASE_ADDR + k * PageSize
  BY DEF PageStarts
<1>2. n \in Nat /\ n >= 1
  <2>1. n \in UInt16
    BY DfuAssumption
  <2>2. n \in Nat
    BY <2>1, 2^16 - 1 \in Int DEF UInt16
  <2> QED
    BY <2>2
<1>3. /\ k \in Nat /\ FlashPages \in Nat /\ k + 1 <= FlashPages
      /\ PageSize \in Nat /\ PageSize >= 8 /\ FLASH_BASE_ADDR \in Nat
      /\ AddrSpace \in Nat /\ BootPages \in Nat /\ BootPages <= FlashPages
  BY <1>1, FlashAssumption
<1> DEFINE j == k + n - 2
           a == FLASH_BASE_ADDR + j * PageSize
<1>4. j \in Int /\ j >= 0 - 1 /\ j * PageSize \in Int /\ a \in Int
  BY <1>2, <1>3
<1>5. prog.addr + (n - 2) * PageSize = a
  <2>1. k * PageSize + (n - 2) * PageSize = j * PageSize
    BY <1>2, <1>3
  <2> QED
    BY <1>1, <1>2, <1>3, <2>1
<1>6. a >= 0
  <2>1. (j + 1) * PageSize \in Nat
    BY <1>3, <1>4
  <2>2. (j + 1) * PageSize = j * PageSize + PageSize
    BY <1>3, <1>4
  <2> HIDE DEF j
  <2> QED
    BY <1>3, <1>4, <2>1, <2>2 DEF BlocksFit
<1>7. a + PageSize < AddrSpace
  <2>1. end_addr + (n - 1) * PageSize <= AddrSpace
    BY DEF BlocksFit
  <2>2. /\ (j + 2) * PageSize <= (FlashPages + (n - 1)) * PageSize
        /\ (j + 2) * PageSize \in Nat
        /\ (FlashPages + (n - 1)) * PageSize \in Nat
    <3>1. j + 2 \in Nat /\ FlashPages + (n - 1) \in Nat
          /\ j + 2 <= FlashPages + (n - 1)
      BY <1>2, <1>3
    <3> HIDE DEF j
    <3> QED
      BY <1>3, <3>1, TimesMonotone
  <2>3. (j + 2) * PageSize = j * PageSize + PageSize + PageSize
    BY <1>3, <1>4
  <2>4. (FlashPages + (n - 1)) * PageSize
          = FlashPages * PageSize + (n - 1) * PageSize
        /\ FlashPages * PageSize \in Nat /\ (n - 1) * PageSize \in Int
    BY <1>2, <1>3
  <2> HIDE DEF j
  <2> QED
    BY <1>3, <1>4, <2>1, <2>2, <2>3, <2>4 DEF end_addr
<1> HIDE DEF a
<1>8. BlockAddr(n) = a
  BY <1>3, <1>4, <1>5, <1>6, <1>7 DEF BlockAddr, Wrap
<1>9. a >= start_addr /\ a + len <= end_addr
  <2>1. a + len \in Nat /\ a + len < AddrSpace
    BY <1>3, <1>4, <1>6, <1>7
  <2>2. Wrap(a + len) = a + len
    BY <1>3, <2>1 DEF Wrap
  <2> QED
    BY <1>8, <2>2 DEF InPayload
<1> USE DEF a
<1> HIDE DEF j
<1>10. j >= 0
  <2> SUFFICES ASSUME j <= 0 - 1 PROVE FALSE
    BY <1>4
  <2>1. j = 0 - 1
    BY <1>4
  <2>2. j * PageSize = 0 - PageSize
    BY <1>3, <2>1
  <2> QED
    BY <1>3, <1>9, <2>2, Layout
<1>11. j <= FlashPages - 1
  <2> SUFFICES ASSUME FlashPages <= j PROVE FALSE
    BY <1>3, <1>4
  <2>1. FlashPages * PageSize <= j * PageSize /\ FlashPages * PageSize \in Nat
    BY <1>3, <1>4, <1>10, TimesMonotone
  <2> QED
    BY <1>3, <1>4, <1>9, <2>1 DEF end_addr
<1> QED
  BY <1>3, <1>4, <1>8, <1>10, <1>11 DEF PageStarts

-----------------------------------------------------------------------------
\* A block that is accepted and starts on no page was sent for no page.
LEMMA TargetOffPage ==
  ASSUME BlocksFit, HangInv, Accepted, Target \notin PageStarts
  PROVE  \/ prog.addr \notin PageStarts
         \/ prog.blocknum = 0 /\ prog.buf.arg \notin PageStarts
<1>1. CASE prog.blocknum = 0
  BY <1>1 DEF Target
<1>2. CASE prog.blocknum # 0
  <2>1. prog.blocknum \in Blocknums /\ prog.len \in 1 .. PageSize
    BY <1>2, BlockTypes, Layout DEF HangInv
  <2>2. InPayload(BlockAddr(prog.blocknum), prog.len)
    BY <1>2 DEF Accepted, Target, Extent
  <2> QED
    BY <1>2, <2>1, <2>2, BlockOnPage DEF Target
<1> QED
  BY <1>1, <1>2

LEMMA InitHangInv == Init => HangInv
<1> SUFFICES ASSUME Init PROVE HangInv
  OBVIOUS
<1>1. TypeOK
  BY InitTypeOK
<1>2. prog.blocknum = 0 /\ at = "poll" /\ power = "on"
  BY DEF Init, Fresh, FreshProg
<1> QED
  BY <1>1, <1>2 DEF HangInv, HangsOnlyOffPage

LEMMA NextHangInv ==
  ASSUME BlocksFit, HangInv, Next
  PROVE  HangInv'
<1>1. TypeOK /\ TypeOK'
  BY NextTypeOK DEF HangInv
<1> USE DEF memory, machine, protocol
<1>2. ASSUME UNCHANGED prog, at' # "program", power' # "hung"
      PROVE  HangInv'
  BY <1>1, <1>2 DEF HangInv, HangsOnlyOffPage
<1>3. ASSUME NEW n \in Blocknums, NEW len \in Lens, NEW b \in Buffers,
             Dnload(n, len, b)
      PROVE  HangInv'
  <2>1. at' = "poll" /\ power' = "on"
    BY <1>3 DEF Dnload, Handled, Polling
  <2>2. prog'.blocknum = n /\ prog'.len = len
    <3>1. PICK word : prog' = [prog EXCEPT !.blocknum = n, !.len = len,
                                 !.buf = [b EXCEPT !.arg = word]]
      BY <1>3, Zenon DEF Dnload
    <3> QED
      BY <1>1, <3>1 DEF TypeOK
  <2>3. len >= 1
    BY DfuAssumption
  <2> QED
    BY <1>1, <2>1, <2>2, <2>3 DEF HangInv, HangsOnlyOffPage
<1>4. CASE DnloadZero \/ ClrStatus \/ Abort \/ Detach \/ GetStatus \/ GetState
            \/ OtherSetup \/ DataStage \/ StatusStage \/ StartBlock
  <2>1. UNCHANGED <<prog, power>> /\ at' # "program" /\ power = "on"
    BY <1>4, Zenon
       DEF DnloadZero, ClrStatus, Abort, Detach, GetStatus, GetState,
           OtherSetup, DataStage, StatusStage, StartBlock, Handled, Polling
  <2> QED
    BY <1>2, <2>1
<1>5. ASSUME NEW n \in Blocknums, Upload(n) PROVE HangInv'
  <2>1. UNCHANGED <<prog, power>> /\ at' # "program" /\ power = "on"
    BY <1>5 DEF Upload, Handled, Polling
  <2> QED
    BY <1>2, <2>1
<1>6. ASSUME NEW n \in Blocknums, UploadFault(n) PROVE HangInv'
  <2>1. n # 0 /\ InPayload(BlockAddr(n), PageSize) /\ ~Mapped(BlockAddr(n))
    BY <1>6 DEF UploadFault
  <2>2. PageSize \in 1 .. PageSize
    BY Layout
  <2>3. prog.addr \notin PageStarts
    BY <2>1, <2>2, BlockOnPage, PageStartScans
  <2>4. UNCHANGED prog /\ at' = "poll"
    BY <1>6 DEF UploadFault, Polling
  <2> QED
    BY <1>1, <2>3, <2>4 DEF HangInv, HangsOnlyOffPage
<1>7. CASE ManifestReset \/ Outage
  <2>1. prog'.blocknum = 0 /\ at' = "poll" /\ power' # "hung"
    BY <1>7 DEF ManifestReset, Outage, Fresh, FreshProg
  <2> QED
    BY <1>1, <2>1 DEF HangInv, HangsOnlyOffPage
<1>8. CASE Restart
  <2>1. UNCHANGED <<prog, at>> /\ power' = "on"
    BY <1>8 DEF Restart
  <2>2. Accepted' = Accepted
    BY <2>1 DEF Accepted, WantsErase, InPayload, Target, Extent, BlockAddr
  <2> QED
    BY <1>1, <2>1, <2>2 DEF HangInv, HangsOnlyOffPage
<1>9. CASE Wipe \/ Ignore \/ ErasePage \/ Program
  <2>1. UNCHANGED <<prog, power>> /\ at' # "program" /\ power = "on"
    BY <1>9 DEF Wipe, Ignore, ErasePage, Program, Running, Untouched, BlockDone
  <2> QED
    BY <1>2, <2>1
<1>10. CASE SetAddr
  <2>1. power' = "on" /\ at' = "poll"
    BY <1>10 DEF SetAddr, Running, Untouched, BlockDone
  <2>2. prog'.blocknum = prog.blocknum /\ prog.blocknum = 0
    BY <1>1, <1>10 DEF SetAddr, TypeOK
  <2> QED
    BY <1>1, <2>1, <2>2 DEF HangInv, HangsOnlyOffPage
<1>11. CASE StartWrite
  <2>1. UNCHANGED <<prog, power>> /\ power = "on" /\ Accepted
        /\ prog.blocknum # 0
    BY <1>11 DEF StartWrite, Running, Untouched
  <2>2. Accepted'
    BY <2>1 DEF Accepted, WantsErase, InPayload, Target, Extent, BlockAddr
  <2> QED
    BY <1>1, <2>1, <2>2 DEF HangInv, HangsOnlyOffPage
<1>12. CASE BlockFault
  <2>1. Accepted /\ Target \notin PageStarts
    <3>1. CASE at = "execute"
      BY <1>12, <3>1, PageStartScans DEF BlockFault, Running
    <3>2. CASE at = "program"
      <4>1. Accepted /\ Target % 2 = 1
        BY <1>12, <3>2 DEF BlockFault, Running, StoreFaults, HangInv
      <4> QED
        BY <4>1, PageStartFits
    <3> QED
      BY <1>12, <3>1, <3>2 DEF BlockFault, Running
  <2>2. UNCHANGED <<prog, at>>
    BY <1>12 DEF BlockFault
  <2>3. Accepted' = Accepted
    BY <2>2 DEF Accepted, WantsErase, InPayload, Target, Extent, BlockAddr
  <2> QED
    BY <1>1, <2>1, <2>2, <2>3, TargetOffPage DEF HangInv, HangsOnlyOffPage
<1> QED
  BY <1>3, <1>4, <1>5, <1>6, <1>7, <1>8, <1>9, <1>10, <1>11, <1>12
     DEF Next, Request, Transfer, Block

\* A host that only names pages never makes the bootloader hang, for every
\* flash that lies as it does on the part (usbdfu_getstatus_complete, upload).
THEOREM OnlyOffPageHangs ==
  ASSUME BlocksFit
  PROVE  Spec => []HangsOnlyOffPage
<1>1. HangInv /\ [Next]_vars => HangInv'
  <2>1. CASE Next
    BY <2>1, NextHangInv
  <2>2. CASE UNCHANGED vars
    BY <2>2 DEF HangInv, TypeOK, HangsOnlyOffPage, Accepted, WantsErase,
                InPayload, Target, Extent, BlockAddr, vars, protocol, memory,
                machine
  <2> QED
    BY <2>1, <2>2
<1>2. HangInv => HangsOnlyOffPage
  BY DEF HangInv
<1> QED
  BY <1>1, <1>2, InitHangInv, PTL DEF Spec
=============================================================================
