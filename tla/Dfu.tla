--------------------------------- MODULE Dfu ---------------------------------
(***************************************************************************)
(* The DFU class driver, Core/Src/usbdfu.c, running in the polling loop of *)
(* main.c, against a USB host and a power supply that may fail.            *)
(*                                                                         *)
(* The driver is seen one control transfer at a time.  A transfer is a     *)
(* request, handled when its setup packet (or the last packet of its data) *)
(* arrives, then the data the host reads if there is any, then a status    *)
(* stage; only the status stage runs the completion callback, and that is  *)
(* where flash is written and where the system resets.  A host that sends  *)
(* another setup packet before the status stage abandons the transfer.     *)
(* Module UsbControl models the packets below this.                        *)
(*                                                                         *)
(* Requests have the form DFU 1.1 gives them: DNLOAD carries its data to   *)
(* the device, GETSTATUS asks for all of its six bytes.                    *)
(***************************************************************************)
EXTENDS Flash

CONSTANTS
  ENABLE_SAFEWRITE,   \* build options of flash_config.h
  ENABLE_DFU_UPLOAD,
  BootCode,           \* what every byte of the bootloader holds
  OldApp,             \* what the bytes of an application found at start hold
  Images,             \* names of the 1 KB buffers a host downloads
  ZeroBuf,            \* the content of prog.buf before any download
  Buffers,            \* the buffers the host may send, see Buffer
  Blocknums,          \* the values of wValue the host may send
  Lens                \* the lengths of the buffers the host may send

CMD_SETADDR == "setaddr"      \* 0x21
CMD_ERASE   == "erase"        \* 0x41

\* A download buffer: its first byte, the little-endian word in the four
\* bytes after it, and a name for the page of data it is when programmed.
Buffer == [cmd : {CMD_SETADDR, CMD_ERASE, "other"},
           arg : Address,
           id  : Images \cup {ZeroBuf}]

Bytes == {Erased, Garbage, BootCode, OldApp}
           \cup ((Images \cup {ZeroBuf}) \X (0 .. PageSize - 1))

\* wValue and prog.blocknum are 16 bits wide.
UInt16 == 0 .. 2^16 - 1

ASSUME DfuAssumption ==
  /\ ENABLE_SAFEWRITE \in BOOLEAN /\ ENABLE_DFU_UPLOAD \in BOOLEAN
  /\ Buffers \subseteq Buffer
  /\ Blocknums \subseteq UInt16
  /\ Lens \subseteq 1 .. PageSize

\* The byte of the old application stands for none of the others.
ASSUME OldAppAssumption ==
  /\ OldApp \notin {Erased, Garbage, BootCode}
  /\ OldApp \notin (Images \cup {ZeroBuf}) \X (0 .. PageSize - 1)

DfuState == {"dfuIDLE", "dfuDNLOAD_SYNC", "dfuDNBUSY", "dfuDNLOAD_IDLE",
             "dfuMANIFEST_SYNC", "dfuMANIFEST", "dfuUPLOAD_IDLE", "dfuERROR"}

NoState == "none"
NoAddr  == AddrSpace          \* not an address
NoReply == [state |-> NoState, from |-> NoAddr]

VARIABLES
  usbdfu_state,  \* the state reported to the host
  prog,          \* the last block downloaded and the address pointer
  complete,      \* whether usb_complete_cb is armed for this transfer
  stage,         \* what is left of the transfer: "data", "status" or "none"
  reply,         \* what the data stage hands to the host: a DFU state, or
                 \* the memory from some address on
  seen,          \* history: the last DFU state the host read since it sent
                 \* its last block
  flash,         \* the bytes of the flash
  locked,        \* LOCK of FLASH_CR
  erased,        \* check_do_erase's static: the payload was wiped
  at,            \* where the processor is: "poll" (the main loop), or in the
                 \* callback about to "wipe", "execute" or "program"
  power          \* "on", "hung" (null_handler), "reset" (by software, with the
                 \* reboot flags cleared) or "down" (power or the reset pin)

protocol == <<usbdfu_state, prog, complete, stage, reply, seen>>
memory   == <<flash, locked, erased>>
machine  == <<at, power>>
vars     == <<protocol, memory, machine>>

TypeOK ==
  /\ usbdfu_state \in DfuState
  /\ prog \in [blocknum : UInt16, len : 0 .. PageSize,
               buf : Buffer, addr : Address]
  /\ complete \in BOOLEAN
  /\ stage \in {"none", "data", "status"}
  /\ reply \in [state : DfuState \cup {NoState}, from : 0 .. AddrSpace]
  /\ seen \in DfuState \cup {NoState}
  /\ flash \in [Cells -> Bytes]
  /\ locked \in BOOLEAN
  /\ erased \in BOOLEAN
  /\ at \in {"poll", "wipe", "execute", "program"}
  /\ power \in {"on", "hung", "reset", "down"}

-----------------------------------------------------------------------------
(***************************************************************************)
(* Start.  The statics of usbdfu.c and usb.c after any reset, and FLASH_CR *)
(* locked by the reset.                                                    *)
(***************************************************************************)
FreshProg == [blocknum |-> 0, len |-> 0, addr |-> 0,
              buf |-> [cmd |-> "other", arg |-> 0, id |-> ZeroBuf]]

Fresh(st, p, c, sg, r, sn, lk, er, a) ==
  /\ st = "dfuIDLE" /\ p = FreshProg /\ c = FALSE
  /\ sg = "none" /\ r = NoReply /\ sn = NoState
  /\ lk = TRUE /\ er = FALSE /\ a = "poll"

\* The payload holds an application or is erased.
Init ==
  /\ Fresh(usbdfu_state, prog, complete, stage, reply, seen,
           locked, erased, at)
  /\ \E content \in {OldApp, Erased} :
       flash = [c \in Cells |-> IF c \in BootCells THEN BootCode ELSE content]
  /\ power = "on"

-----------------------------------------------------------------------------
(***************************************************************************)
(* usbdfu_control_request.  No request looks at the state it arrives in,   *)
(* and each may arrive whenever the main loop polls.                       *)
(***************************************************************************)
Polling == power = "on" /\ at = "poll"

\* Mutant: a setup packet does not drop the callback of the last transfer.
BugHandledKeepsCallback(s, r, cb) ==
  /\ Polling
  /\ stage' = s /\ reply' = r /\ complete' = (cb \/ complete)
  /\ UNCHANGED <<memory, machine>>

\* A handled request: its transfer goes on with stage s, replies r, and has
\* the callback armed or not.  Setting up a transfer dropped the last one.
Handled(s, r, cb) ==
  /\ Polling
  /\ stage' = s /\ reply' = r /\ complete' = cb
  /\ UNCHANGED <<memory, machine>>

\* A block shorter than a command leaves the end of the last one in prog.buf;
\* two to four bytes replace part of the word, in a way not modelled further.
Dnload(n, len, b) ==
  /\ Handled("status", NoReply, FALSE)
  /\ \E word \in {c.arg : c \in Buffers} \cup {prog.buf.arg} :
       /\ len >= 5 => word = b.arg
       /\ len = 1 => word = prog.buf.arg
       /\ prog' = [prog EXCEPT !.blocknum = n, !.len = len,
                               !.buf = [b EXCEPT !.arg = word]]
  /\ usbdfu_state' = "dfuDNLOAD_SYNC"
  /\ seen' = NoState

DnloadZero ==
  /\ Handled("status", NoReply, TRUE)
  /\ usbdfu_state' = "dfuMANIFEST_SYNC"
  /\ UNCHANGED <<prog, seen>>

ClrStatus ==
  /\ Handled("status", NoReply, FALSE)
  /\ usbdfu_state' = IF usbdfu_state = "dfuERROR" THEN "dfuIDLE"
                     ELSE usbdfu_state
  /\ UNCHANGED <<prog, seen>>

Abort ==
  /\ Handled("status", NoReply, FALSE)
  /\ usbdfu_state' = "dfuIDLE"
  /\ UNCHANGED <<prog, seen>>

Detach ==
  /\ Handled("status", NoReply, TRUE)
  /\ usbdfu_state' = "dfuMANIFEST_SYNC"
  /\ UNCHANGED <<prog, seen>>

\* prog.addr + (wValue - 2) * DFU_TRANSFER_SIZE, in 32 bits.
BlockAddr(n) == Wrap(prog.addr + (n - 2) * PageSize)

\* Mutants: the first test made on the end of the block, the second on its start.
BugInPayloadEndFloor(a, len) ==
  Wrap(a + len) >= start_addr /\ Wrap(a + len) <= end_addr
BugInPayloadStart(a, len)    == a >= start_addr /\ a <= end_addr

\* baseaddr >= start_addr && baseaddr + len <= end_addr, in 32 bits.
InPayload(a, len) == a >= start_addr /\ Wrap(a + len) <= end_addr

\* A request for a block outside the payload is answered with no data.  One
\* whose check wrapped around reads unmapped memory: a bus fault.
Upload(n) ==
  LET base  == BlockAddr(n)
      valid == ENABLE_DFU_UPLOAD /\ InPayload(base, PageSize)
  IN /\ n # 0 /\ valid => Mapped(base)
     /\ Handled("data",
                [NoReply EXCEPT !.from = IF n # 0 /\ valid THEN base ELSE @],
                FALSE)
     /\ usbdfu_state' = IF n = 0 \/ valid THEN "dfuUPLOAD_IDLE" ELSE "dfuERROR"
     /\ UNCHANGED <<prog, seen>>

UploadFault(n) ==
  /\ Polling
  /\ n # 0 /\ ENABLE_DFU_UPLOAD
  /\ InPayload(BlockAddr(n), PageSize) /\ ~Mapped(BlockAddr(n))
  /\ usbdfu_state' = "dfuUPLOAD_IDLE"
  /\ complete' = FALSE
  /\ power' = "hung"
  /\ UNCHANGED <<prog, stage, reply, seen, memory, at>>

\* Mutants: a busy device says it is done; manifestation ends in a state
\* nothing leaves.
BugGetstatusNotBusy(s) ==
  CASE s = "dfuDNLOAD_SYNC"   -> "dfuDNBUSY"
    [] s = "dfuDNBUSY"        -> "dfuDNLOAD_IDLE"
    [] s = "dfuMANIFEST_SYNC" -> "dfuMANIFEST"
    [] OTHER                  -> s

BugGetstatusWaitReset(s) ==
  CASE s = "dfuDNLOAD_SYNC"   -> "dfuDNBUSY"
    [] s = "dfuMANIFEST_SYNC" -> "dfuMANIFEST_WAIT_RESET"
    [] OTHER                  -> s

\* The state the driver moves to as it composes the answer to GETSTATUS.
usbdfu_getstatus(s) ==
  CASE s = "dfuDNLOAD_SYNC"   -> "dfuDNBUSY"
    [] s = "dfuMANIFEST_SYNC" -> "dfuMANIFEST"
    [] OTHER                  -> s

\* Mutant: the callback is armed only when the answer changes the state.
BugGetStatusArmsOnce ==
  /\ usbdfu_state' = usbdfu_getstatus(usbdfu_state)
  /\ Handled("data", [NoReply EXCEPT !.state = usbdfu_state'],
             usbdfu_state' # usbdfu_state)
  /\ UNCHANGED <<prog, seen>>

GetStatus ==
  /\ usbdfu_state' = usbdfu_getstatus(usbdfu_state)
  /\ Handled("data", [NoReply EXCEPT !.state = usbdfu_state'], TRUE)
  /\ UNCHANGED <<prog, seen>>

GetState ==
  /\ Handled("data", [NoReply EXCEPT !.state = usbdfu_state], FALSE)
  /\ UNCHANGED <<usbdfu_state, prog, seen>>

\* The setup packet of a request for another part of the device, or of one
\* the host gives up before its data is complete: it disarms the callback.
OtherSetup ==
  /\ Handled("none", NoReply, FALSE)
  /\ UNCHANGED <<usbdfu_state, prog, seen>>

-----------------------------------------------------------------------------
(***************************************************************************)
(* The rest of a transfer: the host reads the data, then acknowledges.     *)
(***************************************************************************)
DataStage ==
  /\ Polling /\ stage = "data"
  /\ stage' = "status"
  /\ seen' = IF reply.state = NoState THEN seen ELSE reply.state
  /\ reply' = NoReply
  /\ UNCHANGED <<usbdfu_state, prog, complete, memory, machine>>

\* The callback has nothing to do, or is not armed.
StatusStage ==
  /\ Polling /\ stage = "status"
  /\ complete => usbdfu_state \notin {"dfuDNBUSY", "dfuMANIFEST"}
  /\ stage' = "none" /\ complete' = FALSE
  /\ UNCHANGED <<usbdfu_state, prog, reply, seen, memory, machine>>

\* Mutant: only an erase command wipes.
BugWipesFirstOnErase ==
  /\ ENABLE_SAFEWRITE /\ ~erased
  /\ prog.blocknum = 0 /\ prog.buf.cmd = CMD_ERASE

\* Does executing the block begin with check_do_erase?
WipesFirst ==
  /\ ENABLE_SAFEWRITE /\ ~erased
  /\ prog.blocknum = 0 => prog.buf.cmd = CMD_ERASE

\* usbdfu_getstatus_complete in dfuDNBUSY: unlock, then the block.
StartBlock ==
  /\ Polling /\ stage = "status" /\ complete /\ usbdfu_state = "dfuDNBUSY"
  /\ stage' = "none" /\ complete' = FALSE
  /\ locked' = FALSE
  /\ at' = IF WipesFirst THEN "wipe" ELSE "execute"
  /\ UNCHANGED <<usbdfu_state, prog, reply, seen, flash, erased, power>>

\* Mutant: the callback also resets before the host has asked for the status.
BugManifestResetEarly ==
  /\ Polling /\ stage = "status" /\ complete
  /\ usbdfu_state \in {"dfuMANIFEST_SYNC", "dfuMANIFEST"}
  /\ power' = "reset"
  /\ Fresh(usbdfu_state', prog', complete', stage', reply', seen',
           locked', erased', at')
  /\ UNCHANGED flash

\* In dfuMANIFEST: clear_reboot_flags and _full_system_reset.
ManifestReset ==
  /\ Polling /\ stage = "status" /\ complete /\ usbdfu_state = "dfuMANIFEST"
  /\ power' = "reset"
  /\ Fresh(usbdfu_state', prog', complete', stage', reply', seen',
           locked', erased', at')
  /\ UNCHANGED flash

-----------------------------------------------------------------------------
(***************************************************************************)
(* The block, inside the callback.                                         *)
(***************************************************************************)
Running(where) == power = "on" /\ at = where

\* Mutant: the state is left as it was, and the block will be executed again.
BugBlockDoneStays == at' = "poll" /\ locked' = TRUE /\ UNCHANGED usbdfu_state

\* _flash_lock and the new state.
BlockDone == at' = "poll" /\ locked' = TRUE /\ usbdfu_state' = "dfuDNLOAD_IDLE"

Untouched == UNCHANGED <<complete, stage, reply, seen, power>>

Wipe ==
  /\ Running("wipe")
  /\ flash' = flash_erase_payload(flash)
  /\ erased' = TRUE
  /\ at' = "execute"
  /\ UNCHANGED <<usbdfu_state, prog, locked>> /\ Untouched

\* The page an erase command or a block of data wants erased, if any.
WantsErase == prog.blocknum # 0 \/ prog.buf.cmd = CMD_ERASE
Target     == IF prog.blocknum = 0 THEN prog.buf.arg
              ELSE BlockAddr(prog.blocknum)
Extent     == IF prog.blocknum = 0 THEN PageSize ELSE prog.len
Accepted   == WantsErase /\ InPayload(Target, Extent)

EnsureErased(a) ==
  IF flash_page_is_erased(flash, a) THEN flash ELSE flash_erase_page(flash, a)

SetAddr ==
  /\ Running("execute") /\ prog.blocknum = 0 /\ prog.buf.cmd = CMD_SETADDR
  /\ prog' = [prog EXCEPT !.addr = prog.buf.arg]
  /\ BlockDone
  /\ UNCHANGED <<flash, erased>> /\ Untouched

\* An unknown command, or a block outside the payload: nothing happens, and
\* the host is not told.
Ignore ==
  /\ Running("execute") /\ ~Accepted
  /\ prog.blocknum = 0 => prog.buf.cmd # CMD_SETADDR
  /\ BlockDone
  /\ UNCHANGED <<prog, flash, erased>> /\ Untouched

ErasePage ==
  /\ Running("execute") /\ prog.blocknum = 0
  /\ Accepted /\ ~PageScanFaults(flash, Target)
  /\ flash' = EnsureErased(Target)
  /\ BlockDone
  /\ UNCHANGED <<prog, erased>> /\ Untouched

StartWrite ==
  /\ Running("execute") /\ prog.blocknum # 0
  /\ Accepted /\ ~PageScanFaults(flash, Target)
  /\ flash' = EnsureErased(Target)
  /\ at' = "program"
  /\ UNCHANGED <<usbdfu_state, prog, locked, erased>> /\ Untouched

\* The bytes of prog.buf as they are programmed.
Data == [i \in 0 .. PageSize - 1 |-> <<prog.buf.id, i>>]

\* A half-word stored at an odd address is a bus fault.
StoreFaults == Target % 2 = 1 /\ prog.len >= 2

Program ==
  /\ Running("program") /\ ~StoreFaults
  /\ flash' = flash_program_buffer(flash, Target, Data, prog.len \div 2)
  /\ BlockDone
  /\ UNCHANGED <<prog, erased>> /\ Untouched

\* A bus fault inside the block: null_handler loops for good.
BlockFault ==
  /\ \/ Running("execute") /\ Accepted /\ PageScanFaults(flash, Target)
     \/ Running("program") /\ StoreFaults
  /\ power' = "hung"
  /\ UNCHANGED <<protocol, memory, at>>

-----------------------------------------------------------------------------
(***************************************************************************)
(* Power failure and the reset pin.  A page or a half-word that was being  *)
(* changed holds no one knows what.                                        *)
(***************************************************************************)
TornWipe ==
  { [c \in Cells |->
       IF c \in PayloadCells /\ c < p THEN Erased
       ELSE IF c \in PageOf(p) /\ ~flash_page_is_erased(flash, p) THEN Garbage
       ELSE flash[c]] : p \in PageStarts \cap PayloadCells }

TornErase ==
  { [c \in Cells |-> IF /\ Accepted /\ c \in PageOf(Target)
                        /\ ~flash_page_is_erased(flash, Target)
                     THEN Garbage ELSE flash[c]] }

TornProgram ==
  { LET done == flash_program_buffer(flash, Target, Data, k)
        next == HalfWord(Target, Target + 2 * k)
    IN  [c \in Cells |-> IF c \in next /\ done[c] = Erased THEN Garbage
                         ELSE done[c]] : k \in 0 .. (prog.len \div 2) - 1 }

Torn ==
  {flash}
    \cup (IF Running("wipe") THEN TornWipe ELSE {})
    \cup (IF Running("execute") THEN TornErase ELSE {})
    \cup (IF Running("program") /\ ~StoreFaults THEN TornProgram ELSE {})

Outage ==
  /\ power \in {"on", "hung"}
  /\ flash' \in Torn
  /\ power' = "down"
  /\ Fresh(usbdfu_state', prog', complete', stage', reply', seen',
           locked', erased', at')

\* The boot code of main.c has chosen the DFU mode (module Boot).
Restart ==
  /\ power \in {"reset", "down"}
  /\ power' = "on"
  /\ UNCHANGED <<protocol, memory, at>>

-----------------------------------------------------------------------------
Request ==
  \/ \E n \in Blocknums, len \in Lens, b \in Buffers : Dnload(n, len, b)
  \/ Detach
  \/ DnloadZero
  \/ ClrStatus
  \/ Abort
  \/ \E n \in Blocknums : Upload(n) \/ UploadFault(n)
  \/ GetStatus
  \/ GetState
  \/ OtherSetup

Transfer == DataStage \/ StatusStage \/ StartBlock \/ ManifestReset

Block == \/ Wipe
         \/ SetAddr
         \/ Ignore
         \/ ErasePage
         \/ StartWrite
         \/ Program
         \/ BlockFault

Next == Request \/ Transfer \/ Block \/ Outage \/ Restart

Spec == Init /\ [][Next]_vars

(***************************************************************************)
(* The processor runs its callback to the end.  The host asks for the      *)
(* status again and again and, although it may abandon any transfer, does  *)
(* not abandon every one: a data or status stage of a transfer that has    *)
(* the callback armed is completed if it is reached for ever.              *)
(***************************************************************************)
Fairness ==
  /\ WF_vars(Block)
  /\ SF_vars(GetStatus)
  /\ SF_vars(DataStage /\ complete)
  /\ SF_vars((StatusStage \/ StartBlock \/ ManifestReset) /\ complete)

FairSpec == Spec /\ Fairness

-----------------------------------------------------------------------------
(***************************************************************************)
(* Safety.                                                                 *)
(***************************************************************************)
\* The bootloader never overwrites itself: whatever addresses, block numbers
\* and lengths the host sends, and wherever power fails, the range checks of
\* usbdfu_getstatus_complete keep the bootloader's pages as they are.
BootloaderIntact == \A c \in BootCells : flash[c] = BootCode

\* A block that the driver takes for a page of the payload has had its effect:
\* the address pointer is set, the page is erased, or it holds the half-words
\* of the block, erased behind them.  Of a block off a page, of one that the
\* range check refuses, and of the last byte of an odd length it says nothing.
PageIsDone ==
  /\ prog.blocknum = 0 /\ prog.buf.cmd = CMD_SETADDR =>
       prog.addr = prog.buf.arg
  /\ Accepted /\ Target \in PageStarts =>
       \A c \in Target .. Target + PageSize - 1 :
          flash[c] = IF /\ prog.blocknum # 0
                        /\ c < Target + 2 * (prog.len \div 2)
                     THEN <<prog.buf.id, c - Target>> ELSE Erased

\* A host that reads dfuDNLOAD_IDLE after it sent a page of the payload may
\* rely on the page, whatever transfers it abandoned in between (the callback
\* of usbdfu_getstatus_complete is the only way into that state).
AckedPageIsDone == seen = "dfuDNLOAD_IDLE" => PageIsDone

\* Every byte of a block of data is in flash.
BlockIsInFlash ==
  prog.blocknum # 0 =>
    \A i \in 0 .. prog.len - 1 :
       /\ Target + i \in Cells
       /\ flash[Target + i] = <<prog.buf.id, i>>

\* "Write firmware data (progress shown)", "CRC checked after upload"
\* (README.md): a host that reads dfuDNLOAD_IDLE has its block of data in
\* flash, to the last byte.  usbdfu_getstatus_complete reaches that state past
\* its range check too, with nothing written, and _flash_program_buffer
\* programs half-words only.
AckedBlockIsInFlash == seen = "dfuDNLOAD_IDLE" => BlockIsInFlash

\* The bootloader only stops answering, until power is cycled, for a block or
\* an upload that does not start on a page of the flash.
HangsOnlyOffPage ==
  power = "hung" => \/ prog.addr \notin PageStarts
                    \/ prog.blocknum = 0 /\ prog.buf.arg \notin PageStarts

\* Flash is changed only after the host has read dfuDNBUSY for this very
\* block, and only while the controller is unlocked.
WritesAreAnnounced ==
  [][flash' # flash => seen = "dfuDNBUSY" /\ ~locked]_vars

\* The device resets itself only after the host has read the answer that says
\* so ("Device will reset when read is complete", usbdfu.c), in the same
\* conversation, and never with flash unlocked or a block under way.
ResetIsAnnounced ==
  [][power' = "reset" /\ power # "reset" =>
       seen = "dfuMANIFEST" /\ locked /\ at = "poll"]_vars

\* With ENABLE_SAFEWRITE, flash never holds bytes downloaded by the host and
\* bytes of the application found at start together, outages included:
\* "we make sure to wipe the entire flash on an ERASE/WRITE command" (flash.c).
NoMixedImages ==
  \/ \A c \in Cells : flash[c] # OldApp
  \/ \A c \in Cells : flash[c] \in {Erased, Garbage, BootCode, OldApp}

(***************************************************************************)
(* The driver implements PageStore.  The pending command is the block of   *)
(* prog from the request that brings it until it is executed or until a    *)
(* request that changes the state withdraws it.                            *)
(***************************************************************************)
Owed == /\ power \in {"on", "hung"}
        /\ usbdfu_state \in {"dfuDNLOAD_SYNC", "dfuDNBUSY"}

Written == IF Accepted /\ prog.blocknum # 0
           THEN Target .. Target + 2 * (prog.len \div 2) - 1 ELSE {}

\* The page is left alone if the bytes from the target on are erased already.
MustErase == Accepted /\ ~flash_page_is_erased(flash, Target)

PendingCommand ==
  IF Owed
  THEN [page |-> IF MustErase THEN PageOf(Target) ELSE {},
        put  |-> [c \in Written \cap Cells |-> <<prog.buf.id, c - Target>>]]
  ELSE [page |-> {}, put |-> [c \in {} |-> Erased]]

Pages == INSTANCE PageStore
           WITH Writable <- PayloadCells,
                store <- flash, pending <- PendingCommand,
                up <- power \in {"on", "hung"}

\* The bootloader keeps the promise of PageStore.  (Without ENABLE_SAFEWRITE:
\* check_do_erase also erases pages no command names.)
ImplementsPageStore == Pages!Spec

(***************************************************************************)
(* Liveness.                                                               *)
(***************************************************************************)
\* A downloaded block is executed or withdrawn, however often the host
\* abandons its GETSTATUS half way: the state stays dfuDNBUSY and the next
\* GETSTATUS arms the callback again.
BlockIsExecuted == Owed ~> ~Owed

\* "DFU tool sends detach command; bootloader clears DFU flag in RAM; system
\* resets and boots into new application" (README.md, Exiting DFU Mode).
\* Stated for a host that has nothing more to say after its DETACH.
DetachResets ==
  <>[][~Request]_vars =>
    ((power = "on" /\ usbdfu_state = "dfuMANIFEST_SYNC") ~> power # "on")

\* A host that completes every transfer it starts.
OrderlyNext ==
  (stage = "none" /\ Request) \/ Transfer \/ Block \/ Outage \/ Restart

OrderlySpec ==
  Init /\ [][OrderlyNext]_vars /\ WF_vars(Block) /\ WF_vars(Transfer)
=============================================================================
