-------------------------------- MODULE Flash --------------------------------
(***************************************************************************)
(* The on-chip flash and the routines of Core/Src/flash.c, as operators on *)
(* a function from flash addresses to the byte stored there.               *)
(*                                                                         *)
(* An address is a number below AddrSpace (2^32 on the part, a small power *)
(* of two in the models).  A page is erased as a whole; memory is          *)
(* programmed one half-word at a time, and a half-word that is not erased  *)
(* refuses to be programmed: the controller raises PGERR, which no         *)
(* routine of flash.c looks at.                                            *)
(***************************************************************************)
EXTENDS Integers

CONSTANTS
  FLASH_BASE_ADDR,    \* first byte of flash, where the bootloader lives
  PageSize,           \* bytes in a page, and DFU_TRANSFER_SIZE
  BootPages,          \* pages of the bootloader (FLASH_BOOTLDR_SIZE_KB)
  FlashPages,         \* pages of the whole flash (FLASH_SIZE_KB)
  AddrSpace,          \* 2^32: 32-bit address arithmetic is modulo this
  Erased,             \* the byte 0xFF of an erased cell
  Garbage             \* a byte nobody can tell: power failed while it changed

ASSUME FlashAssumption ==
  /\ FLASH_BASE_ADDR \in Nat
  /\ PageSize \in Nat /\ PageSize >= 8 /\ PageSize % 4 = 0
  /\ BootPages \in Nat /\ BootPages > 0
  /\ FlashPages \in Nat /\ FlashPages > BootPages
  /\ AddrSpace \in Nat
  /\ FLASH_BASE_ADDR + (FlashPages + 1) * PageSize <= AddrSpace

start_addr == FLASH_BASE_ADDR + BootPages * PageSize
end_addr   == FLASH_BASE_ADDR + FlashPages * PageSize

Address      == 0 .. AddrSpace - 1
Cells        == FLASH_BASE_ADDR .. end_addr - 1
BootCells    == FLASH_BASE_ADDR .. start_addr - 1
PayloadCells == start_addr .. end_addr - 1
PageStarts   == { FLASH_BASE_ADDR + k * PageSize : k \in 0 .. FlashPages - 1 }

\* 32-bit addition, and blocknum - 2 which may be negative.
Wrap(a) == a % AddrSpace

\* The cells the controller erases when FLASH_AR holds address a.
PageOf(a) ==
  UNION { s .. s + PageSize - 1 :
            s \in { t \in PageStarts : a \in t .. t + PageSize - 1 } }

(***************************************************************************)
(* _flash_page_is_erased reads the PageSize bytes from the address it is   *)
(* given, one word after the other, whatever the alignment of the address, *)
(* and stops at the first word that is not erased.  A word outside flash   *)
(* is a bus fault: init.c parks the processor in null_handler for good.    *)
(***************************************************************************)
PageWords(a)      == { a + 4 * i : i \in 0 .. (PageSize \div 4) - 1 }
Mapped(w)         == w .. w + 3 \subseteq Cells
WordErased(f, w)  == Mapped(w) /\ \A c \in w .. w + 3 : f[c] = Erased

flash_page_is_erased(f, a) == \A w \in PageWords(a) : WordErased(f, w)

PageScanFaults(f, a) ==
  \E w \in PageWords(a) :
    /\ ~Mapped(w)
    /\ \A v \in PageWords(a) : v < w => WordErased(f, v)

flash_erase_page(f, a) ==
  [c \in Cells |-> IF c \in PageOf(a) THEN Erased ELSE f[c]]

\* check_do_erase: every page behind the bootloader that is not erased yet.
flash_erase_payload(f) ==
  [c \in Cells |-> IF c \in PayloadCells THEN Erased ELSE f[c]]

(***************************************************************************)
(* _flash_program_buffer writes len \div 2 half-words from the buffer: the *)
(* last byte of an odd length is dropped.  data[i] is the i-th byte.  A    *)
(* half-word of the buffer is taken not to be 0x0000, the one value the    *)
(* controller writes over a half-word that is not erased.                  *)
(***************************************************************************)
HalfWord(a, c) == LET h == a + 2 * ((c - a) \div 2) IN {h, h + 1}

flash_program_buffer(f, a, data, halfwords) ==
  [c \in Cells |->
     IF /\ a <= c /\ c < a + 2 * halfwords
        /\ \A h \in HalfWord(a, c) : f[h] = Erased
     THEN data[c - a]
     ELSE f[c]]

=============================================================================
