-------------------------------- MODULE Boot --------------------------------
(***************************************************************************)
(* What runs from a reset on: main() of Core/Src/main.c up to the jump to  *)
(* the application or to the DFU loop, with checksum.c, reboot.h and       *)
(* spi_sram_image.c, and around it what changes what main() looks at: the  *)
(* application, a DFU host, the reset pin and the power supply.            *)
(*                                                                         *)
(* Memory is a function from an index to a 32-bit word, a word is the set  *)
(* of its bits that are one, and sizes are counted in words.  The payload  *)
(* is the flash behind the bootloader.  Its word 0 is the initial stack    *)
(* pointer of an application, SizeWord (0x20 / 4) is its size.             *)
(***************************************************************************)
EXTENDS Integers, FiniteSets

CONSTANTS
  ENABLE_SPI_SRAM_IMAGE, ENABLE_CHECKSUM,   \* build options
  Builds,             \* sets of the options that add a reason for DFU mode
  PageWords,          \* words in a page of flash
  PayloadPages,       \* pages behind the bootloader
  WordBits,           \* the bits of a word
  SizeWord,           \* index of the word that holds the size of the image
  CHECKSUM_XOR_START, \* a word: not 0
  StackMask, StackBase,   \* 0x2FFE0000 and 0x20000000, as words
  HeaderEnd,          \* words of the header at the start of the SPI SRAM
  AddrWords,          \* words that a 32-bit address tells apart
  Images,             \* the applications there are
  Deposits,           \* what an application may leave in the SPI SRAM
  Garbage,            \* a word nobody can tell: power failed while it changed
  SramFails,          \* may spi_sram_read and spi_sram_write of a board fail?
  Outages             \* may the device be reset, or lose power, at any time?

PayloadWords == PageWords * PayloadPages
Word         == SUBSET WordBits
Erased       == WordBits

\* An application: its words, from 0 on.
Length(img) == Cardinality(DOMAIN img)

Options == {"ENABLE_WATCHDOG", "ENABLE_PINRST_DFU_BOOT",
            "ENABLE_GPIO_DFU_BOOT"}

\* The flags of RCC_CSR: what has reset the device.
Causes == {"pin", "soft", "watchdog", "power"}

\* Addresses and sizes are 32 bits wide.
UInt32 == 0 .. AddrWords - 1
Header == [magic : BOOLEAN, offset : UInt32, size : UInt32]

ASSUME BootAssumption ==
  /\ PageWords \in Nat \ {0} /\ PayloadPages \in Nat \ {0}
  /\ WordBits \subseteq Nat /\ IsFiniteSet(WordBits)
  /\ SizeWord \in 1 .. PayloadWords - 1
  /\ CHECKSUM_XOR_START \in Word \ {{}}
  /\ StackMask \in Word /\ StackBase \in SUBSET StackMask
  /\ HeaderEnd \in Nat
  /\ AddrWords \in Nat /\ AddrWords > HeaderEnd + PayloadWords
  /\ \A img \in Images :
       \E n \in 1 .. PayloadWords : img \in [0 .. n - 1 -> Word]
  /\ \A d \in Deposits :
       /\ d.header \in Header
       /\ d.cells \in [UInt32 -> Word]
  /\ Garbage \notin Word
  /\ Builds \subseteq SUBSET Options
  /\ SramFails \in BOOLEAN /\ Outages \in BOOLEAN

VARIABLES
  pc,         \* "start", "found", "erase", "clear", "copy", "broken",
              \* "decide": in main(); "app", "dfu": where main() ends
  options,    \* the options of this build
  causes,     \* the flags of RCC_CSR
  imagesize,  \* the size word of the payload, as read at the start
  img_offset, img_size,   \* the header of the image in the SPI SRAM, as read
  index,      \* how far the loops over pages and chunks have come
  payload,    \* the words of the payload
  ram_flag,   \* the word of RAM at _stack that survives a reset
  header, cells,          \* the SPI SRAM: its header, and what it answers at
                          \* each address
  download,   \* in DFU mode: the image the host sends, and the next page
  asked,      \* history: the application asked for DFU mode, in vain so far
  installs,   \* history: how often main() marked what is deposited as
              \* consumed, and went on to program it
  last,       \* history: what caused the last reset
  hung        \* history: the application hung, and no DFU mode since

locals  == <<imagesize, img_offset, img_size, index>>
sram    == <<header, cells>>
history == <<asked, installs, last, hung>>
reset   == <<options, causes>>
vars    == <<pc, reset, locals, payload, ram_flag, sram, download, history>>

Nobody == [image |-> <<>>, page |-> 0, erased |-> FALSE]

TypeOK ==
  /\ pc \in {"start", "found", "erase", "clear", "copy", "broken", "decide",
            "app", "dfu"}
  /\ imagesize \in Word \cup {Garbage}
  /\ img_offset \in UInt32 /\ img_size \in 0 .. PayloadWords
  /\ index \in 0 .. PayloadWords
  /\ payload \in [0 .. PayloadWords - 1 -> Word \cup {Garbage}]
  /\ ram_flag \in {"clear", "dfu", "noise"}
  /\ header \in Header
  /\ cells \in [UInt32 -> Word]
  /\ download \in [image : Images \cup {<<>>}, page : 0 .. PayloadPages,
                   erased : BOOLEAN]
  /\ asked \in BOOLEAN
  /\ installs \in 0 .. 2
  /\ options \in Builds /\ causes \subseteq Causes
  /\ last \in Causes /\ hung \in BOOLEAN

-----------------------------------------------------------------------------
(***************************************************************************)
(* Words and checksums.                                                    *)
(***************************************************************************)
\* The number a word stands for is at most n.
AtMost(w, n) == \E v \in 0 .. n :
                  w = { b \in WordBits : (v \div 2^b) % 2 = 1 }

Value(w) == CHOOSE v \in 0 .. PayloadWords :
              w = { b \in WordBits : (v \div 2^b) % 2 = 1 }

\* The exclusive or of n words of f from index i on.
XorOf(f, i, n) ==
  { b \in WordBits :
      Cardinality({ k \in i .. i + n - 1 : b \in f[k] }) % 2 = 1 }

\* validate_checksum.  Words nobody can tell are taken to spoil it.
validate_checksum(f, i, n) ==
  /\ \A k \in i .. i + n - 1 : f[k] # Garbage
  /\ XorOf(f, i, n) = CHECKSUM_XOR_START

\* 32-bit sums, and what len words read from address a are.
Wrap(a) == a % AddrWords
spi_sram_read(c, a, len) == [k \in 0 .. len - 1 |-> c[Wrap(a + k)]]

\* An image with header h in an SPI SRAM that answers c.
ImageIsValid(h, c) ==
  /\ h.magic
  /\ h.size > 0
  /\ h.offset >= HeaderEnd
  /\ h.size <= PayloadWords
  /\ h.offset <= HeaderEnd + PayloadWords
  /\ h.offset <= AddrWords - 1 - h.size
  /\ Wrap(h.offset + h.size) <= HeaderEnd + PayloadWords
  /\ validate_checksum(spi_sram_read(c, h.offset, h.size), 0, h.size)

\* Mutants: the sanity checks without a limit to the size, and without the two
\* that keep the sum of offset and size from wrapping around.
BugValidImageNoLimit ==
  /\ header.magic
  /\ header.size > 0
  /\ header.offset >= HeaderEnd
  /\ validate_checksum(spi_sram_read(cells, header.offset, header.size),
                       0, header.size)

BugValidImageWraps ==
  /\ header.magic
  /\ header.size > 0
  /\ header.offset >= HeaderEnd
  /\ header.size <= PayloadWords
  /\ Wrap(header.offset + header.size) <= HeaderEnd + PayloadWords
  /\ validate_checksum(spi_sram_read(cells, header.offset, header.size),
                       0, header.size)

sram_has_valid_image == ImageIsValid(header, cells)

\* The payload starts with image img, and the rest of its last page is erased.
Holds(img) == \A i \in DOMAIN img : payload[i] = img[i]

Blank == [i \in 0 .. PayloadWords - 1 |-> Erased]
Flashed(img) ==
  [i \in 0 .. PayloadWords - 1 |-> IF i \in DOMAIN img THEN img[i] ELSE Erased]

Init ==
  /\ pc = "start"
  /\ imagesize = {} /\ img_offset = 0 /\ img_size = 0 /\ index = 0
  /\ payload \in {Blank} \cup { Flashed(img) : img \in Images }
  /\ ram_flag \in {"clear", "noise"}
  /\ header = [magic |-> FALSE, offset |-> 0, size |-> 0]
  /\ cells = [i \in UInt32 |-> {}]
  /\ download = Nobody
  /\ asked = FALSE /\ installs = 0 /\ hung = FALSE
  /\ options \in Builds /\ causes = {"pin", "power"} /\ last = "power"

-----------------------------------------------------------------------------
(***************************************************************************)
(* main().                                                                 *)
(***************************************************************************)
FreshLocals ==
  imagesize' = {} /\ img_offset' = 0 /\ img_size' = 0 /\ index' = 0

\* Everything but flash, the RAM word and the SPI SRAM starts afresh.
\* The pin is pulled low by every reset; a loss of power clears the flags.
ResetTo(flag, cause) ==
  /\ pc' = "start" /\ FreshLocals
  /\ last' = cause
  /\ causes' = {"pin", cause} \cup (IF cause = "power" THEN {} ELSE causes)
  /\ UNCHANGED options
  /\ ram_flag' = flag
  /\ download' = Nobody

\* The header and the image are read and checked.  When a read fails there is
\* no image.
Start ==
  /\ pc = "start"
  /\ imagesize' = IF ENABLE_CHECKSUM THEN payload[SizeWord] ELSE {}
  /\ index' = 0
  /\ \/ /\ ENABLE_SPI_SRAM_IMAGE /\ sram_has_valid_image
        /\ pc' = "found"
     \/ /\ SramFails \/ ~(ENABLE_SPI_SRAM_IMAGE /\ sram_has_valid_image)
        /\ pc' = "decide"
  /\ UNCHANGED <<reset, img_offset, img_size, payload, ram_flag, sram,
                 download, history>>

\* The header is read again, into the locals of main() and with no check.
\* When this read fails main() goes on without the image.
ReadHeader ==
  /\ pc = "found"
  /\ \/ /\ pc' = "erase"
        /\ img_offset' = header.offset /\ img_size' = header.size
     \/ /\ SramFails
        /\ pc' = "decide" /\ UNCHANGED <<img_offset, img_size>>
  /\ UNCHANGED <<reset, imagesize, index, payload, ram_flag, sram, download,
                 history>>

PageOf(i) ==
  { k \in 0 .. PayloadWords - 1 : k \div PageWords = i \div PageWords }

ErasedAt(cs) == [i \in 0 .. PayloadWords - 1 |-> IF i \in cs THEN Erased
                                                 ELSE payload[i]]

\* Mutant: one page too few.
BugErasePage ==
  /\ pc = "erase"
  /\ payload' = ErasedAt(PageOf(index))
  /\ IF index + 2 * PageWords < img_size
     THEN index' = index + PageWords /\ UNCHANGED pc
     ELSE index' = 0 /\ pc' = "clear"
  /\ UNCHANGED <<reset, imagesize, img_offset, img_size, ram_flag, sram,
                 download, history>>

\* Mutant: a page that is erased is tried again instead of the next one.
BugErasePageStays ==
  /\ pc = "erase"
  /\ payload' = ErasedAt(PageOf(index))
  /\ IF index + PageWords < img_size
     THEN /\ index' = IF payload' = payload THEN index ELSE index + PageWords
          /\ UNCHANGED pc
     ELSE index' = 0 /\ pc' = "clear"
  /\ UNCHANGED <<reset, imagesize, img_offset, img_size, ram_flag, sram,
                 download, history>>

\* The loop over the pages of the image; a page that is erased is left so.
ErasePage ==
  /\ pc = "erase"
  /\ payload' = ErasedAt(PageOf(index))
  /\ IF index + PageWords < img_size
     THEN index' = index + PageWords /\ UNCHANGED pc
     ELSE index' = 0 /\ pc' = "clear"
  /\ UNCHANGED <<reset, imagesize, img_offset, img_size, ram_flag, sram,
                 download, history>>

Marked == installs' = IF installs < 2 THEN installs + 1 ELSE installs

\* Mutant: the image is not marked.
BugClearHeaderNot ==
  /\ pc = "clear"
  /\ pc' = "copy"
  /\ Marked
  /\ UNCHANGED <<reset, locals, payload, ram_flag, sram, download, asked,
                 last, hung>>

\* The image is marked as consumed; nobody looks at the result of the write.
ClearHeader ==
  /\ pc = "clear"
  /\ pc' = "copy"
  /\ \/ header' = [magic |-> FALSE, offset |-> 0, size |-> 0] /\ Marked
     \/ SramFails /\ UNCHANGED <<header, installs>>
  /\ UNCHANGED <<reset, locals, payload, ram_flag, cells, download, asked,
                 last, hung>>

\* A chunk is a word here.  Programming puts it where flash is erased.
CopyChunk ==
  /\ pc = "copy" /\ index < img_size
  /\ payload' = [payload EXCEPT ![index] =
                   IF @ = Erased THEN cells[Wrap(img_offset + index)] ELSE @]
  /\ index' = index + 1
  /\ UNCHANGED <<pc, reset, imagesize, img_offset, img_size, ram_flag, sram,
                 download, history>>

\* A read that fails ends the loop ("break").
CopyBreaks ==
  /\ pc = "copy" /\ index < img_size /\ SramFails
  /\ pc' = "broken"
  /\ UNCHANGED <<reset, locals, payload, ram_flag, sram, download, history>>

\* However the loop ended, the flag is cleared and the device reset.
Copied == pc = "broken" \/ (pc = "copy" /\ index = img_size)

CopyDone ==
  /\ Copied
  /\ ResetTo("clear", "soft")
  /\ UNCHANGED <<payload, sram, asked, installs, hung>>

\* The first word may be a stack pointer.
StackFits(w) == w # Garbage /\ w \cap StackMask = StackBase

\* imagesize > FLASH_BOOTLDR_PAYLOAD_SIZE_KB * 1024 / 4.
TooLong == imagesize = Garbage \/ ~AtMost(imagesize, PayloadWords)

\* Mutants: every reset looks like one by the pin; a reset after that of the
\* watchdog hides it.
Bug_reset_due_to_pin      == "pin" \in causes
Bug_reset_due_to_watchdog == causes = {"pin", "watchdog"}

reset_due_to_pin      == causes = {"pin"}
reset_due_to_watchdog == "watchdog" \in causes

\* The button of force_dfu_gpio may be pressed or not.
Buttons == IF "ENABLE_GPIO_DFU_BOOT" \in options THEN BOOLEAN ELSE {FALSE}

go_dfu(pressed) ==
  \/ ram_flag = "dfu"
  \/ "ENABLE_PINRST_DFU_BOOT" \in options /\ reset_due_to_pin
  \/ "ENABLE_WATCHDOG" \in options /\ reset_due_to_watchdog
  \/ TooLong
  \/ pressed

\* Mutants: the application is not checksummed; the flag is not looked at.
BugBootsNoChecksum(pressed) == ~go_dfu(pressed) /\ StackFits(payload[0])
BugBootsIgnoresFlag(pressed) ==
  /\ ~TooLong /\ ~pressed /\ StackFits(payload[0])
  /\ ENABLE_CHECKSUM => validate_checksum(payload, 0, Value(imagesize))
Boots(pressed) ==
  /\ ~go_dfu(pressed) /\ StackFits(payload[0])
  /\ ENABLE_CHECKSUM => validate_checksum(payload, 0, Value(imagesize))

\* Either way RCC_CSR_RMVF clears the reset causes, which the path that
\* installs an image does not.
BootApplication ==
  /\ pc = "decide" /\ \E pressed \in Buttons : Boots(pressed)
  /\ pc' = "app" /\ FreshLocals
  /\ ram_flag' = "clear" /\ causes' = {}
  /\ UNCHANGED <<options, payload, sram, download, history>>

EnterDfu ==
  /\ pc = "decide" /\ \E pressed \in Buttons : ~Boots(pressed)
  /\ pc' = "dfu" /\ FreshLocals
  /\ asked' = FALSE /\ hung' = FALSE /\ causes' = {}
  /\ UNCHANGED <<options, payload, ram_flag, sram, download, installs, last>>

-----------------------------------------------------------------------------
(***************************************************************************)
(* The application.  It asks for DFU mode with reboot_into_bootloader, and *)
(* leaves a new image in the SPI SRAM.                                     *)
(***************************************************************************)
AppAsksForDfu ==
  /\ pc = "app"
  /\ ResetTo("dfu", "soft")
  /\ asked' = TRUE
  /\ UNCHANGED <<payload, sram, installs, hung>>

AppDeposits(d) ==
  /\ pc = "app"
  /\ header' = d.header /\ cells' = d.cells
  /\ installs' = 0
  /\ UNCHANGED <<pc, reset, locals, payload, ram_flag, download, asked, last,
                 hung>>

AppResets ==
  /\ pc = "app"
  /\ ResetTo(ram_flag, "soft")
  /\ UNCHANGED <<payload, sram, asked, installs, hung>>

\* The watchdog that main() started is not refreshed any more.
AppHangs ==
  /\ pc = "app" /\ "ENABLE_WATCHDOG" \in options
  /\ ResetTo(ram_flag, "watchdog")
  /\ hung' = TRUE
  /\ UNCHANGED <<payload, sram, asked, installs>>

(***************************************************************************)
(* A DFU host downloads an image page after page (module Dfu), and has the *)
(* device reset itself whenever it likes.                                  *)
(***************************************************************************)
HostStarts(img) ==
  /\ pc = "dfu" /\ download.image = <<>>
  /\ download' = [Nobody EXCEPT !.image = img]
  /\ UNCHANGED <<pc, reset, locals, payload, ram_flag, sram, history>>

Sending == pc = "dfu" /\ download.image # <<>> /\ download.page < PayloadPages
Page    == PageOf(download.page * PageWords)

HostErases ==
  /\ Sending /\ ~download.erased
  /\ payload' = ErasedAt(Page)
  /\ download' = [download EXCEPT !.erased = TRUE]
  /\ UNCHANGED <<pc, reset, locals, ram_flag, sram, history>>

HostWrites ==
  /\ Sending /\ download.erased
  /\ payload' = [i \in 0 .. PayloadWords - 1 |->
                   IF i \in Page THEN Flashed(download.image)[i]
                   ELSE payload[i]]
  /\ download' = [download EXCEPT !.page = @ + 1, !.erased = FALSE]
  /\ UNCHANGED <<pc, reset, locals, ram_flag, sram, history>>

HostLeaves ==
  /\ pc = "dfu"
  /\ ResetTo("clear", "soft")
  /\ UNCHANGED <<payload, sram, asked, installs, hung>>

-----------------------------------------------------------------------------
(***************************************************************************)
(* Outages.  What was being changed is left unchanged, changed in part, or *)
(* in a state nobody can tell.                                             *)
(***************************************************************************)
Smudged(cs) == { [i \in 0 .. PayloadWords - 1 |->
                    IF i \in cs THEN Garbage ELSE payload[i]] }

\* The words of a page are programmed in order.
HalfWritten ==
  { [i \in 0 .. PayloadWords - 1 |->
       IF i \notin Page \/ i > k THEN payload[i]
       ELSE IF i = k THEN Garbage ELSE Flashed(download.image)[i]] :
    k \in Page }

Torn ==
  {payload}
   \cup (IF pc = "erase" /\ \E i \in PageOf(index) : payload[i] # Erased
         THEN Smudged(PageOf(index)) ELSE {})
   \cup (IF pc = "copy" /\ index < img_size THEN Smudged({index}) ELSE {})
   \cup (IF Sending /\ ~download.erased /\ \E i \in Page : payload[i] # Erased
         THEN Smudged(Page) ELSE {})
   \cup (IF Sending /\ download.erased THEN HalfWritten ELSE {})

\* The bytes of the header are cleared in order, the magic first.
TornHeader ==
  {header} \cup
  (IF pc = "clear" THEN { [header EXCEPT !.magic = FALSE] } ELSE {})

PinReset ==
  /\ Outages
  /\ payload' \in Torn /\ header' \in TornHeader
  /\ ResetTo(ram_flag, "pin")
  /\ UNCHANGED <<cells, asked, installs, hung>>

\* The SPI SRAM may have a battery of its own.
PowerLoss ==
  /\ Outages
  /\ payload' \in Torn
  /\ header' \in TornHeader \cup {[magic |-> FALSE, offset |-> 0, size |-> 0]}
  /\ ResetTo("noise", "power")
  /\ asked' = FALSE /\ hung' = FALSE
  /\ UNCHANGED <<cells, installs>>

-----------------------------------------------------------------------------
Main ==
  \/ Start
  \/ ReadHeader
  \/ ErasePage
  \/ ClearHeader
  \/ CopyChunk
  \/ CopyBreaks
  \/ CopyDone
  \/ BootApplication
  \/ EnterDfu

Application == AppAsksForDfu \/ AppResets \/ AppHangs \/ \E d \in Deposits : AppDeposits(d)

DfuHost == \/ \E img \in Images : HostStarts(img)
           \/ HostErases
           \/ HostWrites
           \/ HostLeaves

Outage == PinReset \/ PowerLoss

Next == Main \/ Application \/ DfuHost \/ Outage

Spec     == Init /\ [][Next]_vars
FairSpec == Spec /\ WF_vars(Main)

-----------------------------------------------------------------------------
(***************************************************************************)
(* Properties.                                                             *)
(***************************************************************************)
\* What the payload is made of: erased flash, the images a DFU host sends, and
\* the deposits main() accepts.
Taken(d) == [i \in 0 .. PayloadWords - 1 |->
               IF i < d.header.size
               THEN spi_sram_read(d.cells, d.header.offset, d.header.size)[i]
               ELSE Erased]

Sources == {Blank} \cup { Flashed(img) : img \in Images }
             \cup { Taken(d) : d \in { e \in Deposits : ImageIsValid(e.header, e.cells) } }

\* The beginning of one of them, up to a word that may be torn, and erased
\* words behind it; or a page whose erase was interrupted.
Piece(p, cs) ==
  \/ \A i \in cs : p[i] = Garbage
  \/ \E s \in Sources, n \in 0 .. PayloadWords, torn \in BOOLEAN :
       \A i \in cs : p[i] = IF i < n THEN s[i]
                           ELSE IF i = n /\ torn THEN Garbage ELSE Erased

Patchwork(p) == \A k \in 0 .. PayloadWords - 1 : Piece(p, PageOf(k))

\* What main() starts without being told otherwise.
Passes(p) ==
  /\ StackFits(p[0])
  /\ ENABLE_CHECKSUM =>
       /\ p[SizeWord] # Garbage /\ AtMost(p[SizeWord], PayloadWords)
       /\ validate_checksum(p, 0, Value(p[SizeWord]))

\* Whatever is interrupted, what is started has passed the checksum as it
\* stands in flash, and every page of it is the beginning of one image or
\* validated deposit, with erased words behind it.
OnlyPatchworksStart == pc = "app" => Patchwork(payload) /\ Passes(payload)

\* Whatever is interrupted, and however a download and an image from the SPI
\* SRAM follow each other, an application that is started is one of the
\* images, whole: "If application flash appears corrupted or empty" the
\* bootloader enters DFU mode (README.md).
StartedImageIsWhole == pc = "app" => \E img \in Images : Holds(img)

\* "If DFU flag is set -> Enter DFU mode and wait for firmware upload"
\* (README.md, Boot Sequence): no application runs before DFU mode was entered
\* at the request of the last one, unless power was lost.
DfuRequestIsHonoured == pc = "app" => ~asked

\* The flag in RAM that asks for DFU mode outlives every reset: a request of
\* the application is dropped only when main() installs an image (CopyDone) or
\* enters DFU mode, and by a loss of power, never by starting the application.
RequestIsHeld ==
  [][asked /\ asked' /\ ram_flag = "dfu" /\ ram_flag' # "dfu"
       => Copied]_vars

\* Once its header is cleared an image in the SPI SRAM is programmed once,
\* however often the device is reset on the way.
InstalledOnce == installs <= 1

\* When the copy loop of main() has gone through, the payload holds, word for
\* word, an image that lies behind the header of the SPI SRAM and ends in the
\* region for it, the rest of its last page is erased, and what is in flash
\* has the checksum that was validated in the SPI SRAM.  The checks, the second
\* read of the header, the erase, the clearing of the header and the copies are
\* steps of their own, from whatever an outage left (main.c:301-342).
CopyIsExact ==
  pc = "copy" /\ index = img_size =>
    /\ img_size > 0 /\ HeaderEnd <= img_offset
    /\ img_offset + img_size <= HeaderEnd + PayloadWords
    /\ \A i \in 0 .. PayloadWords - 1 :
         i \div PageWords <= (img_size - 1) \div PageWords =>
           payload[i] = IF i < img_size THEN cells[img_offset + i] ELSE Erased
    /\ validate_checksum(payload, 0, img_size)

\* A write to the SPI SRAM that leaves the header as it is.
HeaderStays == pc = "clear" /\ pc' = "copy" /\ UNCHANGED header

\* Once outages and failing writes are over, main() ends, in the application
\* or in DFU mode: it does not flash the same image and reset again and again.
BootEnds ==
  <>[][~Outage /\ ~HeaderStays]_vars =>
    (pc \notin {"app", "dfu"} ~> pc \in {"app", "dfu"})

\* An image found in the SPI SRAM that is an application is the application
\* that is started next, unless an outage comes in between, the header is not
\* cleared, a read fails, or the application hung after it left the image:
\* main() resets itself after the installation with the reset causes still
\* flagged, so the watchdog reset before it leads to DFU mode (main.c:361).
Deposited(img) ==
  /\ img_size = Length(img)
  /\ \A i \in DOMAIN img : cells[img_offset + i] = img[i]

Interrupted == last \in {"pin", "power"}

UpdateTakesEffect ==
  \A img \in Images :
    (/\ pc = "erase" /\ Deposited(img)
     /\ ~Interrupted /\ ~hung /\ "ENABLE_GPIO_DFU_BOOT" \notin options) ~>
      \/ pc = "app" /\ Holds(img)
      \/ Interrupted
      \/ pc = "copy" /\ header.magic
      \/ pc = "broken"

\* An application that hung until the watchdog bit is not started again, nor
\* another in its place, before DFU mode was entered, whatever resets and
\* installations follow: main() clears the flag of the watchdog (RCC_CSR_RMVF)
\* only where it looks at it.
HungAppIsHeld == pc = "app" => ~hung

\* A device with an application that is fit to start enters DFU mode only at
\* the request of the application, for the button, after a reset by the pin
\* with no other reset since, or after the watchdog bit.
Fit == /\ ~TooLong /\ StackFits(payload[0])
       /\ ENABLE_CHECKSUM => validate_checksum(payload, 0, Value(imagesize))

DfuIsDue ==
  [][EnterDfu /\ Fit =>
       \/ ram_flag = "dfu"
       \/ "ENABLE_GPIO_DFU_BOOT" \in options
       \/ "ENABLE_PINRST_DFU_BOOT" \in options /\ last = "pin"
       \/ "ENABLE_WATCHDOG" \in options /\ hung]_vars
=============================================================================
