----------------------------- MODULE BootProofs -----------------------------
(***************************************************************************)
(* What main() keeps of a reset, for every layout, image, deposit and      *)
(* build.  The reset causes in RCC_CSR are what carries the proof: between *)
(* a reset and the end of main() they hold the last cause, and that of the *)
(* watchdog exactly as long as an application that hung is held back.      *)
(* Then what the payload is made of, and what main() starts therefore.     *)
(***************************************************************************)
EXTENDS Boot, TLAPS

PayloadType == [0 .. PayloadWords - 1 -> Word \cup {Garbage}]

\* An image that was found is a valid one until it is consumed, and what main()
\* read of its header keeps within what it validated.
Validated ==
  /\ pc = "found" => sram_has_valid_image
  /\ pc \in {"erase", "clear", "copy"} =>
       /\ img_size > 0
       /\ img_offset >= HeaderEnd
       /\ img_offset + img_size <= HeaderEnd + PayloadWords

\* What is deposited is consumed at most once, and not while it is in use.
Consumed ==
  /\ installs <= 1
  /\ installs = 1 => ~header.magic
  /\ pc \in {"found", "erase", "clear"} => header.magic

InLoop == pc \in {"clear", "copy"} => index <= img_size

Heard == pc = "dfu" => ~asked

Flagged ==
  /\ "watchdog" \in causes => hung
  /\ hung => /\ "watchdog" \in causes /\ "ENABLE_WATCHDOG" \in options
             /\ pc \notin {"app", "dfu"}
  /\ pc \notin {"app", "dfu"} => last \in causes

IInv ==
  /\ TypeOK /\ Validated
  /\ Consumed /\ InLoop /\ Heard /\ Flagged

-----------------------------------------------------------------------------
LEMMA PayloadNat == PayloadWords \in Nat
<1>1. PageWords \in Nat /\ PayloadPages \in Nat
  BY BootAssumption
<1> QED BY <1>1 DEF PayloadWords

LEMMA Addresses ==
  /\ HeaderEnd \in Nat /\ AddrWords \in Nat /\ 0 \in UInt32
  /\ HeaderEnd + PayloadWords < AddrWords
<1>1. HeaderEnd \in Nat /\ AddrWords \in Nat
      /\ AddrWords > HeaderEnd + PayloadWords
  BY BootAssumption
<1> QED BY <1>1, PayloadNat DEF UInt32

LEMMA WrapIs ==
  ASSUME NEW a \in UInt32
  PROVE  Wrap(a) = a
<1>1. AddrWords \in Nat \ {0} /\ a \in 0 .. AddrWords - 1
  BY Addresses, PayloadNat DEF UInt32
<1> QED BY <1>1 DEF Wrap

\* The guards of sram_has_valid_image: no sum wraps around, and what is read
\* is what lies in the region for an image.
LEMMA ValidFits ==
  ASSUME NEW h \in Header, NEW c, ImageIsValid(h, c)
  PROVE  /\ h.offset \in UInt32 /\ h.size \in 0 .. PayloadWords
         /\ h.size > 0 /\ h.offset >= HeaderEnd
         /\ h.offset + h.size <= HeaderEnd + PayloadWords
         /\ \A i \in 0 .. h.size - 1 :
              spi_sram_read(c, h.offset, h.size)[i] = c[h.offset + i]
<1>1. /\ h.offset \in 0 .. AddrWords - 1 /\ h.size \in 0 .. AddrWords - 1
      /\ h.size > 0 /\ h.offset >= HeaderEnd /\ h.size <= PayloadWords
      /\ h.offset <= AddrWords - 1 - h.size
      /\ Wrap(h.offset + h.size) <= HeaderEnd + PayloadWords
  BY DEF ImageIsValid, Header, UInt32
<1>2. h.offset + h.size \in UInt32
  BY <1>1, Addresses DEF UInt32
<1>3. h.offset + h.size <= HeaderEnd + PayloadWords
  BY <1>1, <1>2, WrapIs
<1>4. ASSUME NEW i \in 0 .. h.size - 1
      PROVE  spi_sram_read(c, h.offset, h.size)[i] = c[h.offset + i]
  <2>1. h.offset + i \in UInt32
    BY <1>1, <1>3, Addresses, PayloadNat DEF UInt32
  <2> QED BY <2>1, WrapIs DEF spi_sram_read
<1> QED BY <1>1, <1>3, <1>4, Addresses, PayloadNat DEF UInt32

LEMMA ChunkAddr ==
  ASSUME TypeOK, Validated, pc = "copy", index < img_size
  PROVE  /\ img_offset + index \in UInt32
         /\ Wrap(img_offset + index) = img_offset + index
<1>1. img_offset \in 0 .. AddrWords - 1 /\ img_size \in 0 .. PayloadWords
      /\ index \in 0 .. PayloadWords
  BY DEF TypeOK, UInt32
<1>2. img_offset + index \in UInt32
  BY <1>1, Addresses, PayloadNat DEF Validated, UInt32
<1> QED BY <1>2, WrapIs

LEMMA ErasedIsWord == Erased \in Word
  BY DEF Erased, Word

\* Erasing words, and an image in erased flash, leave words.
LEMMA ErasedAtType ==
  ASSUME payload \in PayloadType, NEW cs
  PROVE  ErasedAt(cs) \in PayloadType
  BY ErasedIsWord DEF ErasedAt, PayloadType

LEMMA FlashedType ==
  ASSUME NEW img \in Images \cup {<<>>}, img # <<>>
  PROVE  Flashed(img) \in [0 .. PayloadWords - 1 -> Word]
<1>1. PICK n \in 1 .. PayloadWords : img \in [0 .. n - 1 -> Word]
  BY BootAssumption
<1>2. \A i \in DOMAIN img : img[i] \in Word
  BY <1>1
<1> QED BY <1>2, ErasedIsWord DEF Flashed

LEMMA BlankType == Blank \in PayloadType
  BY ErasedIsWord DEF Blank, PayloadType

\* An outage leaves words, some of which nobody can tell.
LEMMA SmudgedType ==
  ASSUME payload \in PayloadType, NEW cs
  PROVE  Smudged(cs) \subseteq PayloadType
  BY DEF Smudged, PayloadType

LEMMA HalfWrittenType ==
  ASSUME TypeOK, Sending
  PROVE  HalfWritten \subseteq PayloadType
<1>1. download.image \in Images \cup {<<>>} /\ download.image # <<>>
  BY DEF TypeOK, Sending
<1>2. Flashed(download.image) \in [0 .. PayloadWords - 1 -> Word]
  BY <1>1, FlashedType
<1>3. SUFFICES ASSUME NEW k \in Page
               PROVE  [i \in 0 .. PayloadWords - 1 |->
                         IF i \notin Page \/ i > k THEN payload[i]
                         ELSE IF i = k THEN Garbage
                         ELSE Flashed(download.image)[i]] \in PayloadType
  BY DEF HalfWritten
<1>4. \A i \in 0 .. PayloadWords - 1 :
        (IF i \notin Page \/ i > k THEN payload[i]
         ELSE IF i = k THEN Garbage
         ELSE Flashed(download.image)[i]) \in Word \cup {Garbage}
  BY <1>2 DEF TypeOK
<1> QED BY <1>4, Zenon DEF PayloadType

LEMMA TornType ==
  ASSUME TypeOK, NEW p \in Torn
  PROVE  p \in PayloadType
<1>1. payload \in PayloadType
  BY DEF TypeOK, PayloadType
<1> QED BY <1>1, SmudgedType, HalfWrittenType DEF Torn

LEMMA TornHeaderType ==
  ASSUME header \in Header, NEW h \in TornHeader
  PROVE  h \in Header /\ (h.magic => header.magic)
  BY DEF TornHeader, Header

-----------------------------------------------------------------------------
(***************************************************************************)
(* The steps that reset the device have most of their effect in common.    *)
(***************************************************************************)
Reset == CopyDone \/ AppAsksForDfu \/ AppResets \/ AppHangs \/ HostLeaves
           \/ Outage

LEMMA Resets ==
  ASSUME TypeOK, Reset
  PROVE  /\ pc' = "start" /\ FreshLocals
         /\ ram_flag' \in {"clear", "dfu", "noise"} /\ download' = Nobody
         /\ UNCHANGED <<options, cells, installs>>
         /\ payload' \in PayloadType
         /\ header' \in Header /\ (header'.magic => header.magic)
         /\ causes' \subseteq Causes /\ last' \in causes'
<1>1. payload \in PayloadType /\ header \in Header /\ causes \subseteq Causes
      /\ ram_flag \in {"clear", "dfu", "noise"}
  BY DEF TypeOK, PayloadType
<1>2. CASE CopyDone \/ AppAsksForDfu \/ AppResets \/ AppHangs \/ HostLeaves
  BY <1>1, <1>2, Zenon DEF CopyDone, AppAsksForDfu, AppResets, AppHangs,
     HostLeaves, ResetTo, Causes, sram
<1>3. CASE PinReset
  <2>1. payload' \in PayloadType
    BY <1>3, TornType DEF PinReset
  <2>2. header' \in Header /\ (header'.magic => header.magic)
    BY <1>1, <1>3, TornHeaderType DEF PinReset
  <2> QED BY <1>1, <1>3, <2>1, <2>2 DEF PinReset, ResetTo, Causes
<1>4. CASE PowerLoss
  <2>1. payload' \in PayloadType
    BY <1>4, TornType DEF PowerLoss
  <2>2. header' \in Header /\ (header'.magic => header.magic)
    <3>1. CASE header' \in TornHeader
      BY <1>1, <3>1, TornHeaderType
    <3>2. CASE header' = [magic |-> FALSE, offset |-> 0, size |-> 0]
      BY <3>2, Addresses DEF Header
    <3> QED BY <1>4, <3>1, <3>2 DEF PowerLoss
  <2> QED BY <1>1, <1>4, <2>1, <2>2 DEF PowerLoss, ResetTo, Causes
<1> QED BY <1>2, <1>3, <1>4 DEF Reset, Outage

\* The steps there are.
Moves == Start \/ ReadHeader \/ ErasePage \/ ClearHeader \/ CopyChunk \/ CopyBreaks
           \/ BootApplication \/ EnterDfu \/ (\E d \in Deposits : AppDeposits(d))
           \/ (\E img \in Images : HostStarts(img)) \/ HostErases
           \/ HostWrites

LEMMA Steps == [Next]_vars => Reset \/ Moves \/ UNCHANGED vars
  BY Zenon DEF Next, Main, Application, DfuHost, Outage, Reset, Moves

-----------------------------------------------------------------------------
(***************************************************************************)
(* Types.                                                                  *)
(***************************************************************************)
LEMMA InitType == Init => TypeOK
<1> SUFFICES ASSUME Init PROVE TypeOK
  OBVIOUS
<1>1. payload \in PayloadType
  <2>1. CASE payload = Blank
    BY <2>1, BlankType
  <2>2. CASE \E img \in Images : payload = Flashed(img)
    <3>1. PICK img \in Images : payload = Flashed(img)
      BY <2>2
    <3>2. img # <<>>
      <4>1. PICK n \in 1 .. PayloadWords : img \in [0 .. n - 1 -> Word]
        BY BootAssumption
      <4>2. 0 \in DOMAIN img
        BY <4>1, PayloadNat
      <4> QED BY <4>2
    <3> QED BY <3>1, <3>2, FlashedType DEF PayloadType
  <2> QED BY <2>1, <2>2 DEF Init
<1>2. cells \in [UInt32 -> Word] /\ header \in Header
  BY Addresses DEF Init, Word, Header
<1>3. download \in [image : Images \cup {<<>>}, page : 0 .. PayloadPages,
                    erased : BOOLEAN]
  BY BootAssumption DEF Init, Nobody
<1>4. imagesize \in Word
  BY DEF Init, Word
<1>5. img_offset \in UInt32 /\ img_size \in 0 .. PayloadWords
      /\ index \in 0 .. PayloadWords /\ installs \in 0 .. 2
  BY PayloadNat, Addresses DEF Init
<1>6. options \in Builds /\ causes \subseteq Causes /\ last \in Causes
  BY DEF Init, Causes
<1>7. pc = "start" /\ ram_flag \in {"clear", "dfu", "noise"}
      /\ asked \in BOOLEAN /\ hung \in BOOLEAN
  BY DEF Init
<1> QED BY <1>1, <1>2, <1>3, <1>4, <1>5, <1>6, <1>7, Zenon
        DEF TypeOK, PayloadType

LEMMA StepType ==
  ASSUME TypeOK, Validated, InLoop, [Next]_vars
  PROVE  TypeOK'
<1>0. payload \in PayloadType /\ PayloadWords \in Nat
  BY PayloadNat DEF TypeOK, PayloadType
<1>1. CASE Reset
  <2>1. Nobody \in [image : Images \cup {<<>>}, page : 0 .. PayloadPages,
                    erased : BOOLEAN]
    BY BootAssumption DEF Nobody
  <2>2. asked' \in BOOLEAN /\ hung' \in BOOLEAN
    BY <1>1, Zenon DEF TypeOK, Reset, Outage, CopyDone, AppAsksForDfu,
       AppResets, AppHangs, HostLeaves, PinReset, PowerLoss
  <2>3. {} \in Word
    BY DEF Word
  <2>4. last' \in Causes /\ causes' \subseteq Causes
    BY <1>1, Resets
  <2>5. /\ imagesize' \in Word \cup {Garbage} /\ img_offset' \in UInt32
        /\ img_size' \in 0 .. PayloadWords /\ index' \in 0 .. PayloadWords
        /\ pc' = "start"
    BY <1>0, <1>1, <2>3, Resets, Addresses DEF FreshLocals
  <2>6. /\ download' \in [image : Images \cup {<<>>},
                           page : 0 .. PayloadPages, erased : BOOLEAN]
        /\ payload' \in PayloadType /\ header' \in Header
        /\ ram_flag' \in {"clear", "dfu", "noise"}
        /\ UNCHANGED <<options, cells, installs>>
    BY <1>1, <2>1, Resets, Zenon
  <2> QED BY <2>2, <2>4, <2>5, <2>6, Zenon DEF TypeOK, PayloadType
<1>2. CASE Start
  <2>1. imagesize' \in Word \cup {Garbage}
    <3>1. SizeWord \in 0 .. PayloadWords - 1
      BY <1>0, BootAssumption
    <3>2. payload[SizeWord] \in Word \cup {Garbage} /\ {} \in Word
      BY <3>1 DEF TypeOK, Word
    <3> QED BY <1>2, <3>2 DEF Start
  <2> QED BY <1>0, <1>2, <2>1 DEF TypeOK, Start, reset, sram, history
<1>13. CASE ReadHeader
  <2>1. header \in Header /\ ImageIsValid(header, cells)
    BY <1>13 DEF ReadHeader, Validated, sram_has_valid_image, TypeOK
  <2>2. header.offset \in UInt32 /\ header.size \in 0 .. PayloadWords
    BY <2>1, ValidFits
  <2> QED BY <1>13, <2>2 DEF TypeOK, ReadHeader, reset, sram, history
<1>3. CASE ErasePage
  <2>1. payload' \in PayloadType
    BY <1>0, <1>3, ErasedAtType DEF ErasePage
  <2>2. index' \in 0 .. PayloadWords /\ pc' \in {"erase", "clear"}
    <3>1. PageWords \in Nat /\ index \in 0 .. PayloadWords
          /\ img_size \in 0 .. PayloadWords
      BY BootAssumption DEF TypeOK
    <3> QED BY <1>0, <1>3, <3>1 DEF ErasePage
  <2> QED BY <1>3, <2>1, <2>2
          DEF TypeOK, PayloadType, ErasePage, reset, sram, history
<1>4. CASE ClearHeader
  <2>1. header' \in Header
    <3>1. [magic |-> FALSE, offset |-> 0, size |-> 0] \in Header
      BY Addresses DEF Header
    <3> QED BY <1>4, <3>1 DEF TypeOK, ClearHeader
  <2>2. installs' \in 0 .. 2
    BY <1>4 DEF TypeOK, ClearHeader, Marked
  <2> QED BY <1>4, <2>1, <2>2 DEF TypeOK, ClearHeader, reset, locals
<1>5. CASE CopyChunk
  <2>1. index + 1 \in 0 .. PayloadWords
    BY <1>0, <1>5 DEF TypeOK, CopyChunk
  <2>2. cells[Wrap(img_offset + index)] \in Word
    BY <1>5, ChunkAddr DEF TypeOK, CopyChunk
  <2>3. payload' \in PayloadType
    BY <1>0, <1>5, <2>2 DEF CopyChunk, PayloadType
  <2> QED BY <1>5, <2>1, <2>3
          DEF TypeOK, PayloadType, CopyChunk, reset, sram, history
<1>6. CASE BootApplication \/ EnterDfu
  <2>1. {} \in Word /\ {} \subseteq Causes
    BY DEF Word
  <2>2. /\ imagesize' \in Word \cup {Garbage} /\ img_offset' \in UInt32
        /\ img_size' \in 0 .. PayloadWords /\ index' \in 0 .. PayloadWords
        /\ pc' \in {"app", "dfu"} /\ causes' \subseteq Causes
    BY <1>0, <1>6, <2>1, Addresses DEF BootApplication, EnterDfu, FreshLocals
  <2>3. /\ asked' \in BOOLEAN /\ hung' \in BOOLEAN
        /\ ram_flag' \in {"clear", "dfu", "noise"}
        /\ UNCHANGED <<options, payload, header, cells, download, installs,
                       last>>
    BY <1>6, Zenon DEF TypeOK, BootApplication, EnterDfu, sram, history
  <2> QED BY <2>2, <2>3, Zenon DEF TypeOK
<1>7. CASE \E d \in Deposits : AppDeposits(d)
  <2>1. header' \in Header /\ cells' \in [UInt32 -> Word]
    BY <1>7, BootAssumption DEF AppDeposits
  <2> QED BY <1>7, <2>1 DEF TypeOK, AppDeposits, reset, locals
<1>8. CASE \E img \in Images : HostStarts(img)
  <2>1. download' \in [image : Images \cup {<<>>}, page : 0 .. PayloadPages,
                       erased : BOOLEAN]
    <3>1. PICK img \in Images :
            download' = [image |-> img, page |-> 0, erased |-> FALSE]
      BY <1>8 DEF HostStarts, Nobody
    <3> QED BY <3>1, BootAssumption
  <2> QED BY <1>8, <2>1
          DEF TypeOK, HostStarts, reset, locals, sram, history
<1>9. CASE HostErases
  <2>1. payload' \in PayloadType
    BY <1>0, <1>9, ErasedAtType DEF HostErases
  <2> QED BY <1>9, <2>1
          DEF TypeOK, PayloadType, HostErases, reset, locals, sram, history
<1>10. CASE HostWrites
  <2>1. download.image \in Images \cup {<<>>} /\ download.image # <<>>
        /\ download.page + 1 \in 0 .. PayloadPages
    BY <1>10, BootAssumption DEF HostWrites, Sending, TypeOK
  <2>2. Flashed(download.image) \in [0 .. PayloadWords - 1 -> Word]
    BY <2>1, FlashedType
  <2>3. payload' \in PayloadType
    BY <1>0, <1>10, <2>2 DEF HostWrites, PayloadType
  <2> QED BY <1>10, <2>1, <2>3
          DEF TypeOK, PayloadType, HostWrites, reset, locals, sram, history
<1>11. CASE CopyBreaks
  BY <1>11 DEF TypeOK, CopyBreaks, reset, locals, sram, history
<1>12. CASE UNCHANGED vars
  BY <1>12 DEF TypeOK, vars, reset, locals, sram, history
<1> QED BY <1>1, <1>2, <1>3, <1>4, <1>5, <1>6, <1>7, <1>8, <1>9, <1>10,
           <1>11, <1>12, <1>13, Steps DEF Moves

-----------------------------------------------------------------------------
(***************************************************************************)
(* The image in the SPI SRAM.                                              *)
(***************************************************************************)
LEMMA StepValidated ==
  ASSUME TypeOK, Validated, [Next]_vars
  PROVE  Validated'
<1>1. CASE pc' \notin {"found", "erase", "clear", "copy"}
  BY <1>1 DEF Validated
<1>2. CASE Start /\ pc' = "found"
  BY <1>2 DEF Start, Validated, sram_has_valid_image, sram
<1>3. CASE ReadHeader /\ pc' = "erase"
  <2>1. img_offset' = header.offset /\ img_size' = header.size
    BY <1>3 DEF ReadHeader
  <2>2. header \in Header /\ ImageIsValid(header, cells)
    BY <1>3 DEF ReadHeader, Validated, sram_has_valid_image, TypeOK
  <2> QED BY <1>3, <2>1, <2>2, ValidFits DEF Validated
<1>4. CASE /\ pc \in {"erase", "clear", "copy"}
           /\ pc' \in {"erase", "clear", "copy"}
           /\ UNCHANGED <<img_offset, img_size>>
  BY <1>4 DEF Validated
<1>5. CASE Reset
  BY <1>1, <1>5, Resets
<1>6. CASE Start \/ ReadHeader
  BY <1>1, <1>2, <1>3, <1>6 DEF Start, ReadHeader
<1>7. CASE ErasePage \/ ClearHeader \/ CopyChunk
  BY <1>1, <1>4, <1>7 DEF ErasePage, ClearHeader, CopyChunk, locals
<1>8. CASE UNCHANGED vars
  BY <1>8 DEF Validated, sram_has_valid_image, vars, locals, sram
<1>9. CASE BootApplication \/ EnterDfu \/ CopyBreaks
  BY <1>1, <1>9 DEF BootApplication, EnterDfu, CopyBreaks
<1>10. CASE \/ \E d \in Deposits : AppDeposits(d)
            \/ \E img \in Images : HostStarts(img)
            \/ HostErases \/ HostWrites
  BY <1>1, <1>10
     DEF AppDeposits, HostStarts, HostErases, HostWrites, Sending
<1> QED BY <1>5, <1>6, <1>7, <1>8, <1>9, <1>10, Steps DEF Moves

LEMMA StepInLoop ==
  ASSUME TypeOK, InLoop, [Next]_vars
  PROVE  InLoop'
<1> USE DEF InLoop
<1>0. index \in 0 .. PayloadWords /\ img_size \in 0 .. PayloadWords
  BY DEF TypeOK
<1>1. CASE Reset
  BY <1>1, Resets
<1>2. CASE Start \/ ReadHeader
  BY <1>2 DEF Start, ReadHeader
<1>3. CASE ErasePage
  BY <1>0, <1>3, PayloadNat DEF ErasePage
<1>4. CASE ClearHeader
  BY <1>4 DEF ClearHeader, locals
<1>5. CASE CopyChunk
  BY <1>0, <1>5, PayloadNat DEF CopyChunk
<1>6. CASE BootApplication \/ EnterDfu \/ CopyBreaks
  BY <1>6 DEF BootApplication, EnterDfu, CopyBreaks
<1>7. CASE UNCHANGED <<pc, index, img_size>>
  BY <1>7
<1>8. CASE \/ \E d \in Deposits : AppDeposits(d)
           \/ \E img \in Images : HostStarts(img)
           \/ HostErases \/ HostWrites \/ UNCHANGED vars
  BY <1>7, <1>8, Zenon
     DEF AppDeposits, HostStarts, HostErases, HostWrites, vars, locals
<1> QED BY <1>1, <1>2, <1>3, <1>4, <1>5, <1>6, <1>8, Steps DEF Moves

LEMMA StepConsumed ==
  ASSUME TypeOK, Consumed, [Next]_vars
  PROVE  Consumed'
<1> USE DEF Consumed
<1>0. installs \in 0 .. 2
  BY DEF TypeOK
<1>1. CASE Reset
  BY <1>0, <1>1, Resets
<1>2. CASE Start \/ ReadHeader
  BY <1>2 DEF Start, ReadHeader, sram_has_valid_image, ImageIsValid, sram,
              history
<1>3. CASE ErasePage
  BY <1>3 DEF ErasePage, sram, history
<1>4. CASE ClearHeader
  BY <1>0, <1>4 DEF ClearHeader, Marked
<1>5. CASE CopyChunk \/ CopyBreaks
  BY <1>5 DEF CopyChunk, CopyBreaks, sram, history
<1>6. CASE BootApplication \/ EnterDfu
  BY <1>6 DEF BootApplication, EnterDfu, sram, history
<1>7. CASE \E d \in Deposits : AppDeposits(d)
  BY <1>7 DEF AppDeposits
<1>8. CASE (\E img \in Images : HostStarts(img)) \/ HostErases \/ HostWrites
  BY <1>8 DEF HostStarts, HostErases, HostWrites, sram, history
<1>9. CASE UNCHANGED vars
  BY <1>9 DEF vars, sram, history
<1> QED BY <1>1, <1>2, <1>3, <1>4, <1>5, <1>6, <1>7, <1>8, <1>9, Steps
        DEF Moves

-----------------------------------------------------------------------------
(***************************************************************************)
(* Requests for DFU mode and reset causes.                                 *)
(***************************************************************************)
LEMMA StepHeard ==
  ASSUME TypeOK, Heard, [Next]_vars
  PROVE  Heard'
<1> USE DEF Heard
<1>1. CASE Reset
  BY <1>1, Resets
<1>2. CASE pc' # "dfu"
  BY <1>2
<1>3. CASE EnterDfu
  BY <1>3 DEF EnterDfu
<1>4. CASE UNCHANGED <<pc, asked>>
  BY <1>4
<1> QED BY <1>1, <1>2, <1>3, <1>4, Steps
        DEF Moves, Start, ReadHeader, ErasePage, ClearHeader, CopyChunk,
            CopyBreaks, BootApplication, AppDeposits, HostStarts, HostErases,
            HostWrites, Sending, vars, history

\* A reset adds its cause to those flagged, and that of the watchdog comes
\* with the application that hung.
LEMMA StepFlagged ==
  ASSUME TypeOK, Flagged, [Next]_vars
  PROVE  Flagged'
<1> USE DEF Flagged
<1>1. CASE CopyDone \/ AppAsksForDfu \/ AppResets \/ HostLeaves \/ PinReset
  BY <1>1 DEF CopyDone, AppAsksForDfu, AppResets, HostLeaves, PinReset,
              ResetTo
<1>2. CASE AppHangs
  BY <1>2 DEF AppHangs, ResetTo
<1>3. CASE PowerLoss
  BY <1>3 DEF PowerLoss, ResetTo
<1>4. CASE BootApplication
  <2>1. \E pressed \in Buttons : ~go_dfu(pressed)
    BY <1>4 DEF BootApplication, Boots
  <2>2. ~("ENABLE_WATCHDOG" \in options /\ "watchdog" \in causes)
    BY <2>1 DEF go_dfu, reset_due_to_watchdog
  <2> QED BY <1>4, <2>2 DEF BootApplication, history
<1>5. CASE EnterDfu
  BY <1>5 DEF EnterDfu
<1>6. CASE \/ Start \/ ReadHeader \/ ErasePage \/ ClearHeader \/ CopyChunk
           \/ CopyBreaks
  BY <1>6 DEF Start, ReadHeader, ErasePage, ClearHeader, CopyChunk, CopyBreaks,
              reset, history
<1>7. CASE UNCHANGED <<pc, options, causes, last, hung>>
  BY <1>7
<1>8. CASE \/ \E d \in Deposits : AppDeposits(d)
           \/ \E img \in Images : HostStarts(img)
           \/ HostErases \/ HostWrites \/ UNCHANGED vars
  BY <1>7, <1>8, Zenon
     DEF AppDeposits, HostStarts, HostErases, HostWrites, vars, reset, history
<1> QED BY <1>1, <1>2, <1>3, <1>4, <1>5, <1>6, <1>8, Steps
        DEF Moves, Reset, Outage

-----------------------------------------------------------------------------
LEMMA InitIInv == Init => IInv
<1> SUFFICES ASSUME Init PROVE IInv
  OBVIOUS
<1>1. TypeOK
  BY InitType
<1>2. Validated /\ Consumed /\ InLoop /\ Heard /\ Flagged
  BY DEF Init, Validated, Consumed, InLoop, Heard, Flagged
<1> QED BY <1>1, <1>2 DEF IInv

LEMMA StepIInv == IInv /\ [Next]_vars => IInv'
  BY StepType, StepValidated, StepConsumed, StepInLoop, StepHeard, StepFlagged
     DEF IInv

THEOREM BootInvariant == Spec => []IInv
  BY InitIInv, StepIInv, PTL DEF Spec

\* The types, for every layout, image, deposit and build.
THEOREM BootTypeCorrect == Spec => []TypeOK
<1>1. IInv => TypeOK
  BY DEF IInv
<1> QED BY <1>1, BootInvariant, PTL

\* A header that is cleared (main.c:319) is never installed from again.
THEOREM InstallsOnce == Spec => []InstalledOnce
<1>1. IInv => InstalledOnce
  BY DEF IInv, Consumed, InstalledOnce
<1> QED BY <1>1, BootInvariant, PTL

\* An application that the watchdog stopped is not started before DFU mode was
\* entered (main.c:355, 361).
THEOREM HungIsHeld == Spec => []HungAppIsHeld
<1>1. IInv => HungAppIsHeld
  BY DEF IInv, Flagged, HungAppIsHeld
<1> QED BY <1>1, BootInvariant, PTL

\* Only an installation drops the request of an application (main.c:345).
LEMMA StepHolds ==
  ASSUME IInv, [Next]_vars,
         asked, asked', ram_flag = "dfu", ram_flag' # "dfu"
  PROVE  Copied
<1>1. CASE CopyDone
  BY <1>1 DEF CopyDone
<1>2. CASE HostLeaves
  BY <1>2 DEF HostLeaves, IInv, Heard
<1>3. CASE PowerLoss
  BY <1>3 DEF PowerLoss
<1>4. CASE AppAsksForDfu \/ AppResets \/ AppHangs \/ PinReset
  BY <1>4 DEF AppAsksForDfu, AppResets, AppHangs, PinReset, ResetTo
<1>5. CASE BootApplication
  BY <1>5 DEF BootApplication, Boots, go_dfu
<1>6. CASE \/ Start \/ ReadHeader \/ ErasePage \/ ClearHeader \/ CopyChunk
           \/ CopyBreaks \/ EnterDfu \/ UNCHANGED vars
  BY <1>6 DEF Start, ReadHeader, ErasePage, ClearHeader, CopyChunk, CopyBreaks, EnterDfu,
              vars
<1>7. CASE \/ \E d \in Deposits : AppDeposits(d)
           \/ \E img \in Images : HostStarts(img)
           \/ HostErases \/ HostWrites
  BY <1>7 DEF AppDeposits, HostStarts, HostErases, HostWrites
<1> QED BY <1>1, <1>2, <1>3, <1>4, <1>5, <1>6, <1>7, Steps
        DEF Moves, Reset, Outage

THEOREM RequestsAreHeld == Spec => RequestIsHeld
<1>1. IInv /\ [Next]_vars =>
        [asked /\ asked' /\ ram_flag = "dfu" /\ ram_flag' # "dfu"
           => Copied]_vars
  BY StepHolds
<1> QED BY <1>1, BootInvariant, PTL DEF Spec, RequestIsHeld

\* DFU mode is entered past a fit application for one of four reasons only
\* (main.c:351-359).
LEMMA StepIsDue ==
  ASSUME IInv, EnterDfu, Fit
  PROVE  \/ ram_flag = "dfu"
         \/ "ENABLE_GPIO_DFU_BOOT" \in options
         \/ "ENABLE_PINRST_DFU_BOOT" \in options /\ last = "pin"
         \/ "ENABLE_WATCHDOG" \in options /\ hung
<1>1. PICK pressed \in Buttons : ~Boots(pressed)
  BY DEF EnterDfu
<1>2. go_dfu(pressed)
  BY <1>1, Zenon DEF Boots, Fit
<1>3. pressed => "ENABLE_GPIO_DFU_BOOT" \in options
  BY DEF Buttons
<1>4. reset_due_to_pin => last = "pin"
  BY DEF EnterDfu, IInv, Flagged, reset_due_to_pin
<1>5. reset_due_to_watchdog => hung
  BY DEF IInv, Flagged, reset_due_to_watchdog
<1> QED BY <1>2, <1>3, <1>4, <1>5, Zenon DEF go_dfu, Fit

THEOREM DfuOnlyWhenDue == Spec => DfuIsDue
<1>1. IInv /\ [Next]_vars =>
        [EnterDfu /\ Fit =>
           \/ ram_flag = "dfu"
           \/ "ENABLE_GPIO_DFU_BOOT" \in options
           \/ "ENABLE_PINRST_DFU_BOOT" \in options /\ last = "pin"
           \/ "ENABLE_WATCHDOG" \in options /\ hung]_vars
  BY StepIsDue
<1> QED BY <1>1, BootInvariant, PTL DEF Spec, DfuIsDue

-----------------------------------------------------------------------------
(***************************************************************************)
(* What the payload is made of.  Whoever writes it, and whatever           *)
(* interrupts him, a page is erased before it is programmed and programmed *)
(* from its first word on, so it holds the beginning of one source.        *)
(***************************************************************************)
\* The header is that of a deposit, with its image behind it, or none.
DepositKept ==
  header.magic => \E d \in Deposits : header = d.header /\ cells = d.cells

Uses(d) == /\ ImageIsValid(d.header, d.cells) /\ cells = d.cells
           /\ img_offset = d.header.offset /\ img_size = d.header.size

InUse == pc \in {"erase", "clear", "copy"} => \E d \in Deposits : Uses(d)

Words == 0 .. PayloadWords - 1

\* No page is on both sides of t.
Boundary(t) ==
  \A i, j \in Words : i \div PageWords = j \div PageWords /\ i < t => j < t

EraseStage ==
  /\ pc = "found" => index = 0
  /\ pc = "erase" =>
       /\ index < img_size
       /\ \E k \in Nat : index = k * PageWords
       /\ \A i \in Words : i < index => payload[i] = Erased

\* The pages of the image hold what was copied so far, and nothing else.
CopiedTo(t) ==
  /\ Boundary(t) /\ img_size <= t
  /\ \A i \in Words : i < t =>
       payload[i] = IF i < index THEN cells[img_offset + i] ELSE Erased

CopyStage ==
  /\ pc = "clear" => index = 0
  /\ pc \in {"clear", "copy"} => \E t \in Nat : CopiedTo(t)

DfuStage == download.erased => Sending /\ \A i \in Page : payload[i] = Erased

SizeRead ==
  pc \in {"found", "decide"} =>
    imagesize = IF ENABLE_CHECKSUM THEN payload[SizeWord] ELSE {}

PieceInv ==
  /\ IInv /\ Patchwork(payload) /\ DepositKept /\ InUse /\ EraseStage
  /\ CopyStage /\ DfuStage /\ SizeRead

-----------------------------------------------------------------------------
LEMMA Grows ==
  ASSUME NEW P \in Nat, NEW a \in Nat, NEW b \in Nat, a <= b
  PROVE  a * P <= b * P
<1>1. PICK c \in Nat : b = a + c
  BY b - a \in Nat
<1>2. b * P = a * P + c * P
  BY <1>1
<1>3. c * P >= 0 /\ c * P \in Int /\ a * P \in Int
  OBVIOUS
<1> QED BY <1>2, <1>3

LEMMA Pages ==
  ASSUME NEW P \in Nat \ {0}, NEW k \in Nat, NEW i \in Nat
  PROVE  /\ i < k * P <=> i \div P < k
         /\ (k * P) \div P = k
<1>1. PICK d \in Nat, r \in 0 .. P - 1 : d = i \div P /\ i = d * P + r
  <2>1. i = (i \div P) * P + (i % P) /\ i % P \in 0 .. P - 1 /\ i \div P \in Nat
    OBVIOUS
  <2> QED BY <2>1
<1>2. d < k => i < k * P
  <2>1. (d + 1) * P = d * P + P
    OBVIOUS
  <2>2. d < k => (d + 1) * P <= k * P
    BY Grows
  <2>3. d * P \in Int /\ k * P \in Int
    OBVIOUS
  <2> QED BY <1>1, <2>1, <2>2, <2>3
<1>3. ~ (d < k) => ~ (i < k * P)
  <2>1. k <= d => k * P <= d * P
    BY Grows
  <2>2. d * P \in Int /\ k * P \in Int
    OBVIOUS
  <2> QED BY <1>1, <2>1, <2>2
<1>4. (k * P) \div P = k
  OBVIOUS
<1> QED BY <1>1, <1>2, <1>3, <1>4

LEMMA WordFacts ==
  /\ PageWords \in Nat \ {0} /\ PayloadWords \in Nat
  /\ Words \subseteq Nat
  /\ \A k : PageOf(k) \subseteq Words
  BY PayloadNat, BootAssumption DEF Words, PageOf

LEMMA Boundaries ==
  ASSUME NEW k \in Nat
  PROVE  /\ Boundary(k * PageWords)
         /\ \A i \in Words : i < (k + 1) * PageWords /\ ~ (i < k * PageWords)
              => i \in PageOf(k * PageWords)
<1>1. ASSUME NEW i \in Words
      PROVE  /\ i < k * PageWords <=> i \div PageWords < k
             /\ i < (k + 1) * PageWords <=> i \div PageWords < k + 1
             /\ (k * PageWords) \div PageWords = k
             /\ i \div PageWords \in Int
  BY WordFacts, Pages
<1>2. Boundary(k * PageWords)
  BY <1>1, Zenon DEF Boundary
<1>3. ASSUME NEW i \in Words,
             i < (k + 1) * PageWords, ~ (i < k * PageWords)
      PROVE  i \in PageOf(k * PageWords)
  <2>1. i \div PageWords = k
    BY <1>1, <1>3
  <2> QED BY <1>1, <2>1, Zenon DEF PageOf, Words
<1> QED BY <1>2, <1>3

-----------------------------------------------------------------------------
LEMMA PieceSame ==
  ASSUME NEW p, NEW q, NEW cs, \A i \in cs : q[i] = p[i], Piece(p, cs)
  PROVE  Piece(q, cs)
<1>1. CASE \A i \in cs : p[i] = Garbage
  BY <1>1 DEF Piece
<1>2. ASSUME NEW s \in Sources, NEW n \in 0 .. PayloadWords,
             NEW torn \in BOOLEAN,
             \A i \in cs : p[i] = IF i < n THEN s[i]
                                  ELSE IF i = n /\ torn THEN Garbage ELSE Erased
      PROVE  Piece(q, cs)
  <2>1. \A i \in cs : q[i] = IF i < n THEN s[i]
                             ELSE IF i = n /\ torn THEN Garbage ELSE Erased
    BY <1>2
  <2> QED BY <2>1, Zenon DEF Piece
<1> QED BY <1>1, <1>2, Zenon DEF Piece

\* A patchwork with one page replaced by a piece.
LEMMA Patched ==
  ASSUME NEW p, Patchwork(p), NEW k, NEW q, Piece(q, PageOf(k)),
         \A i \in Words : i \notin PageOf(k) => q[i] = p[i]
  PROVE  Patchwork(q)
<1> SUFFICES ASSUME NEW j \in Words PROVE Piece(q, PageOf(j))
  BY DEF Patchwork, Words
<1>1. CASE j \div PageWords = k \div PageWords
  <2>1. PageOf(j) = PageOf(k)
    BY <1>1 DEF PageOf
  <2> QED BY <2>1
<1>2. CASE j \div PageWords # k \div PageWords
  <2>1. \A i \in PageOf(j) : i \in Words /\ i \notin PageOf(k)
    BY <1>2, Zenon DEF PageOf, Words
  <2>2. Piece(p, PageOf(j))
    BY DEF Patchwork, Words
  <2> QED BY <2>1, <2>2, PieceSame
<1> QED BY <1>1, <1>2

LEMMA ErasedPiece ==
  ASSUME NEW q, NEW cs \in SUBSET Words, \A i \in cs : q[i] = Erased
  PROVE  Piece(q, cs)
<1>1. Blank \in Sources /\ 0 \in 0 .. PayloadWords /\ FALSE \in BOOLEAN
  BY WordFacts DEF Sources
<1>2. \A i \in cs : ~ (i < 0)
  BY WordFacts
<1>3. \A i \in cs : q[i] = IF i < 0 THEN Blank[i]
                           ELSE IF i = 0 /\ FALSE THEN Garbage ELSE Erased
  BY <1>2
<1> QED BY <1>1, <1>3, Zenon DEF Piece

LEMMA ErasedPatchwork ==
  ASSUME Patchwork(payload), NEW k
  PROVE  Patchwork(ErasedAt(PageOf(k)))
<1> DEFINE q == ErasedAt(PageOf(k))
<1>1. \A i \in Words : q[i] = IF i \in PageOf(k) THEN Erased ELSE payload[i]
  BY DEF ErasedAt, Words
<1> HIDE DEF q
<1>2. Piece(q, PageOf(k))
  BY <1>1, WordFacts, ErasedPiece
<1> QED BY <1>1, <1>2, Patched DEF q

\* The whole of a source.
LEMMA WholePiece ==
  ASSUME NEW s \in Sources, NEW q, NEW cs \in SUBSET Words,
         \A i \in cs : q[i] = s[i]
  PROVE  Piece(q, cs)
<1>1. PayloadWords \in 0 .. PayloadWords /\ FALSE \in BOOLEAN
  BY WordFacts
<1>2. \A i \in cs : i < PayloadWords
  BY WordFacts DEF Words
<1>3. \A i \in cs : q[i] = IF i < PayloadWords THEN s[i]
                    ELSE IF i = PayloadWords /\ FALSE THEN Garbage ELSE Erased
  BY <1>2
<1> QED BY <1>1, <1>3, Zenon DEF Piece

LEMMA SmudgedPatchwork ==
  ASSUME Patchwork(payload), NEW k, NEW q \in Smudged(PageOf(k))
  PROVE  Patchwork(q)
<1>1. \A i \in Words : q[i] = IF i \in PageOf(k) THEN Garbage ELSE payload[i]
  BY DEF Smudged, Words
<1>2. Piece(q, PageOf(k))
  BY <1>1, WordFacts DEF Piece
<1> QED BY <1>1, <1>2, Patched

-----------------------------------------------------------------------------
(***************************************************************************)
(* Pieces of an image from the SPI SRAM, and of a download.                *)
(***************************************************************************)
LEMMA UsedSource ==
  ASSUME NEW d \in Deposits, Uses(d)
  PROVE  /\ Taken(d) \in Sources
         /\ \A i \in Words : i < img_size => Taken(d)[i] = cells[img_offset + i]
<1>1. Taken(d) \in Sources
  BY DEF Uses, Sources
<1>2. ASSUME NEW i \in Words, i < img_size
      PROVE  Taken(d)[i] = cells[img_offset + i]
  <2>1. i \in 0 .. d.header.size - 1 /\ d.header \in Header
    BY <1>2, WordFacts, BootAssumption DEF Uses, Header, UInt32
  <2>2. spi_sram_read(d.cells, d.header.offset, d.header.size)[i]
          = d.cells[d.header.offset + i]
    BY <2>1, ValidFits DEF Uses
  <2> QED BY <1>2, <2>2 DEF Uses, Taken, Words
<1> QED BY <1>1, <1>2

\* The page that is being copied to, with torn the word that is programmed.
LEMMA CopiedPiece ==
  ASSUME TypeOK, NEW d \in Deposits, Uses(d), NEW t \in Nat, CopiedTo(t),
         index < img_size, NEW n \in 0 .. PayloadWords, n <= img_size,
         NEW torn \in BOOLEAN, NEW q,
         \A i \in PageOf(index) :
           q[i] = IF i < n THEN cells[img_offset + i]
                  ELSE IF i = n /\ torn THEN Garbage ELSE Erased
  PROVE  Piece(q, PageOf(index))
<1>1. \A i \in PageOf(index) : i < n => Taken(d)[i] = cells[img_offset + i]
  <2>1. PageOf(index) \subseteq Words /\ Words \subseteq Nat
        /\ img_size \in Nat /\ n \in Nat
    BY WordFacts DEF TypeOK
  <2>2. \A i \in Words : i < n => i < img_size
    BY <2>1
  <2> QED BY <2>1, <2>2, UsedSource
<1>2. \A i \in PageOf(index) :
        q[i] = IF i < n THEN Taken(d)[i]
               ELSE IF i = n /\ torn THEN Garbage ELSE Erased
  BY <1>1
<1> QED BY <1>2, UsedSource, Zenon DEF Piece

LEMMA CopyPage ==
  ASSUME TypeOK, NEW t \in Nat, CopiedTo(t), index < img_size
  PROVE  \A i \in PageOf(index) :
           /\ i \in Words /\ i < t
           /\ payload[i] = IF i < index THEN cells[img_offset + i] ELSE Erased
<1>1. index \in Words /\ index < t /\ PageOf(index) \subseteq Words
  BY WordFacts DEF TypeOK, CopiedTo, Words
<1>2. ASSUME NEW i \in PageOf(index) PROVE i \in Words /\ i < t
  <2>1. i \in Words /\ i \div PageWords = index \div PageWords
    BY DEF PageOf, Words
  <2> QED BY <1>1, <2>1 DEF CopiedTo, Boundary
<1> QED BY <1>2, Zenon DEF CopiedTo

LEMMA CopyKeepsPatchwork ==
  ASSUME PieceInv, CopyChunk
  PROVE  Patchwork(payload') /\ CopyStage'
<1>0. TypeOK /\ payload \in PayloadType
  BY DEF PieceInv, IInv, TypeOK, PayloadType
<1>1. PICK d \in Deposits : Uses(d)
  BY DEF PieceInv, InUse, CopyChunk
<1>2. PICK t \in Nat : CopiedTo(t)
  BY DEF PieceInv, CopyStage, CopyChunk
<1>3. index < img_size /\ index \in Words /\ index \in PageOf(index)
      /\ index \in Nat /\ img_size \in 0 .. PayloadWords
  BY <1>0, WordFacts DEF CopyChunk, TypeOK, Words, PageOf
<1>4. payload[index] = Erased
  BY <1>0, <1>2, <1>3, CopyPage
<1>5. \A i \in Words : payload'[i] = IF i = index THEN cells[img_offset + index]
                                     ELSE payload[i]
  <2>1. payload' = [payload EXCEPT ![index] = cells[img_offset + index]]
    BY <1>0, <1>3, <1>4, ChunkAddr DEF CopyChunk, PieceInv, IInv
  <2> QED BY <1>0, <2>1 DEF PayloadType, Words
<1>6. index' = index + 1 /\ UNCHANGED <<pc, img_size, img_offset, cells>>
      /\ pc = "copy"
  BY DEF CopyChunk, sram
<1>7. \A i \in Words : i < t =>
        payload'[i] = IF i < index + 1 THEN cells[img_offset + i] ELSE Erased
  <2> SUFFICES ASSUME NEW i \in Words, i < t
               PROVE  payload'[i] = IF i < index + 1
                                    THEN cells[img_offset + i] ELSE Erased
    OBVIOUS
  <2>1. CASE i = index
    <3>1. i < index + 1
      BY <1>3, <2>1
    <3> QED BY <1>5, <2>1, <3>1
  <2>2. CASE i # index
    <3>1. i < index + 1 <=> i < index
      BY <1>3, <2>2, WordFacts
    <3> QED BY <1>2, <1>5, <2>2, <3>1 DEF CopiedTo
  <2> QED BY <2>1, <2>2
<1>8. CopyStage'
  <2>1. CopiedTo(t)'
    BY <1>2, <1>6, <1>7, Zenon DEF CopiedTo, Boundary
  <2> QED BY <1>6, <2>1 DEF CopyStage
<1>9. Piece(payload', PageOf(index))
  <2>1. \A i \in PageOf(index) :
          payload'[i] = IF i < index + 1 THEN cells[img_offset + i]
                        ELSE IF i = index + 1 /\ FALSE THEN Garbage ELSE Erased
    BY <1>0, <1>2, <1>3, <1>7, CopyPage
  <2>2. index + 1 \in 0 .. PayloadWords /\ index + 1 <= img_size
    BY <1>3, WordFacts
  <2> QED BY <1>0, <1>1, <1>2, <1>3, <2>1, <2>2, CopiedPiece
<1>10. \A i \in Words : i \notin PageOf(index) => payload'[i] = payload[i]
  BY <1>3, <1>5
<1> QED BY <1>8, <1>9, <1>10, Patched DEF PieceInv

LEMMA TornPatchwork ==
  ASSUME PieceInv, NEW q \in Torn
  PROVE  Patchwork(q)
<1>0. TypeOK /\ Patchwork(payload)
  BY DEF PieceInv, IInv
<1>1. CASE q = payload
  BY <1>0, <1>1
<1>2. CASE q \in Smudged(PageOf(index))
  BY <1>0, <1>2, SmudgedPatchwork
<1>3. CASE q \in Smudged(Page)
  BY <1>0, <1>3, SmudgedPatchwork DEF Page
<1>4. CASE pc = "copy" /\ index < img_size /\ q \in Smudged({index})
  <2>1. PICK d \in Deposits : Uses(d)
    BY <1>4 DEF PieceInv, InUse
  <2>2. PICK t \in Nat : CopiedTo(t)
    BY <1>4 DEF PieceInv, CopyStage
  <2>3. \A i \in Words : q[i] = IF i = index THEN Garbage ELSE payload[i]
    BY <1>4 DEF Smudged, Words
  <2>4. index \in PageOf(index) /\ index \in 0 .. PayloadWords
        /\ index <= img_size /\ index \in Nat
    BY <1>0, <1>4, WordFacts DEF TypeOK, PageOf
  <2>5. \A i \in PageOf(index) :
          q[i] = IF i < index THEN cells[img_offset + i]
                 ELSE IF i = index /\ TRUE THEN Garbage ELSE Erased
    <3>1. ~ (index < index)
      BY <2>4
    <3> QED BY <1>0, <1>4, <2>2, <2>3, <3>1, CopyPage
  <2>6. Piece(q, PageOf(index))
    BY <1>0, <1>4, <2>1, <2>2, <2>4, <2>5, CopiedPiece
  <2>7. \A i \in Words : i \notin PageOf(index) => q[i] = payload[i]
    BY <2>3, <2>4
  <2> QED BY <1>0, <2>6, <2>7, Patched
<1>5. CASE Sending /\ download.erased /\ q \in HalfWritten
  <2>1. \A i \in Page : payload[i] = Erased
    BY <1>5 DEF PieceInv, DfuStage
  <2>2. PICK k \in Page :
          q = [i \in 0 .. PayloadWords - 1 |->
                 IF i \notin Page \/ i > k THEN payload[i]
                 ELSE IF i = k THEN Garbage ELSE Flashed(download.image)[i]]
    BY <1>5 DEF HalfWritten
  <2>3. Page \subseteq Words /\ Words \subseteq Nat /\ k \in Nat
        /\ k \in 0 .. PayloadWords
    BY WordFacts DEF Page, Words
  <2>4. Flashed(download.image) \in Sources
    BY <1>0, <1>5 DEF Sources, Sending, TypeOK
  <2>5. \A i \in Words : i \notin Page => q[i] = payload[i]
    BY <2>2 DEF Words
  <2>6. \A i \in Page : q[i] = IF i < k THEN Flashed(download.image)[i]
                        ELSE IF i = k /\ TRUE THEN Garbage ELSE Erased
    <3> SUFFICES ASSUME NEW i \in Page
                 PROVE  q[i] = IF i < k THEN Flashed(download.image)[i]
                        ELSE IF i = k /\ TRUE THEN Garbage ELSE Erased
      OBVIOUS
    <3>1. i \in Nat /\ i \in Words
      BY <2>3
    <3>2. q[i] = IF i > k THEN payload[i]
                 ELSE IF i = k THEN Garbage ELSE Flashed(download.image)[i]
      BY <2>2, <3>1 DEF Words
    <3>3. CASE i < k
      BY <2>3, <3>1, <3>2, <3>3
    <3>4. CASE i = k
      BY <2>3, <3>1, <3>2, <3>4
    <3>5. CASE i > k
      BY <2>1, <2>3, <3>1, <3>2, <3>5
    <3> QED BY <2>3, <3>1, <3>3, <3>4, <3>5
  <2>7. Piece(q, Page)
    BY <2>3, <2>4, <2>6, Zenon DEF Piece
  <2> QED BY <1>0, <2>5, <2>7, Patched DEF Page
<1> QED BY <1>1, <1>2, <1>3, <1>4, <1>5 DEF Torn

-----------------------------------------------------------------------------
(***************************************************************************)
(* The steps.                                                              *)
(***************************************************************************)
LEMMA ResetPayload ==
  ASSUME Reset
  PROVE  payload' = payload \/ payload' \in Torn
  BY Zenon DEF Reset, Outage, CopyDone, AppAsksForDfu, AppResets, AppHangs,
     HostLeaves, PinReset, PowerLoss

LEMMA ResetStarts == Reset => pc' = "start" /\ download' = Nobody
  BY Zenon DEF Reset, Outage, CopyDone, AppAsksForDfu, AppResets, AppHangs,
     HostLeaves, PinReset, PowerLoss, ResetTo

LEMMA StepPatchwork ==
  ASSUME PieceInv, [Next]_vars
  PROVE  Patchwork(payload')
<1>0. TypeOK /\ Patchwork(payload)
  BY DEF PieceInv, IInv
<1>1. CASE Reset
  <2>1. CASE payload' = payload
    BY <1>0, <2>1
  <2> QED BY <1>1, <2>1, ResetPayload, TornPatchwork
<1>2. CASE ErasePage
  BY <1>0, <1>2, ErasedPatchwork DEF ErasePage
<1>3. CASE CopyChunk
  BY <1>3, CopyKeepsPatchwork
<1>4. CASE HostErases
  BY <1>0, <1>4, ErasedPatchwork DEF HostErases, Page
<1>5. CASE HostWrites
  <2>1. Flashed(download.image) \in Sources
    BY <1>0, <1>5 DEF Sources, HostWrites, Sending, TypeOK
  <2>2. \A i \in Words : payload'[i] = IF i \in Page
                         THEN Flashed(download.image)[i] ELSE payload[i]
    BY <1>5 DEF HostWrites, Words
  <2>3. Piece(payload', Page)
    <3>1. Page \subseteq Words
      BY WordFacts DEF Page
    <3>2. \A i \in Page : payload'[i] = Flashed(download.image)[i]
      BY <2>2, <3>1
    <3> QED BY <2>1, <3>1, <3>2, WholePiece
  <2> QED BY <1>0, <2>2, <2>3, Patched DEF Page
<1>6. CASE payload' = payload
  BY <1>0, <1>6
<1> QED BY <1>1, <1>2, <1>3, <1>4, <1>5, <1>6, Steps
        DEF Moves, Start, ReadHeader, ClearHeader, CopyBreaks,
            BootApplication, EnterDfu, AppDeposits, HostStarts, vars

LEMMA ResetHeader ==
  ASSUME header \in Header, Reset, header'.magic
  PROVE  header' = header /\ cells' = cells
<1>1. ASSUME NEW h \in TornHeader, h.magic PROVE h = header
  BY <1>1 DEF TornHeader, Header
<1>2. CASE CopyDone \/ AppAsksForDfu \/ AppResets \/ AppHangs \/ HostLeaves
  BY <1>2 DEF CopyDone, AppAsksForDfu, AppResets, AppHangs, HostLeaves, sram
<1>3. CASE PinReset
  BY <1>1, <1>3 DEF PinReset
<1>4. CASE PowerLoss
  <2>1. header' # [magic |-> FALSE, offset |-> 0, size |-> 0]
    OBVIOUS
  <2> QED BY <1>1, <1>4, <2>1 DEF PowerLoss
<1> QED BY <1>2, <1>3, <1>4 DEF Reset, Outage

LEMMA StepDeposit ==
  ASSUME TypeOK, DepositKept, [Next]_vars
  PROVE  DepositKept'
<1>1. CASE Reset
  BY <1>1, ResetHeader DEF DepositKept, TypeOK
<1>2. CASE \E d \in Deposits : AppDeposits(d)
  BY <1>2 DEF DepositKept, AppDeposits
<1>3. CASE ClearHeader
  BY <1>3 DEF DepositKept, ClearHeader
<1>4. CASE UNCHANGED sram
  BY <1>4 DEF DepositKept, sram
<1> QED BY <1>1, <1>2, <1>3, <1>4, Steps
        DEF Moves, Start, ReadHeader, ErasePage, CopyChunk, CopyBreaks,
            BootApplication, EnterDfu, HostStarts, HostErases, HostWrites, vars

\* What is found in the SPI SRAM is a deposit, and its header is read again
\* while it is still there.
LEMMA ReadUses ==
  ASSUME Validated, DepositKept, ReadHeader, pc' = "erase"
  PROVE  \E d \in Deposits : Uses(d)'
<1>1. /\ ImageIsValid(header, cells) /\ UNCHANGED sram
      /\ img_offset' = header.offset /\ img_size' = header.size
  BY DEF ReadHeader, Validated, sram_has_valid_image
<1>2. PICK d \in Deposits : header = d.header /\ cells = d.cells
  BY <1>1 DEF DepositKept, ImageIsValid
<1> QED BY <1>1, <1>2 DEF Uses, sram

LEMMA StepInUse ==
  ASSUME Validated, InUse, DepositKept, [Next]_vars
  PROVE  InUse'
<1>1. CASE pc' \notin {"erase", "clear", "copy"}
  BY <1>1 DEF InUse
<1>2. CASE ReadHeader /\ pc' = "erase"
  BY <1>2, ReadUses DEF InUse
<1>3. CASE /\ pc \in {"erase", "clear", "copy"}
           /\ UNCHANGED <<img_offset, img_size, cells>>
  <2>1. PICK d \in Deposits : Uses(d)
    BY <1>3 DEF InUse
  <2>2. Uses(d)'
    BY <1>3, <2>1 DEF Uses
  <2> QED BY <2>2 DEF InUse
<1>5. CASE Reset
  BY <1>1, <1>5, ResetStarts
<1>6. CASE Start \/ ReadHeader
  BY <1>1, <1>2, <1>6 DEF Start, ReadHeader
<1>7. CASE ErasePage \/ ClearHeader \/ CopyChunk \/ UNCHANGED vars
  BY <1>1, <1>3, <1>7
     DEF ErasePage, ClearHeader, CopyChunk, vars, locals, sram
<1>8. CASE BootApplication \/ EnterDfu \/ CopyBreaks
  BY <1>1, <1>8 DEF BootApplication, EnterDfu, CopyBreaks
<1>9. CASE \/ \E d \in Deposits : AppDeposits(d)
           \/ \E img \in Images : HostStarts(img)
           \/ HostErases \/ HostWrites
  BY <1>1, <1>9
     DEF AppDeposits, HostStarts, HostErases, HostWrites, Sending
<1> QED BY <1>5, <1>6, <1>7, <1>8, <1>9, Steps DEF Moves

\* What a page erased adds to those before it.
LEMMA PageErased ==
  ASSUME TypeOK, NEW k \in Nat, index = k * PageWords, EraseStage, ErasePage
  PROVE  /\ index + PageWords = (k + 1) * PageWords
         /\ \A i \in Words : i < (k + 1) * PageWords => payload'[i] = Erased
<1>1. \A i \in Words : payload'[i] = IF i \in PageOf(index) THEN Erased
                                     ELSE payload[i]
  BY DEF ErasePage, ErasedAt, Words
<1>2. index + PageWords = (k + 1) * PageWords
  BY WordFacts
<1>3. \A i \in Words : i < (k + 1) * PageWords /\ ~ (i < index)
        => i \in PageOf(index)
  BY Boundaries
<1>4. \A i \in Words : i < index => payload[i] = Erased
  BY DEF EraseStage, ErasePage
<1> QED BY <1>1, <1>2, <1>3, <1>4, Zenon

LEMMA StepErase ==
  ASSUME TypeOK, Validated, EraseStage, [Next]_vars
  PROVE  EraseStage'
<1>1. CASE pc' \notin {"found", "erase"} \/ (pc' = "found" /\ index' = 0)
  BY <1>1 DEF EraseStage
<1>2. CASE ReadHeader /\ pc' = "erase"
  <2>1. index' = 0 /\ img_size' = header.size /\ header.size > 0
    BY <1>2 DEF ReadHeader, EraseStage, Validated, sram_has_valid_image,
                ImageIsValid
  <2>2. 0 = 0 * PageWords /\ 0 \in Nat
    BY WordFacts
  <2>3. \A i \in Words : ~ (i < 0)
    BY WordFacts
  <2> QED BY <1>2, <2>1, <2>2, <2>3 DEF EraseStage, TypeOK, Header, UInt32
<1>3. CASE ErasePage /\ pc' = "erase"
  <2>1. PICK k \in Nat : index = k * PageWords
    BY <1>3 DEF EraseStage, ErasePage
  <2>2. index' = index + PageWords /\ index + PageWords < img_size
        /\ img_size' = img_size
    BY <1>3 DEF ErasePage
  <2>3. /\ index' = (k + 1) * PageWords /\ k + 1 \in Nat
        /\ \A i \in Words : i < (k + 1) * PageWords => payload'[i] = Erased
    BY <1>3, <2>1, <2>2, PageErased
  <2>4. index' < img_size' /\ \E n \in Nat : index' = n * PageWords
    BY <2>2, <2>3
  <2>5. \A i \in Words : i < index' => payload'[i] = Erased
    BY <2>3, Zenon
  <2> QED BY <1>3, <2>4, <2>5 DEF EraseStage, Words
<1>4. CASE UNCHANGED vars
  BY <1>4, Zenon DEF EraseStage, vars, locals
<1> QED BY <1>1, <1>2, <1>3, <1>4, Steps, ResetStarts
        DEF Moves, Start, ReadHeader, ErasePage, ClearHeader, CopyChunk,
            CopyBreaks, BootApplication, EnterDfu, AppDeposits, HostStarts,
            HostErases, HostWrites, Sending

LEMMA StepCopyStage ==
  ASSUME PieceInv, [Next]_vars
  PROVE  CopyStage'
<1>0. TypeOK /\ CopyStage /\ EraseStage
  BY DEF PieceInv, IInv
<1>1. CASE pc' \notin {"clear", "copy"}
  BY <1>1 DEF CopyStage
<1>2. CASE ErasePage /\ pc' = "clear"
  <2>1. PICK k \in Nat : index = k * PageWords
    BY <1>0, <1>2 DEF EraseStage, ErasePage
  <2>2. /\ ~ (index + PageWords < img_size) /\ index' = 0
        /\ UNCHANGED <<img_size, img_offset, cells>>
    BY <1>2 DEF ErasePage, sram
  <2>3. PICK t \in Nat : t = (k + 1) * PageWords
    BY WordFacts
  <2>4. /\ Boundary(t)
        /\ \A i \in Words : i < t => payload'[i] = Erased
        /\ index + PageWords = t
    <3>1. k + 1 \in Nat
      OBVIOUS
    <3> QED BY <1>0, <1>2, <2>1, <2>3, <3>1, Boundaries, PageErased
  <2>5. img_size <= t
    BY <1>0, <2>2, <2>4 DEF TypeOK
  <2>6. \A i \in Words : ~ (i < 0)
    BY WordFacts
  <2>7. CopiedTo(t)'
    BY <2>2, <2>4, <2>5, <2>6, Zenon DEF CopiedTo, Boundary, Words
  <2> QED BY <1>2, <2>2, <2>7 DEF CopyStage
<1>3. CASE ClearHeader
  <2>1. PICK t \in Nat : CopiedTo(t)
    BY <1>0, <1>3 DEF CopyStage, ClearHeader
  <2>2. CopiedTo(t)'
    BY <1>3, <2>1, Zenon DEF CopiedTo, Boundary, ClearHeader, locals
  <2> QED BY <1>3, <2>2 DEF CopyStage, ClearHeader
<1>4. CASE CopyChunk
  BY <1>4, CopyKeepsPatchwork
<1>5. CASE UNCHANGED vars
  <2>1. pc \in {"clear", "copy"} => \E t \in Nat : CopiedTo(t)'
    BY <1>0, <1>5, Zenon DEF CopyStage, CopiedTo, Boundary, vars, locals, sram
  <2> QED BY <1>0, <1>5, <2>1 DEF CopyStage, vars, locals
<1> QED BY <1>1, <1>2, <1>3, <1>4, <1>5, Steps, ResetStarts
        DEF Moves, Start, ReadHeader, ErasePage, CopyBreaks, BootApplication,
            EnterDfu, AppDeposits, HostStarts, HostErases, HostWrites, Sending

LEMMA StepDfuStage ==
  ASSUME TypeOK, DfuStage, [Next]_vars
  PROVE  DfuStage'
<1>1. CASE ~download'.erased
  BY <1>1 DEF DfuStage
<1>2. CASE Reset
  BY <1>1, <1>2, ResetStarts DEF Nobody
<1>3. CASE HostErases
  <2>1. \A i \in Words : payload'[i] = IF i \in Page THEN Erased ELSE payload[i]
    BY <1>3 DEF HostErases, ErasedAt, Words
  <2>2. /\ download'.image = download.image /\ download'.page = download.page
        /\ pc' = pc
    BY <1>3 DEF HostErases, TypeOK
  <2>3. Sending' /\ Page' = Page /\ Page \subseteq Words
    BY <1>3, <2>2, WordFacts DEF HostErases, Sending, Page, PageOf
  <2> QED BY <2>1, <2>3 DEF DfuStage
<1>4. CASE HostWrites
  BY <1>1, <1>4 DEF HostWrites, TypeOK
<1>5. CASE \E img \in Images : HostStarts(img)
  BY <1>1, <1>5 DEF HostStarts, Nobody
<1>6. CASE download' = download /\ pc # "dfu"
  BY <1>1, <1>6 DEF DfuStage, Sending
<1>7. CASE UNCHANGED vars
  <2>1. Sending' = Sending /\ Page' = Page /\ UNCHANGED <<download, payload>>
    BY <1>7 DEF vars, Sending, Page, PageOf
  <2> QED BY <2>1 DEF DfuStage
<1> QED BY <1>2, <1>3, <1>4, <1>5, <1>6, <1>7, Steps
        DEF Moves, Start, ReadHeader, ErasePage, ClearHeader, CopyChunk,
            CopyBreaks, BootApplication, EnterDfu, AppDeposits

LEMMA StepSize ==
  ASSUME SizeRead, [Next]_vars
  PROVE  SizeRead'
<1>1. CASE pc' \notin {"found", "decide"}
  BY <1>1 DEF SizeRead
<1>2. CASE Start \/ ReadHeader
  BY <1>2 DEF Start, ReadHeader, SizeRead
<1>3. CASE UNCHANGED vars
  BY <1>3 DEF SizeRead, vars, locals
<1> QED BY <1>1, <1>2, <1>3, Steps, ResetStarts
        DEF Moves, ErasePage, ClearHeader, CopyChunk, CopyBreaks,
            BootApplication, EnterDfu, AppDeposits, HostStarts, HostErases,
            HostWrites, Sending

LEMMA InitPiece == Init => PieceInv
<1> SUFFICES ASSUME Init PROVE PieceInv
  OBVIOUS
<1>1. payload \in Sources
  BY DEF Init, Sources
<1>2. Patchwork(payload)
  <2> SUFFICES ASSUME NEW k \in Words PROVE Piece(payload, PageOf(k))
    BY DEF Patchwork, Words
  <2> QED BY <1>1, WordFacts, WholePiece
<1>3. DepositKept /\ InUse /\ EraseStage /\ CopyStage /\ DfuStage /\ SizeRead
  BY DEF Init, DepositKept, InUse, EraseStage, CopyStage, DfuStage, SizeRead,
         Nobody
<1> QED BY <1>2, <1>3, InitIInv DEF PieceInv

LEMMA StepPiece == PieceInv /\ [Next]_vars => PieceInv'
<1> SUFFICES ASSUME PieceInv, [Next]_vars PROVE PieceInv'
  OBVIOUS
<1>1. TypeOK /\ Validated
  BY DEF PieceInv, IInv
<1>2. Patchwork(payload)'
  <2>1. Patchwork(payload')
    BY StepPatchwork
  <2> QED BY <2>1 DEF Patchwork, Piece, PageOf, Sources, Taken, Flashed,
                      Blank
<1> QED BY <1>1, <1>2, StepIInv, StepDeposit, StepInUse, StepErase,
           StepCopyStage, StepDfuStage, StepSize DEF PieceInv

\* Whoever writes the payload and whatever interrupts it, each of its pages
\* holds the beginning of an image or of a deposit that was validated, with
\* erased words behind it, or garbage: no page mixes two of them
\* (main.c:304-342, and a host that erases and programs page by page).
THEOREM PayloadIsPatchwork == Spec => []Patchwork(payload)
<1>1. PieceInv => Patchwork(payload)
  BY DEF PieceInv
<1> QED BY <1>1, InitPiece, StepPiece, PTL DEF Spec

LEMMA StartsPatchwork ==
  ASSUME PieceInv, BootApplication
  PROVE  Patchwork(payload) /\ Passes(payload)
<1>1. PICK pressed \in Buttons : Boots(pressed)
  BY DEF BootApplication
<1>2. imagesize = IF ENABLE_CHECKSUM THEN payload[SizeWord] ELSE {}
  BY DEF BootApplication, PieceInv, SizeRead
<1>3. imagesize # Garbage /\ AtMost(imagesize, PayloadWords)
  BY <1>1 DEF Boots, go_dfu, TooLong
<1>4. Passes(payload)
  BY <1>1, <1>2, <1>3, Zenon DEF Passes, Boots
<1> QED BY <1>4 DEF PieceInv

\* Neither predicate is about anything but its argument.
LEMMA PatchworkSame ==
  ASSUME payload' = payload
  PROVE  /\ Patchwork(payload) => Patchwork(payload)'
         /\ Passes(payload) => Passes(payload)'
<1>1. Patchwork(payload)' = Patchwork(payload')
  BY DEF Patchwork, Piece, PageOf, Sources, Taken, Flashed, Blank
<1>2. Passes(payload)' = Passes(payload')
  BY DEF Passes, StackFits, AtMost, Value, validate_checksum, XorOf
<1> QED BY <1>1, <1>2

LEMMA StepStarts ==
  ASSUME PieceInv, OnlyPatchworksStart, [Next]_vars
  PROVE  OnlyPatchworksStart'
<1>1. CASE pc' # "app"
  BY <1>1 DEF OnlyPatchworksStart
<1>2. CASE BootApplication
  <2>1. payload' = payload
    BY <1>2 DEF BootApplication
  <2> QED BY <1>2, <2>1, StartsPatchwork, PatchworkSame DEF OnlyPatchworksStart
<1>3. CASE UNCHANGED <<pc, payload>>
  BY <1>3, PatchworkSame DEF OnlyPatchworksStart
<1> QED BY <1>1, <1>2, <1>3, Steps, ResetStarts
        DEF Moves, Start, ReadHeader, ErasePage, ClearHeader, CopyChunk,
            CopyBreaks, EnterDfu, AppDeposits, HostStarts, HostErases,
            HostWrites, Sending, vars

\* What main() starts has passed the checksum as it stands in flash, and each of
\* its pages is the beginning of one image or validated deposit, whatever is
\* interrupted (main.c:360-384).  That it is one image, whole, takes a checksum
\* that tells the images from all their patchworks, which an exclusive or of
\* 32 bits is not.
THEOREM PatchworksStart == Spec => []OnlyPatchworksStart
<1>1. Init => OnlyPatchworksStart
  BY DEF Init, OnlyPatchworksStart
<1>2. PieceInv /\ OnlyPatchworksStart /\ [Next]_vars => OnlyPatchworksStart'
  BY StepStarts
<1> QED BY <1>1, <1>2, InitPiece, StepPiece, PTL DEF Spec

-----------------------------------------------------------------------------
(***************************************************************************)
(* What the copy loop leaves.                                              *)
(***************************************************************************)
\* Words that are the same have the same checksum.
LEMMA SameSum ==
  ASSUME NEW f, NEW g, NEW n \in Nat, \A k \in 0 .. n - 1 : f[k] = g[k],
         validate_checksum(f, 0, n)
  PROVE  validate_checksum(g, 0, n)
<1>1. 0 + n - 1 = n - 1
  OBVIOUS
<1>2. \A k \in 0 .. 0 + n - 1 : f[k] = g[k]
  BY <1>1
<1>3. \A b : { k \in 0 .. 0 + n - 1 : b \in f[k] }
             = { k \in 0 .. 0 + n - 1 : b \in g[k] }
  BY <1>2
<1>4. XorOf(f, 0, n) = XorOf(g, 0, n)
  BY <1>3, Zenon DEF XorOf
<1> QED BY <1>2, <1>4, Zenon DEF validate_checksum

\* The words of the pages up to that of the last word of the image lie below
\* the end of those pages.
LEMMA LastPage ==
  ASSUME NEW n \in 1 .. PayloadWords, NEW t \in Nat, Boundary(t), n <= t,
         NEW i \in Words, i \div PageWords <= (n - 1) \div PageWords
  PROVE  i < t
<1>1. PageWords \in Nat \ {0} /\ PayloadWords \in Nat /\ i \in Nat
      /\ n - 1 \in Words /\ n - 1 \in Nat
  BY WordFacts DEF Words
<1> DEFINE k == (n - 1) \div PageWords
           q == i \div PageWords
<1>2. k \in Nat /\ q \in Nat
  BY <1>1
<1>3. /\ i < k * PageWords <=> q < k
      /\ n - 1 < k * PageWords <=> k < k
  BY <1>1, <1>2, Pages
<1>4. CASE q = k
  BY <1>1, <1>4 DEF Boundary
<1>5. CASE q < k
  <2>1. k * PageWords \in Int
    BY <1>1, <1>2
  <2>2. i < k * PageWords /\ ~ (n - 1 < k * PageWords)
    BY <1>2, <1>3, <1>5
  <2> QED BY <1>1, <2>1, <2>2
<1> QED BY <1>2, <1>4, <1>5

LEMMA CopiesExactly == PieceInv => CopyIsExact
<1> SUFFICES ASSUME PieceInv, pc = "copy", index = img_size
             PROVE  CopyIsExact
  BY DEF CopyIsExact
<1>1. /\ img_size > 0 /\ HeaderEnd <= img_offset
      /\ img_offset + img_size <= HeaderEnd + PayloadWords
      /\ img_size \in 1 .. PayloadWords /\ PayloadWords \in Nat
  BY WordFacts, Addresses DEF PieceInv, IInv, Validated, TypeOK, UInt32
<1>2. PICK d \in Deposits : Uses(d)
  BY DEF PieceInv, InUse
<1>3. PICK t \in Nat : CopiedTo(t)
  BY DEF PieceInv, CopyStage
<1>4. ASSUME NEW i \in Words,
             i \div PageWords <= (img_size - 1) \div PageWords
      PROVE  payload[i] = IF i < img_size THEN cells[img_offset + i] ELSE Erased
  <2>1. i < t
    BY <1>1, <1>3, <1>4, LastPage DEF CopiedTo
  <2> QED BY <1>3, <2>1 DEF CopiedTo
<1>5. ASSUME NEW i \in 0 .. img_size - 1
      PROVE  spi_sram_read(d.cells, d.header.offset, d.header.size)[i]
               = payload[i]
  <2>1. i \in Words /\ i < img_size /\ img_size <= t
    BY <1>1, <1>3 DEF Words, CopiedTo
  <2>2. i < t
    BY <1>1, <2>1 DEF Words
  <2>3. payload[i] = cells[img_offset + i]
    BY <1>3, <2>1, <2>2 DEF CopiedTo
  <2>4. spi_sram_read(d.cells, d.header.offset, d.header.size)[i]
          = d.cells[d.header.offset + i]
    BY <1>2, ValidFits, BootAssumption DEF Uses
  <2> QED BY <1>2, <2>3, <2>4 DEF Uses
<1>6. validate_checksum(payload, 0, img_size)
  <2>1. validate_checksum(spi_sram_read(d.cells, d.header.offset,
                                        d.header.size), 0, img_size)
    BY <1>2 DEF Uses, ImageIsValid
  <2> QED BY <1>1, <1>5, <2>1, SameSum
<1> QED BY <1>1, <1>4, <1>6 DEF CopyIsExact, Words

\* When the copy loop has gone through, the payload holds the image that was
\* validated, word for word and with its checksum, from within the region for
\* images, for every header a 32-bit offset and size can make and whatever
\* interrupted main() before (main.c:301-342, spi_sram_image.c:8-53).
THEOREM CopiesAreExact == Spec => []CopyIsExact
  BY InitPiece, StepPiece, CopiesExactly, PTL DEF Spec
=============================================================================
