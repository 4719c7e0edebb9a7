--------------------------- MODULE SafeWriteProofs ---------------------------
(***************************************************************************)
(* The build with ENABLE_SAFEWRITE: flash never holds parts of the old     *)
(* application and of a downloaded one together, for every flash layout,   *)
(* every set of buffers and wherever power fails.                          *)
(***************************************************************************)
EXTENDS DfuProofs

\* Nothing of the old application is left; nothing was downloaded yet.
NoOld(f) == \A c \in Cells : f[c] # OldApp
NoNew(f) == \A c \in Cells : f[c] \in {Erased, Garbage, BootCode, OldApp}

Downloaded == (Images \cup {ZeroBuf}) \X (0 .. PageSize - 1)

\* The inductive invariant.  check_do_erase remembers in a static that it has
\* wiped the payload: from then on nothing of the old application is left,
\* and no block is erased for or programmed before.
MixInv ==
  /\ TypeOK /\ Keeps(flash)
  /\ NoOld(flash) \/ NoNew(flash)
  /\ erased => NoOld(flash)
  /\ at = "execute" /\ WantsErase => erased
  /\ at = "program" => Accepted /\ erased

-----------------------------------------------------------------------------
\* Erasing leaves no byte but those it found and erased ones.
LEMMA EraseAdds ==
  ASSUME NEW f, NEW a, NoOld(f)
  PROVE  NoOld(flash_erase_page(f, a))
  BY OldAppAssumption DEF NoOld, flash_erase_page

\* The wipe leaves nothing of the old application.
LEMMA WipeClears ==
  ASSUME NEW f, Keeps(f)
  PROVE  NoOld(flash_erase_payload(f))
<1>1. \A c \in Cells : c \in PayloadCells \/ c \in BootCells
  BY Layout DEF Cells, PayloadCells, BootCells
<1> QED
  BY <1>1, OldAppAssumption DEF NoOld, Keeps, flash_erase_payload

\* Programming adds downloaded bytes only.
LEMMA ProgramAdds ==
  ASSUME TypeOK, NEW f, NoOld(f), NEW k \in Nat, 2 * k <= PageSize
  PROVE  NoOld(flash_program_buffer(f, Target, Data, k))
<1> SUFFICES ASSUME NEW c \in Cells
             PROVE  flash_program_buffer(f, Target, Data, k)[c] # OldApp
  BY DEF NoOld
<1>1. ASSUME Target <= c, c < Target + 2 * k
      PROVE  Data[c - Target] # OldApp
  <2>1. c \in Int /\ Target \in Int
    <3>1. Target \in Int
      BY BlockTypes, Addresses
    <3> QED
      BY <3>1, Layout DEF Cells
  <2>2. c - Target \in 0 .. PageSize - 1
    BY <1>1, <2>1, Layout
  <2>3. prog.buf.id \in Images \cup {ZeroBuf}
    BY BlockTypes
  <2> QED
    BY <2>2, <2>3, OldAppAssumption DEF Data
<1> QED
  BY <1>1 DEF flash_program_buffer, NoOld

\* Power that fails in the wipe leaves each byte as it was, erased or garbage.
LEMMA TornWipeMixes ==
  ASSUME NEW f \in TornWipe
  PROVE  \A c \in Cells : f[c] \in {Erased, Garbage, flash[c]}
  BY Zenon DEF TornWipe

\* Whatever moment power fails at.
LEMMA TornMixes ==
  ASSUME MixInv, NEW f \in Torn
  PROVE  NoOld(f) \/ NoNew(f)
<1> TypeOK
  BY DEF MixInv
<1>1. CASE f = flash
  BY <1>1 DEF MixInv
<1>2. CASE f \in TornWipe
  BY <1>2, TornWipeMixes, OldAppAssumption DEF MixInv, NoOld, NoNew
<1>3. CASE at = "execute" /\ f \in TornErase
  <2>1. CASE Accepted
    <3>1. NoOld(flash)
      BY <1>3, <2>1 DEF MixInv, Accepted
    <3> QED
      BY <1>3, <3>1, OldAppAssumption DEF TornErase, NoOld
  <2>2. CASE ~Accepted
    <3>1. f = [c \in Cells |-> flash[c]]
      BY <1>3, <2>2 DEF TornErase
    <3> QED
      BY <3>1 DEF MixInv, NoOld, NoNew
  <2> QED
    BY <2>1, <2>2
<1>4. CASE at = "program" /\ f \in TornProgram
  <2>1. NoOld(flash)
    BY <1>4 DEF MixInv
  <2>2. PICK k \in 0 .. (prog.len \div 2) - 1 :
          f = [c \in Cells |->
                 IF /\ c \in HalfWord(Target, Target + 2 * k)
                    /\ flash_program_buffer(flash, Target, Data, k)[c] = Erased
                 THEN Garbage
                 ELSE flash_program_buffer(flash, Target, Data, k)[c]]
    BY <1>4, Zenon DEF TornProgram
  <2>3. k \in Nat /\ 2 * k <= PageSize
    <3>1. prog.len \div 2 \in Nat /\ 2 * (prog.len \div 2) <= PageSize
      BY BlockTypes, HalfWords
    <3> QED
      BY <3>1, Layout
  <2>4. NoOld(flash_program_buffer(flash, Target, Data, k))
    BY <2>1, <2>3, ProgramAdds
  <2> QED
    BY <2>2, <2>4, OldAppAssumption DEF NoOld
<1> QED
  BY <1>1, <1>2, <1>3, <1>4 DEF Torn, Running

-----------------------------------------------------------------------------
LEMMA InitMixInv == Init => MixInv
<1> SUFFICES ASSUME Init PROVE MixInv
  OBVIOUS
<1>1. TypeOK /\ Keeps(flash)
  BY InitTypeOK, InitBootInv DEF BootInv
<1>2. NoNew(flash) /\ erased = FALSE /\ at = "poll"
  BY DEF Init, Fresh, NoNew
<1> QED
  BY <1>1, <1>2 DEF MixInv

LEMMA NextMixInv ==
  ASSUME ENABLE_SAFEWRITE = TRUE, MixInv, Next
  PROVE  MixInv'
<1>1. TypeOK /\ Keeps(flash) /\ BootInv
  BY DEF MixInv, BootInv
<1>2. TypeOK' /\ Keeps(flash')
  BY <1>1, NextTypeOK, NextBootInv DEF BootInv, Keeps
<1>3. ASSUME UNCHANGED flash, at' \notin {"execute", "program"},
             erased' => erased
      PROVE  MixInv'
  BY <1>2, <1>3 DEF MixInv, NoOld, NoNew, Keeps
<1>4. CASE Request \/ DataStage \/ StatusStage
  <2>1. UNCHANGED <<flash, erased, at>> /\ at = "poll"
    BY <1>4, Zenon
       DEF Request, Dnload, DnloadZero, ClrStatus, Abort, Detach, Upload,
           UploadFault, GetStatus, GetState, OtherSetup, DataStage,
           StatusStage, Handled, Polling, memory, machine
  <2> QED
    BY <1>3, <2>1
<1>5. CASE StartBlock
  <2>1. UNCHANGED <<flash, erased, prog>>
    BY <1>5 DEF StartBlock
  <2>2. at' = "execute" /\ WantsErase => erased
    BY <1>5 DEF StartBlock, WipesFirst, WantsErase
  <2>3. at' # "program"
    BY <1>5 DEF StartBlock
  <2>4. WantsErase' = WantsErase
    BY <2>1 DEF WantsErase
  <2> QED
    BY <1>2, <2>1, <2>2, <2>3, <2>4 DEF MixInv, NoOld, NoNew, Keeps
<1>6. CASE Wipe
  <2>1. NoOld(flash')
    BY <1>1, <1>6, WipeClears DEF Wipe
  <2>2. erased' = TRUE /\ at' = "execute"
    BY <1>6 DEF Wipe
  <2> QED
    BY <1>2, <2>1, <2>2 DEF MixInv, NoOld, NoNew, Keeps
<1>7. CASE SetAddr \/ Ignore
  <2>1. UNCHANGED <<flash, erased>> /\ at' = "poll"
    BY <1>7 DEF SetAddr, Ignore, BlockDone
  <2> QED
    BY <1>3, <2>1
<1>8. CASE ErasePage \/ StartWrite
  <2>1. Accepted /\ at = "execute" /\ UNCHANGED erased
    BY <1>8 DEF ErasePage, StartWrite, Running
  <2>2. erased /\ NoOld(flash)
    BY <2>1 DEF MixInv, Accepted
  <2>3. NoOld(flash')
    BY <1>8, <2>2, EraseAdds DEF ErasePage, StartWrite, EnsureErased
  <2>4. at' = "poll" \/ at' = "program"
    BY <1>8 DEF ErasePage, StartWrite, BlockDone
  <2>5. Accepted'
    BY <1>8, <2>1 DEF ErasePage, StartWrite, Accepted, WantsErase, InPayload,
                      Target, Extent, BlockAddr
  <2> QED
    BY <1>2, <2>1, <2>2, <2>3, <2>4, <2>5 DEF MixInv, NoOld, Keeps
<1>9. CASE Program
  <2>1. NoOld(flash) /\ UNCHANGED erased /\ at' = "poll"
    BY <1>9 DEF MixInv, Program, Running, BlockDone
  <2>2. prog.len \div 2 \in Nat /\ 2 * (prog.len \div 2) <= PageSize
    BY <1>1, BlockTypes, HalfWords
  <2>3. NoOld(flash')
    BY <1>1, <1>9, <2>1, <2>2, ProgramAdds DEF Program
  <2> QED
    BY <1>2, <2>1, <2>3 DEF MixInv, NoOld, Keeps
<1>10. CASE BlockFault \/ Restart
  <2>1. UNCHANGED <<flash, prog, at, erased>>
    BY <1>10 DEF BlockFault, Restart, memory, protocol
  <2>2. WantsErase' = WantsErase /\ Accepted' = Accepted
    BY <2>1 DEF Accepted, WantsErase, InPayload, Target, Extent, BlockAddr
  <2> QED
    BY <1>2, <2>1, <2>2 DEF MixInv, NoOld, NoNew, Keeps
<1>11. CASE Outage
  <2>1. flash' \in Torn /\ erased' = FALSE /\ at' = "poll"
    BY <1>11 DEF Outage, Fresh
  <2>2. NoOld(flash') \/ NoNew(flash')
    BY <2>1, TornMixes
  <2> QED
    BY <1>2, <2>1, <2>2 DEF MixInv, NoOld, NoNew, Keeps
<1>12. CASE ManifestReset
  <2>1. UNCHANGED flash /\ erased' = FALSE /\ at' = "poll"
    BY <1>12 DEF ManifestReset, Fresh
  <2> QED
    BY <1>3, <2>1
<1> QED
  BY <1>4, <1>5, <1>6, <1>7, <1>8, <1>9, <1>10, <1>11, <1>12
     DEF Next, Transfer, Block

\* With ENABLE_SAFEWRITE the wipe before the first erase or write
\* (check_do_erase) keeps old and new code apart, outages included.
THEOREM ImagesNeverMix ==
  ASSUME ENABLE_SAFEWRITE = TRUE
  PROVE  Spec => []NoMixedImages
<1>1. MixInv /\ [Next]_vars => MixInv'
  <2>1. CASE Next
    BY <2>1, NextMixInv
  <2>2. CASE UNCHANGED vars
    BY <2>2 DEF MixInv, TypeOK, Keeps, NoOld, NoNew, Accepted, WantsErase,
                InPayload, Target, Extent, BlockAddr, vars, protocol, memory,
                machine
  <2> QED
    BY <2>1, <2>2
<1>2. MixInv => NoMixedImages
  BY DEF MixInv, NoOld, NoNew, NoMixedImages
<1> QED
  BY <1>1, <1>2, InitMixInv, PTL DEF Spec
=============================================================================
