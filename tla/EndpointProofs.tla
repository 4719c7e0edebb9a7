--------------------------- MODULE EndpointProofs ---------------------------
(***************************************************************************)
(* Endpoint 0, for every set of requests.  First what the macros of usb.h  *)
(* do to its register, for every value of it, alone and with the           *)
(* peripheral in between.  Then the types, that packets are copied whole,  *)
(* and that the receiver is never shut for good, whatever the host does.   *)
(* Then the places of a transfer with a patient host, and what follows     *)
(* from them: nobody waits, data arrives whole, no event is dropped.       *)
(* Last the copies to and from packet memory, for packets of any length.   *)
(***************************************************************************)
EXTENDS Endpoint, FiniteSetTheorems, SequenceTheorems, WellFoundedInduction,
        TLAPS

Bits == NTOGGLE \cup TOGGLE

LEMMA BitsDiffer ==
  /\ Bits = {"CTR_RX", "CTR_TX", "SETUP", "TYPE1", "TYPE0", "DTOG_RX",
             "DTOG_TX", "RX1", "RX0", "TX1", "TX0"}
  /\ RX_STAT \cap TX_STAT = {} /\ RX_STAT \cap DTOGS = {}
  /\ TX_STAT \cap DTOGS = {} /\ NTOGGLE \cap TOGGLE = {}
  BY DEF Bits, NTOGGLE, TOGGLE, CTRS, TYPE, DTOGS, RX_STAT, TX_STAT

\* USB_SET_EP_RX_STAT and USB_SET_EP_TX_STAT, with nothing in between, set
\* the status and change no other bit, whatever the register held
\* (usb.h:461-470).
THEOREM StatusIsSetExactly ==
  ASSUME NEW old \in SUBSET Bits
  PROVE  /\ \A s \in SUBSET RX_STAT :
              Stored(old, USB_SET_EP_RX_STAT(old, s)) = (old \ RX_STAT) \cup s
         /\ \A s \in SUBSET TX_STAT :
              Stored(old, USB_SET_EP_TX_STAT(old, s)) = (old \ TX_STAT) \cup s
<1> USE DEF Bits, Stored, TOG_SET_REG_BIT_MSK_AND_SET, RX_STAT_TOG_MSK,
            TX_STAT_TOG_MSK, Xor, NTOGGLE, TOGGLE, CTRS, TYPE, DTOGS,
            RX_STAT, TX_STAT
<1>1. ASSUME NEW s \in SUBSET RX_STAT
      PROVE  Stored(old, USB_SET_EP_RX_STAT(old, s)) = (old \ RX_STAT) \cup s
  BY DEF USB_SET_EP_RX_STAT
<1>2. ASSUME NEW s \in SUBSET TX_STAT
      PROVE  Stored(old, USB_SET_EP_TX_STAT(old, s)) = (old \ TX_STAT) \cup s
  BY DEF USB_SET_EP_TX_STAT
<1> QED BY <1>1, <1>2

\* Clearing a flag or a toggle, with nothing in between, clears that bit only
\* (usb.h:473-506).
THEOREM FlagsAreClearedExactly ==
  ASSUME NEW old \in SUBSET Bits
  PROVE  /\ Stored(old, USB_CLR_EP_RX_CTR(old)) = old \ {"CTR_RX"}
         /\ Stored(old, USB_CLR_EP_TX_CTR(old)) = old \ {"CTR_TX"}
         /\ Stored(old, USB_CLR_EP_RX_DTOG(old)) = old \ {"DTOG_RX"}
         /\ Stored(old, USB_CLR_EP_TX_DTOG(old)) = old \ {"DTOG_TX"}
  BY DEF Bits, Stored, CLR_REG_BIT_MSK_AND_SET, Xor, NTOGGLE, TOGGLE, CTRS,
         TYPE, DTOGS, RX_STAT, TX_STAT, USB_CLR_EP_RX_CTR, USB_CLR_EP_TX_CTR,
         USB_CLR_EP_RX_DTOG, USB_CLR_EP_TX_DTOG

\* Whatever the peripheral made of the register since a macro read it: setting
\* a status loses no flag, and clearing a flag not the other one; none of
\* these disturbs a data toggle or the other direction's status.
THEOREM RacesAreHarmless ==
  ASSUME NEW old \in SUBSET Bits, NEW now \in SUBSET Bits
  PROVE  /\ \A s \in SUBSET RX_STAT :
              Stored(now, USB_SET_EP_RX_STAT(old, s))
                \cap UNION {CTRS, DTOGS, TX_STAT}
                = now \cap UNION {CTRS, DTOGS, TX_STAT}
         /\ \A s \in SUBSET TX_STAT :
              Stored(now, USB_SET_EP_TX_STAT(old, s))
                \cap UNION {CTRS, DTOGS, RX_STAT}
                = now \cap UNION {CTRS, DTOGS, RX_STAT}
         /\ Stored(now, USB_CLR_EP_RX_CTR(old)) \cap ({"CTR_TX"} \cup TOGGLE)
              = now \cap ({"CTR_TX"} \cup TOGGLE)
         /\ Stored(now, USB_CLR_EP_TX_CTR(old)) \cap ({"CTR_RX"} \cup TOGGLE)
              = now \cap ({"CTR_RX"} \cup TOGGLE)
<1> USE DEF Bits, Stored, TOG_SET_REG_BIT_MSK_AND_SET, RX_STAT_TOG_MSK,
            TX_STAT_TOG_MSK, CLR_REG_BIT_MSK_AND_SET, Xor, NTOGGLE, TOGGLE,
            CTRS, TYPE, DTOGS, RX_STAT, TX_STAT
<1>1. ASSUME NEW s \in SUBSET RX_STAT
      PROVE  Stored(now, USB_SET_EP_RX_STAT(old, s))
               \cap UNION {CTRS, DTOGS, TX_STAT}
               = now \cap UNION {CTRS, DTOGS, TX_STAT}
  BY DEF USB_SET_EP_RX_STAT
<1>2. ASSUME NEW s \in SUBSET TX_STAT
      PROVE  Stored(now, USB_SET_EP_TX_STAT(old, s))
               \cap UNION {CTRS, DTOGS, RX_STAT}
               = now \cap UNION {CTRS, DTOGS, RX_STAT}
  BY DEF USB_SET_EP_TX_STAT
<1>3. Stored(now, USB_CLR_EP_RX_CTR(old)) \cap ({"CTR_TX"} \cup TOGGLE)
        = now \cap ({"CTR_TX"} \cup TOGGLE)
  BY DEF USB_CLR_EP_RX_CTR
<1>4. Stored(now, USB_CLR_EP_TX_CTR(old)) \cap ({"CTR_RX"} \cup TOGGLE)
        = now \cap ({"CTR_RX"} \cup TOGGLE)
  BY DEF USB_CLR_EP_TX_CTR
<1> QED BY <1>1, <1>2, <1>3, <1>4

-----------------------------------------------------------------------------
(***************************************************************************)
(* What a handler may have left to do.  The steps by name, and the lists   *)
(* of them.                                                                *)
(***************************************************************************)
Look    == Do("which")
Fetch   == Do("read")
ToSetup == Do("setup")
ToData  == Do("data")
ToIn    == Do("in")
Half1   == <<"copy", 1>>
Half2   == <<"copy", 2>>
Put(p)  == <<"write", p>>

Ctr      == Do("clr_rx_ctr")
CtrTx    == Do("clr_tx_ctr")
Nak      == <<"set_rx", RX.nak>>
Open     == <<"set_rx", RX.valid>>
StallRx  == <<"set_rx", RX.stall>>
NakTx    == <<"set_tx", TX.nak>>
Send     == <<"set_tx", TX.valid>>
StallTx  == <<"set_tx", TX.stall>>
ClrRx    == Do("clr_rx_dtog")
ClrTx    == Do("clr_tx_dtog")
SetAddr  == Do("set_addr")
SetType  == Do("set_type")
Enabling == Do("enable")

\* _usbd_ep_setup.
SettingUp ==
  { <<SetAddr, SetType, ClrTx, NakTx, ClrRx, Open, Enabling>>,
    <<SetType, ClrTx, NakTx, ClrRx, Open, Enabling>>,
    <<ClrTx, NakTx, ClrRx, Open, Enabling>>,
    <<NakTx, ClrRx, Open, Enabling>>, <<ClrRx, Open, Enabling>>,
    <<Open, Enabling>>, <<Enabling>> }

\* A reception, until it has been copied; then, until it is dispatched.
Looking    == { <<Look>>, <<Nak, Fetch, ToSetup>>, <<Fetch, ToSetup>>,
                <<Fetch, ToData>>, <<Fetch>> }
Copying    == { <<Half1, Half2, Ctr, ToSetup>>, <<Half1, Half2, Ctr, ToData>>,
                <<Half1, Half2, Ctr, Open, ToData>> }
HalfCopied == { <<Half2, Ctr, ToSetup>>, <<Half2, Ctr, ToData>>,
                <<Half2, Ctr, Open, ToData>> }
Copied     == { <<Ctr, ToSetup>>, <<Ctr, ToData>>, <<Ctr, Open, ToData>>,
                <<ToSetup>>, <<Open, ToData>>, <<ToData>> }

\* The status stage of an answer, the receiver, a packet that was sent.
Finishing == { <<>>, <<Ctr>>, <<Ctr, Open>>, <<Open>>, <<CtrTx, ToIn>>,
               <<ToIn>> }
\* _stall_transaction; a packet to send.
Stalling  == { <<StallTx, StallRx>>, <<StallRx>> }
Writing   == { <<Send>> } \cup { <<Put(p)>> : p \in Packet }

\* SET_FEATURE and CLEAR_FEATURE of ENDPOINT_HALT, of either direction.
Halting     == { <<StallTx, StallRx, Put(Empty)>>, <<StallRx, Put(Empty)>> }
Unhalting   == { <<NakTx, ClrRx, Open, Put(Empty)>>,
                 <<ClrRx, Open, Put(Empty)>>, <<Open, Put(Empty)>> }
UnhaltingIn == { <<NakTx, ClrTx, Put(Empty)>>, <<ClrTx, Put(Empty)>> }

\* The name of the next step.
Now == IF todo = <<>> THEN "poll" ELSE Head(todo)[1]

Plain == UNION { SettingUp, Finishing, Stalling, Writing, Halting, Unhalting,
                 UnhaltingIn }

LEMMA Ops ==
  /\ Look[1] = "which" /\ Fetch[1] = "read" /\ ToSetup[1] = "setup"
  /\ ToData[1] = "data" /\ ToIn[1] = "in"
  /\ Half1[1] = "copy" /\ Half1[2] = 1 /\ Half2[1] = "copy" /\ Half2[2] = 2
  /\ \A p : Put(p)[1] = "write" /\ Put(p)[2] = p
  /\ Ctr[1] = "clr_rx_ctr" /\ CtrTx[1] = "clr_tx_ctr"
  /\ Nak[1] = "set_rx" /\ Nak[2] = RX.nak
  /\ Open[1] = "set_rx" /\ Open[2] = RX.valid
  /\ StallRx[1] = "set_rx" /\ StallRx[2] = RX.stall
  /\ NakTx[1] = "set_tx" /\ NakTx[2] = TX.nak
  /\ Send[1] = "set_tx" /\ Send[2] = TX.valid
  /\ StallTx[1] = "set_tx" /\ StallTx[2] = TX.stall
  /\ ClrRx[1] = "clr_rx_dtog" /\ ClrTx[1] = "clr_tx_dtog"
  /\ SetAddr[1] = "set_addr" /\ SetType[1] = "set_type"
  /\ Enabling[1] = "enable"
  BY DEF Look, Fetch, ToSetup, ToData, ToIn, Half1, Half2, Put, Ctr, CtrTx,
         Nak, Open, StallRx, NakTx, Send, StallTx, ClrRx, ClrTx, SetAddr,
         SetType, Enabling, Do

\* What a list of steps begins with, and what it leaves.
Runs(name, op, rest) ==
  /\ todo # <<>> /\ Now = name /\ Head(todo) = op /\ op[1] = name
  /\ Tail(todo) = rest

LEMMA SettingUpRuns ==
  ASSUME todo \in SettingUp
  PROVE  \/ \E r \in SettingUp :
              \/ Runs("set_addr", SetAddr, r) \/ Runs("set_type", SetType, r)
              \/ Runs("clr_tx_dtog", ClrTx, r) \/ Runs("set_tx", NakTx, r)
              \/ Runs("clr_rx_dtog", ClrRx, r)
              \/ r = <<Enabling>> /\ Runs("set_rx", Open, r)
         \/ todo = <<Enabling>> /\ Runs("enable", Enabling, <<>>)
<1>1. CASE todo = <<SetAddr, SetType, ClrTx, NakTx, ClrRx, Open, Enabling>>
  BY <1>1, Ops DEF Runs, Now, SettingUp
<1>2. CASE todo = <<SetType, ClrTx, NakTx, ClrRx, Open, Enabling>>
  BY <1>2, Ops DEF Runs, Now, SettingUp
<1>3. CASE todo = <<ClrTx, NakTx, ClrRx, Open, Enabling>>
  BY <1>3, Ops DEF Runs, Now, SettingUp
<1>4. CASE todo = <<NakTx, ClrRx, Open, Enabling>>
  BY <1>4, Ops DEF Runs, Now, SettingUp
<1>5. CASE todo = <<ClrRx, Open, Enabling>>
  BY <1>5, Ops DEF Runs, Now, SettingUp
<1>6. CASE todo = <<Open, Enabling>>
  BY <1>6, Ops DEF Runs, Now, SettingUp
<1>7. CASE todo = <<Enabling>>
  BY <1>7, Ops DEF Runs, Now, SettingUp
<1> QED BY <1>1, <1>2, <1>3, <1>4, <1>5, <1>6, <1>7 DEF SettingUp

LEMMA LookingRuns ==
  ASSUME todo \in Looking
  PROVE  \/ todo = <<Look>> /\ Runs("which", Look, <<>>)
         \/ /\ todo = <<Nak, Fetch, ToSetup>>
            /\ Runs("set_rx", Nak, <<Fetch, ToSetup>>)
         \/ todo = <<Fetch, ToSetup>> /\ Runs("read", Fetch, <<ToSetup>>)
         \/ todo = <<Fetch, ToData>> /\ Runs("read", Fetch, <<ToData>>)
         \/ todo = <<Fetch>> /\ Runs("read", Fetch, <<>>)
<1>1. CASE todo = <<Look>>
  BY <1>1, Ops DEF Runs, Now
<1>2. CASE todo = <<Nak, Fetch, ToSetup>>
  BY <1>2, Ops DEF Runs, Now
<1>3. CASE todo = <<Fetch, ToSetup>>
  BY <1>3, Ops DEF Runs, Now
<1>4. CASE todo = <<Fetch, ToData>>
  BY <1>4, Ops DEF Runs, Now
<1>5. CASE todo = <<Fetch>>
  BY <1>5, Ops DEF Runs, Now
<1> QED BY <1>1, <1>2, <1>3, <1>4, <1>5 DEF Looking

LEMMA CopyingRuns ==
  ASSUME todo \in Copying
  PROVE  \E r \in HalfCopied : Runs("copy", Half1, r)
<1>1. CASE todo = <<Half1, Half2, Ctr, ToSetup>>
  BY <1>1, Ops DEF Runs, Now, HalfCopied
<1>2. CASE todo = <<Half1, Half2, Ctr, ToData>>
  BY <1>2, Ops DEF Runs, Now, HalfCopied
<1>3. CASE todo = <<Half1, Half2, Ctr, Open, ToData>>
  BY <1>3, Ops DEF Runs, Now, HalfCopied
<1> QED BY <1>1, <1>2, <1>3 DEF Copying

LEMMA HalfCopiedRuns ==
  ASSUME todo \in HalfCopied
  PROVE  \E r \in Copied : Runs("copy", Half2, r)
<1>1. CASE todo = <<Half2, Ctr, ToSetup>>
  BY <1>1, Ops DEF Runs, Now, Copied
<1>2. CASE todo = <<Half2, Ctr, ToData>>
  BY <1>2, Ops DEF Runs, Now, Copied
<1>3. CASE todo = <<Half2, Ctr, Open, ToData>>
  BY <1>3, Ops DEF Runs, Now, Copied
<1> QED BY <1>1, <1>2, <1>3 DEF HalfCopied

LEMMA CopiedRuns ==
  ASSUME todo \in Copied
  PROVE  \/ \E r \in {<<ToSetup>>, <<ToData>>, <<Open, ToData>>} :
              Runs("clr_rx_ctr", Ctr, r)
         \/ todo = <<Open, ToData>> /\ Runs("set_rx", Open, <<ToData>>)
         \/ todo = <<ToSetup>> /\ Runs("setup", ToSetup, <<>>)
         \/ todo = <<ToData>> /\ Runs("data", ToData, <<>>)
<1>1. CASE todo = <<Ctr, ToSetup>>
  BY <1>1, Ops DEF Runs, Now
<1>2. CASE todo = <<Ctr, ToData>>
  BY <1>2, Ops DEF Runs, Now
<1>3. CASE todo = <<Ctr, Open, ToData>>
  BY <1>3, Ops DEF Runs, Now
<1>4. CASE todo = <<Open, ToData>>
  BY <1>4, Ops DEF Runs, Now
<1>5. CASE todo = <<ToSetup>>
  BY <1>5, Ops DEF Runs, Now
<1>6. CASE todo = <<ToData>>
  BY <1>6, Ops DEF Runs, Now
<1> QED BY <1>1, <1>2, <1>3, <1>4, <1>5, <1>6 DEF Copied

LEMMA FinishingRuns ==
  ASSUME todo \in Finishing
  PROVE  \/ todo = <<>> /\ Now = "poll"
         \/ \E r \in {<<>>, <<Open>>} : Runs("clr_rx_ctr", Ctr, r)
         \/ todo = <<Open>> /\ Runs("set_rx", Open, <<>>)
         \/ todo = <<CtrTx, ToIn>> /\ Runs("clr_tx_ctr", CtrTx, <<ToIn>>)
         \/ todo = <<ToIn>> /\ Runs("in", ToIn, <<>>)
<1>1. CASE todo = <<>>
  BY <1>1 DEF Now
<1>2. CASE todo = <<Ctr>>
  BY <1>2, Ops DEF Runs, Now
<1>3. CASE todo = <<Ctr, Open>>
  BY <1>3, Ops DEF Runs, Now
<1>4. CASE todo = <<Open>>
  BY <1>4, Ops DEF Runs, Now
<1>5. CASE todo = <<CtrTx, ToIn>>
  BY <1>5, Ops DEF Runs, Now
<1>6. CASE todo = <<ToIn>>
  BY <1>6, Ops DEF Runs, Now
<1> QED BY <1>1, <1>2, <1>3, <1>4, <1>5, <1>6 DEF Finishing

LEMMA StallingRuns ==
  ASSUME todo \in Stalling
  PROVE  \/ Runs("set_tx", StallTx, <<StallRx>>)
         \/ todo = <<StallRx>> /\ Runs("set_rx", StallRx, <<>>)
<1>1. CASE todo = <<StallTx, StallRx>>
  BY <1>1, Ops DEF Runs, Now
<1>2. CASE todo = <<StallRx>>
  BY <1>2, Ops DEF Runs, Now
<1> QED BY <1>1, <1>2 DEF Stalling

LEMMA WritingRuns ==
  ASSUME todo \in Writing
  PROVE  \/ todo = <<Send>> /\ Runs("set_tx", Send, <<>>)
         \/ \E p \in Packet : todo = <<Put(p)>> /\ Runs("write", Put(p), <<>>)
<1>1. CASE todo = <<Send>>
  BY <1>1, Ops DEF Runs, Now
<1>2. ASSUME NEW p \in Packet, todo = <<Put(p)>>
      PROVE  Runs("write", Put(p), <<>>)
  <2>1. Head(todo) = Put(p) /\ Tail(todo) = <<>> /\ todo # <<>>
    BY <1>2
  <2>2. Put(p)[1] = "write"
    BY Ops
  <2> QED BY <2>1, <2>2 DEF Runs, Now
<1> QED BY <1>1, <1>2 DEF Writing

LEMMA HaltingRuns ==
  ASSUME todo \in Halting
  PROVE  \/ Runs("set_tx", StallTx, <<StallRx, Put(Empty)>>)
         \/ /\ todo = <<StallRx, Put(Empty)>>
            /\ Runs("set_rx", StallRx, <<Put(Empty)>>)
<1>1. CASE todo = <<StallTx, StallRx, Put(Empty)>>
  BY <1>1, Ops DEF Runs, Now
<1>2. CASE todo = <<StallRx, Put(Empty)>>
  BY <1>2, Ops DEF Runs, Now
<1> QED BY <1>1, <1>2 DEF Halting

LEMMA UnhaltingRuns ==
  ASSUME todo \in Unhalting
  PROVE  \/ /\ todo = <<NakTx, ClrRx, Open, Put(Empty)>>
            /\ Runs("set_tx", NakTx, <<ClrRx, Open, Put(Empty)>>)
         \/ /\ todo = <<ClrRx, Open, Put(Empty)>>
            /\ Runs("clr_rx_dtog", ClrRx, <<Open, Put(Empty)>>)
         \/ /\ todo = <<Open, Put(Empty)>>
            /\ Runs("set_rx", Open, <<Put(Empty)>>)
<1>1. CASE todo = <<NakTx, ClrRx, Open, Put(Empty)>>
  BY <1>1, Ops DEF Runs, Now
<1>2. CASE todo = <<ClrRx, Open, Put(Empty)>>
  BY <1>2, Ops DEF Runs, Now
<1>3. CASE todo = <<Open, Put(Empty)>>
  BY <1>3, Ops DEF Runs, Now
<1> QED BY <1>1, <1>2, <1>3 DEF Unhalting

LEMMA UnhaltingInRuns ==
  ASSUME todo \in UnhaltingIn
  PROVE  \/ /\ todo = <<NakTx, ClrTx, Put(Empty)>>
            /\ Runs("set_tx", NakTx, <<ClrTx, Put(Empty)>>)
         \/ /\ todo = <<ClrTx, Put(Empty)>>
            /\ Runs("clr_tx_dtog", ClrTx, <<Put(Empty)>>)
<1>1. CASE todo = <<NakTx, ClrTx, Put(Empty)>>
  BY <1>1, Ops DEF Runs, Now
<1>2. CASE todo = <<ClrTx, Put(Empty)>>
  BY <1>2, Ops DEF Runs, Now
<1> QED BY <1>1, <1>2 DEF UnhaltingIn

-----------------------------------------------------------------------------
(***************************************************************************)
(* The types, the forms a handler may be left in, and the number of        *)
(* packets.  A reception stays flagged from when it is seen until it has   *)
(* been copied, so the peripheral takes no other; what is left of the      *)
(* handler says how far the copying has come.                              *)
(***************************************************************************)
States == {"IDLE", "DATA_IN", "LAST_DATA_IN", "STATUS_IN", "DATA_OUT",
           "LAST_DATA_OUT", "STATUS_OUT"}
Turns  == {"in", "out", "failed"}

PeripheralTypes ==
  /\ reg \in SUBSET Bits /\ ef \in BOOLEAN /\ reset_flag \in BOOLEAN
  /\ pma_rx \in Packet /\ pma_tx \in Packet
DriverTypes ==
  /\ usb_fsm_state \in States /\ usb_force_nak \in BOOLEAN
  /\ usb_req \in Requests \cup {NoRequest} /\ buf \in [1 .. 2 -> Packet]
  /\ chunk \in Nat
LoadTypes ==
  loaded = {} \/ (AtMacro /\ \E old \in SUBSET Bits : loaded = {old})
HostTypes ==
  /\ asked \in Requests \cup {NoRequest} /\ stages \in Seq(Turns)
  /\ toggle \in BOOLEAN /\ moved \in Nat /\ overtaken \in BOOLEAN

Types == PeripheralTypes /\ DriverTypes /\ LoadTypes /\ HostTypes

Shape ==
  \/ todo \in Plain
  \/ todo \in Looking \cup Copying /\ "CTR_RX" \in reg
  \/ todo \in HalfCopied /\ "CTR_RX" \in reg /\ buf[1] = pma_rx
  \/ todo \in Copied /\ buf[1] = buf[2]

\* The name of the last step.
Goal == IF todo = <<>> THEN "poll" ELSE todo[Len(todo)][1]

\* The state the driver is in tells the request it serves and how much of its
\* data it has moved.
Counts ==
  /\ usb_fsm_state = "DATA_IN" =>
       usb_req.kind = "read" /\ chunk < usb_req.packets
  /\ usb_fsm_state = "LAST_DATA_IN" =>
       usb_req.kind = "read" /\ chunk = usb_req.packets
  /\ usb_fsm_state = "DATA_OUT" =>
       usb_req.kind = "write" /\ chunk + 1 < usb_req.packets
  /\ usb_fsm_state = "LAST_DATA_OUT" =>
       usb_req.kind = "write" /\ chunk + 1 = usb_req.packets
  /\ usb_req.kind \in {"read", "write"} => chunk <= usb_req.packets
  /\ Goal = "data" => usb_fsm_state \in {"DATA_OUT", "LAST_DATA_OUT"}
  /\ Goal = "setup" => usb_force_nak

IInv == Types /\ Shape /\ Counts

LEMMA StepNow ==
  ASSUME NEW name, name # "poll"
  PROVE  Step(name) <=> Now = name
  BY DEF Step, Now

\* What a handler is left with, by what comes next.
LEMMA Finds ==
  ASSUME Shape
  PROVE  /\ Now = "which" => /\ todo = <<Look>> /\ Runs("which", Look, <<>>)
                             /\ "CTR_RX" \in reg
         /\ Now = "read" =>
              /\ "CTR_RX" \in reg
              /\ \/ todo = <<Fetch>> /\ Runs("read", Fetch, <<>>)
                 \/ todo = <<Fetch, ToSetup>> /\ Runs("read", Fetch, <<ToSetup>>)
                 \/ todo = <<Fetch, ToData>> /\ Runs("read", Fetch, <<ToData>>)
         /\ Now = "copy" =>
              /\ "CTR_RX" \in reg
              /\ \/ todo \in Copying
                 \/ todo \in HalfCopied /\ buf[1] = pma_rx
         /\ Now = "setup" => /\ todo = <<ToSetup>> /\ Runs("setup", ToSetup, <<>>)
                             /\ buf[1] = buf[2]
         /\ Now = "data" => /\ todo = <<ToData>> /\ Runs("data", ToData, <<>>)
                            /\ buf[1] = buf[2]
         /\ Now = "write" => \E p \in Packet : /\ todo = <<Put(p)>>
                                               /\ Runs("write", Put(p), <<>>)
         /\ Now = "in" => todo = <<ToIn>> /\ Runs("in", ToIn, <<>>)
         /\ Now = "enable" => /\ todo = <<Enabling>>
                              /\ Runs("enable", Enabling, <<>>)
<1>1. CASE todo \in SettingUp
  BY <1>1, SettingUpRuns DEF Runs
<1>2. CASE todo \in Finishing
  BY <1>2, FinishingRuns DEF Runs
<1>3. CASE todo \in Stalling \cup Halting
  BY <1>3, StallingRuns, HaltingRuns DEF Runs
<1>4. CASE todo \in Writing
  BY <1>4, WritingRuns DEF Runs
<1>5. CASE todo \in Unhalting \cup UnhaltingIn
  BY <1>5, UnhaltingRuns, UnhaltingInRuns DEF Runs
<1>6. CASE todo \in Looking /\ "CTR_RX" \in reg
  BY <1>6, LookingRuns DEF Runs
<1>7. CASE todo \in Copying /\ "CTR_RX" \in reg
  BY <1>7, CopyingRuns DEF Runs
<1>8. CASE todo \in HalfCopied /\ "CTR_RX" \in reg /\ buf[1] = pma_rx
  BY <1>8, HalfCopiedRuns DEF Runs
<1>9. CASE todo \in Copied /\ buf[1] = buf[2]
  BY <1>9, CopiedRuns DEF Runs
<1> QED BY <1>1, <1>2, <1>3, <1>4, <1>5, <1>6, <1>7, <1>8, <1>9
        DEF Shape, Plain

LEMMA PacketFacts == Empty \in Packet /\ NoRequest.kind = "unknown"
  BY DEF Empty, Packet, NoRequest

LEMMA RequestFacts ==
  \A r \in Requests \cup {NoRequest} :
    r.kind \in Kinds /\ r.packets \in Nat /\ r.packets > 0
  BY EndpointAssumption DEF NoRequest, Kinds

LEMMA EndpointInit == Init => IInv
<1> SUFFICES ASSUME Init PROVE IInv
  OBVIOUS
<1>1. PeripheralTypes
  BY PacketFacts, BitsDiffer
     DEF Init, PeripheralTypes, Ready, CONTROL, RX, TX, Stat
<1>2. DriverTypes
  <2>1. <<Empty, Empty>> \in [1 .. 2 -> Packet]
    BY PacketFacts
  <2>2. usb_force_nak \in BOOLEAN
    BY DEF Init
  <2> QED BY <2>1, <2>2 DEF Init, DriverTypes, States
<1>3. HostTypes /\ LoadTypes
  <2>1. toggle \in BOOLEAN /\ overtaken \in BOOLEAN
    BY DEF Init
  <2> QED BY <2>1 DEF Init, HostTypes, LoadTypes
<1>4. todo \in Plain
  BY DEF Init, Plain, Finishing
<1>5. Counts
  BY PacketFacts DEF Init, Counts, Goal
<1> QED BY <1>1, <1>2, <1>3, <1>4, <1>5 DEF IInv, Types, Shape

\* The last step stays the last one.
IsList(t) == \E S : t \in Seq(S)

LEMMA Lists ==
  /\ IsList(<<>>) /\ (\A a : IsList(<<a>>)) /\ (\A a, b : IsList(<<a, b>>))
  /\ \A a, b, c : IsList(<<a, b, c>>)
  /\ \A a, b, c, d : IsList(<<a, b, c, d>>)
  /\ \A a, b, c, d, e : IsList(<<a, b, c, d, e>>)
  /\ \A a, b, c, d, e, f : IsList(<<a, b, c, d, e, f>>)
  /\ \A a, b, c, d, e, f, g : IsList(<<a, b, c, d, e, f, g>>)
<1>1. /\ IsList(<<>>) /\ (\A a : IsList(<<a>>))
      /\ \A a, b : IsList(<<a, b>>)
  <2>1. <<>> \in Seq({}) /\ (\A a : <<a>> \in Seq({a}))
        /\ \A a, b : <<a, b>> \in Seq({a, b})
    OBVIOUS
  <2> QED BY <2>1, Zenon DEF IsList
<1>2. ASSUME NEW a, NEW b, NEW c PROVE IsList(<<a, b, c>>)
  <2>1. <<a, b, c>> \in Seq({a, b, c})
    OBVIOUS
  <2> QED BY <2>1, Zenon DEF IsList
<1>3. ASSUME NEW a, NEW b, NEW c, NEW d PROVE IsList(<<a, b, c, d>>)
  <2>1. <<a, b, c, d>> \in Seq({a, b, c, d})
    OBVIOUS
  <2> QED BY <2>1, Zenon DEF IsList
<1>4. ASSUME NEW a, NEW b, NEW c, NEW d, NEW e PROVE IsList(<<a, b, c, d, e>>)
  <2>1. <<a, b, c, d, e>> \in Seq({a, b, c, d, e})
    OBVIOUS
  <2> QED BY <2>1, Zenon DEF IsList
<1>5. ASSUME NEW a, NEW b, NEW c, NEW d, NEW e, NEW f
      PROVE  IsList(<<a, b, c, d, e, f>>)
  <2>1. <<a, b, c, d, e, f>> \in Seq({a, b, c, d, e, f})
    OBVIOUS
  <2> QED BY <2>1, Zenon DEF IsList
<1>6. ASSUME NEW a, NEW b, NEW c, NEW d, NEW e, NEW f, NEW g
      PROVE  IsList(<<a, b, c, d, e, f, g>>)
  <2>1. <<a, b, c, d, e, f, g>> \in Seq({a, b, c, d, e, f, g})
    OBVIOUS
  <2> QED BY <2>1, Zenon DEF IsList
<1> QED BY <1>1, <1>2, <1>3, <1>4, <1>5, <1>6, Zenon

LEMMA TodoIsList == Shape => IsList(todo)
<1>1. todo \in SettingUp => IsList(todo)
  BY Lists, Zenon DEF SettingUp
<1>2. todo \in Finishing => IsList(todo)
  BY Lists, Zenon DEF Finishing
<1>3. todo \in Stalling \cup Halting => IsList(todo)
  BY Lists, Zenon DEF Stalling, Halting
<1>4. todo \in Writing => IsList(todo)
  BY Lists, Zenon DEF Writing
<1>5. todo \in Unhalting \cup UnhaltingIn => IsList(todo)
  BY Lists, Zenon DEF Unhalting, UnhaltingIn
<1>6. todo \in Looking => IsList(todo)
  BY Lists, Zenon DEF Looking
<1>7. todo \in Copying \cup HalfCopied => IsList(todo)
  BY Lists, Zenon DEF Copying, HalfCopied
<1>8. todo \in Copied => IsList(todo)
  BY Lists, Zenon DEF Copied
<1> QED BY <1>1, <1>2, <1>3, <1>4, <1>5, <1>6, <1>7, <1>8 DEF Shape, Plain

LEMMA GoalStays ==
  ASSUME Shape, todo # <<>>, todo' = Tail(todo)
  PROVE  Goal' \in {Goal, "poll"}
<1>0. PICK S : todo \in Seq(S)
  BY TodoIsList DEF IsList
<1>1. CASE todo' = <<>>
  BY <1>1 DEF Goal
<1>2. CASE todo' # <<>>
  <2>1. Len(todo') = Len(todo) - 1 /\ Len(todo) \in Nat /\ Len(todo') > 0
    BY <1>0, <1>2
  <2>2. todo'[Len(todo')] = todo[Len(todo)]
    BY <1>0, <2>1
  <2> QED BY <1>2, <2>2 DEF Goal
<1> QED BY <1>1, <1>2

-----------------------------------------------------------------------------
\* The host and the peripheral touch nothing that is being copied.
LEMMA Undisturbed ==
  ASSUME IInv, Types', UNCHANGED <<todo, buf, usb_fsm_state, usb_force_nak,
                                   usb_req, chunk>>,
         "CTR_RX" \in reg => "CTR_RX" \in reg',
         "CTR_RX" \in reg => pma_rx' = pma_rx
  PROVE  IInv'
<1>1. Shape'
  BY Zenon DEF IInv, Shape
<1>2. Goal' = Goal
  BY DEF Goal
<1>3. Counts'
  BY <1>2 DEF IInv, Counts
<1> QED BY <1>1, <1>3 DEF IInv

LEMMA StagesTyped ==
  ASSUME NEW r \in Requests
  PROVE  Stages(r) \in Seq(Turns)
<1>1. r.packets + 1 \in Nat
  BY RequestFacts
<1>2. [i \in 1 .. r.packets + 1 |-> IF i <= r.packets THEN "in" ELSE "out"]
        \in Seq(Turns)
  BY <1>1 DEF Turns
<1>3. [i \in 1 .. r.packets + 1 |-> IF i <= r.packets THEN "out" ELSE "in"]
        \in Seq(Turns)
  BY <1>1 DEF Turns
<1>4. <<"in">> \in Seq(Turns)
  BY DEF Turns
<1> QED BY <1>2, <1>3, <1>4 DEF Stages

LEMMA HostKeeps ==
  ASSUME IInv, Host
  PROVE  IInv'
<1>0. PeripheralTypes /\ DriverTypes /\ LoadTypes /\ HostTypes
  BY DEF IInv, Types
<1> DEFINE Same == UNCHANGED <<todo, loaded, usb_fsm_state, usb_force_nak,
                               usb_req, buf, chunk>>
<1>1. ASSUME Same, PeripheralTypes', HostTypes',
             "CTR_RX" \in reg => "CTR_RX" \in reg' /\ pma_rx' = pma_rx
      PROVE  IInv'
  <2>1. DriverTypes' /\ LoadTypes'
    BY <1>0, <1>1 DEF DriverTypes, LoadTypes, AtMacro
  <2>2. Types'
    BY <1>1, <2>1 DEF Types
  <2> QED BY <1>1, <2>2, Undisturbed
<1>2. ASSUME NEW r \in Requests, HostSetup(r) PROVE IInv'
  <2>1. Same /\ "CTR_RX" \notin reg
    BY <1>2, Zenon DEF HostSetup, driver
  <2>2. [of |-> r, number |-> 0] \in Packet
    BY DEF Packet
  <2>3. reg' \in SUBSET Bits
    BY <1>2, BitsDiffer
       DEF HostSetup, RX, TX, Stat, TYPE, CTRS, DTOGS
  <2>4. PeripheralTypes'
    BY <1>0, <1>2, <2>2, <2>3, Zenon DEF HostSetup, PeripheralTypes
  <2>5. asked' \in Requests \cup {NoRequest} /\ stages' \in Seq(Turns)
        /\ toggle' \in BOOLEAN /\ moved' \in Nat
    BY <1>2, StagesTyped DEF HostSetup
  <2>6. overtaken' \in BOOLEAN
    <3>1. overtaken' = (overtaken \/ ~Patient)
      BY <1>2 DEF HostSetup
    <3> QED BY <3>1, Zenon
  <2>7. HostTypes'
    BY <2>5, <2>6 DEF HostTypes
  <2> QED BY <1>1, <2>1, <2>4, <2>7
<1>3. ASSUME Proceed \/ UNCHANGED host, overtaken' = overtaken, stages # <<>>
      PROVE  HostTypes'
  <2>1. Tail(stages) \in Seq(Turns)
    BY <1>0, <1>3 DEF HostTypes
  <2>2. CASE Proceed
    BY <1>0, <1>3, <2>1, <2>2 DEF Proceed, HostTypes
  <2>3. CASE UNCHANGED host
    BY <1>0, <1>3, <2>3 DEF host, HostTypes
  <2> QED BY <1>3, <2>2, <2>3
<1>4. ASSUME NEW acked \in BOOLEAN, HostSends(acked) PROVE IInv'
  <2>1. Same /\ "CTR_RX" \notin reg
    BY <1>4, Zenon DEF HostSends, driver
  <2>2. [of |-> asked, number |-> moved + 1] \in Packet
    BY <1>0 DEF HostTypes, Packet
  <2>3. pma_rx' \in Packet
    BY <1>0, <1>4, <2>2, PacketFacts DEF HostSends, PeripheralTypes
  <2>4. reg' \in SUBSET Bits
    BY <1>0, <1>4, BitsDiffer
       DEF HostSends, PeripheralTypes, Xor, RX, Stat, RX_STAT
  <2>5. PeripheralTypes'
    BY <1>0, <1>4, <2>3, <2>4, Zenon DEF HostSends, PeripheralTypes
  <2>6. HostTypes'
    BY <1>3, <1>4 DEF HostSends, Turn
  <2> QED BY <1>1, <2>1, <2>5, <2>6
<1>5. ASSUME NEW acked \in BOOLEAN, HostReads(acked) PROVE IInv'
  <2>1. Same /\ pma_rx' = pma_rx
    BY <1>5, Zenon DEF HostReads, driver
  <2>2. reg' \in SUBSET Bits /\ ("CTR_RX" \in reg => "CTR_RX" \in reg')
    BY <1>0, <1>5, BitsDiffer
       DEF HostReads, PeripheralTypes, Xor, TX, Stat, TX_STAT
  <2>3. PeripheralTypes'
    BY <1>0, <1>5, <2>2, Zenon DEF HostReads, PeripheralTypes
  <2>4. HostTypes'
    BY <1>3, <1>5 DEF HostReads, Turn
  <2> QED BY <1>1, <2>1, <2>2, <2>3, <2>4
<1>6. CASE HostStalled
  <2>1. Same /\ UNCHANGED <<reg, ef, reset_flag, pma_rx, pma_tx>>
    BY <1>6, Zenon DEF HostStalled, driver, peripheral
  <2>2. PeripheralTypes'
    BY <1>0, <2>1 DEF PeripheralTypes
  <2>3. HostTypes'
    BY <1>0, <1>6 DEF HostStalled, HostTypes, Turns
  <2> QED BY <1>1, <2>1, <2>2, <2>3
<1>7. CASE BusReset
  <2>1. Same /\ pma_rx' = pma_rx
    BY <1>7, Zenon DEF BusReset, driver
  <2>2. PICK setup \in SUBSET (reg \cap {"SETUP"}) :
               reg' = (reg \cap CTRS) \cup setup
    BY <1>7 DEF BusReset
  <2>3. reg' \in SUBSET Bits /\ ("CTR_RX" \in reg => "CTR_RX" \in reg')
    BY <1>0, <2>2 DEF PeripheralTypes, CTRS
  <2>4. PeripheralTypes'
    BY <1>0, <1>7, <2>3 DEF BusReset, PeripheralTypes
  <2>5. overtaken' \in BOOLEAN
    <3>1. overtaken' = (overtaken \/ ~Patient)
      BY <1>7 DEF BusReset
    <3> QED BY <3>1, Zenon
  <2>6. HostTypes'
    BY <1>0, <1>7, <2>5 DEF BusReset, HostTypes
  <2> QED BY <1>1, <2>1, <2>3, <2>4, <2>6
<1> QED BY <1>2, <1>4, <1>5, <1>6, <1>7 DEF Host

-----------------------------------------------------------------------------
\* Concatenations of short sequences.
LEMMA Joins ==
  /\ \A a, b : <<a>> \o <<b>> = <<a, b>>
  /\ \A a, b, c : <<a, b>> \o <<c>> = <<a, b, c>>
  /\ \A a, b, c, d : <<a, b, c>> \o <<d>> = <<a, b, c, d>>
  /\ \A a, b, c, d, e : <<a, b, c, d>> \o <<e>> = <<a, b, c, d, e>>
  /\ \A a, b, c : <<a, b, c>> \o <<>> = <<a, b, c>>
  /\ \A a : <<>> \o <<a>> = <<a>> /\ <<a>> \o <<>> = <<a>>
  /\ \A a, b : <<a, b>> \o <<>> = <<a, b>>
<1>0. ASSUME NEW a, NEW b
      PROVE  <<a>> \o <<b>> = <<a, b>>
  <2> DEFINE S == {a, b}
             s == <<a>> \o <<b>>
             t == <<a, b>>
  <2>1. <<a>> \in Seq(S) /\ <<b>> \in Seq(S) /\ t \in Seq(S)
    OBVIOUS
  <2>2. s \in Seq(S) /\ Len(s) = 2 /\ \A i \in 1 .. 2 : s[i] = t[i]
    BY <2>1, ConcatProperties
  <2> QED BY <2>1, <2>2, SeqEqual
<1>1. ASSUME NEW a, NEW b, NEW c
      PROVE  <<a, b>> \o <<c>> = <<a, b, c>>
  <2> DEFINE S == {a, b, c}
             s == <<a, b>> \o <<c>>
             t == <<a, b, c>>
  <2>1. <<a, b>> \in Seq(S) /\ <<c>> \in Seq(S) /\ t \in Seq(S)
    OBVIOUS
  <2>2. s \in Seq(S) /\ Len(s) = 3 /\ \A i \in 1 .. 3 : s[i] = t[i]
    BY <2>1, ConcatProperties
  <2> QED BY <2>1, <2>2, SeqEqual
<1>2. ASSUME NEW a, NEW b, NEW c, NEW d
      PROVE  <<a, b, c>> \o <<d>> = <<a, b, c, d>>
  <2> DEFINE S == {a, b, c, d}
             s == <<a, b, c>> \o <<d>>
             t == <<a, b, c, d>>
  <2>1. <<a, b, c>> \in Seq(S) /\ <<d>> \in Seq(S) /\ t \in Seq(S)
    OBVIOUS
  <2>2. s \in Seq(S) /\ Len(s) = 4 /\ \A i \in 1 .. 4 : s[i] = t[i]
    BY <2>1, ConcatProperties
  <2> QED BY <2>1, <2>2, SeqEqual
<1>3. ASSUME NEW a, NEW b, NEW c, NEW d, NEW e
      PROVE  <<a, b, c, d>> \o <<e>> = <<a, b, c, d, e>>
  <2> DEFINE S == {a, b, c, d, e}
             s == <<a, b, c, d>> \o <<e>>
             t == <<a, b, c, d, e>>
  <2>1. <<a, b, c, d>> \in Seq(S) /\ <<e>> \in Seq(S) /\ t \in Seq(S)
    OBVIOUS
  <2>2. s \in Seq(S) /\ Len(s) = 5 /\ \A i \in 1 .. 5 : s[i] = t[i]
    BY <2>1, ConcatProperties
  <2> QED BY <2>1, <2>2, SeqEqual
<1>4. \A a, b, c : <<a, b, c>> \o <<>> = <<a, b, c>>
  OBVIOUS
<1>5. \A a : <<>> \o <<a>> = <<a>> /\ <<a>> \o <<>> = <<a>>
  OBVIOUS
<1>6. \A a, b : <<a, b>> \o <<>> = <<a, b>>
  OBVIOUS
<1> QED BY <1>0, <1>1, <1>2, <1>3, <1>4, <1>5, <1>6, Zenon

LEMMA StallIs == Stall = <<StallTx, StallRx>>
  BY DEF Stall, StallTx, StallRx

LEMMA SetUpIs == SetUp \in SettingUp
<1>1. SetUp = <<SetAddr, SetType, ClrTx, NakTx, ClrRx, Open, Enabling>>
  BY Zenon DEF SetUp, SetAddr, SetType, ClrTx, NakTx, ClrRx, Open, Enabling
<1> QED BY <1>1 DEF SettingUp

\* What _usbd_ep_read_packet does with a packet for u, and in a status stage.
LEMMA ReadGoes ==
  ASSUME IInv, Read
  PROVE  /\ "CTR_RX" \in reg
         /\ \/ /\ todo = <<Fetch>> /\ usb_fsm_state' = usb_fsm_state
               /\ todo' = IF reg \cap RX_STAT = RX.valid THEN <<>>
                          ELSE IF usb_force_nak THEN <<Ctr>> ELSE <<Ctr, Open>>
            \/ \E u \in {ToSetup, ToData} :
                 /\ todo = <<Fetch, u>>
                 /\ IF reg \cap RX_STAT = RX.valid
                    THEN todo' = <<StallTx, StallRx>> /\ usb_fsm_state' = "IDLE"
                    ELSE /\ usb_fsm_state' = usb_fsm_state
                         /\ todo' = IF usb_force_nak
                                    THEN <<Half1, Half2, Ctr, u>>
                                    ELSE <<Half1, Half2, Ctr, Open, u>>
<1>1. Now = "read"
  BY StepNow DEF Read
<1>2. /\ "CTR_RX" \in reg
      /\ \/ todo = <<Fetch>> /\ Runs("read", Fetch, <<>>)
         \/ todo = <<Fetch, ToSetup>> /\ Runs("read", Fetch, <<ToSetup>>)
         \/ todo = <<Fetch, ToData>> /\ Runs("read", Fetch, <<ToData>>)
  BY <1>1, Finds DEF IInv
<1>3. CASE todo = <<Fetch>> /\ Runs("read", Fetch, <<>>)
  <2>1. Tail(todo) = <<>>
    BY <1>3 DEF Runs
  <2>2. CASE reg \cap RX_STAT = RX.valid
    BY <1>2, <1>3, <2>1, <2>2 DEF Read
  <2>3. CASE reg \cap RX_STAT # RX.valid
    <3>1. /\ usb_fsm_state' = usb_fsm_state
          /\ todo' = ((<<>> \o <<Ctr>>) \o
                        (IF usb_force_nak THEN <<>> ELSE <<Open>>)) \o <<>>
      BY <2>1, <2>3 DEF Read, Taking, Ctr, Open
    <3>2. <<>> \o <<Ctr>> = <<Ctr>> /\ <<Ctr>> \o <<>> = <<Ctr>>
          /\ <<Ctr>> \o <<Open>> = <<Ctr, Open>>
          /\ <<Ctr, Open>> \o <<>> = <<Ctr, Open>>
      BY Joins
    <3>3. CASE usb_force_nak
      BY <1>2, <1>3, <2>3, <3>1, <3>2, <3>3
    <3>4. CASE ~usb_force_nak
      BY <1>2, <1>3, <2>3, <3>1, <3>2, <3>4
    <3> QED BY <3>3, <3>4
  <2> QED BY <2>2, <2>3
<1>4. ASSUME NEW u \in {ToSetup, ToData}, todo = <<Fetch, u>>,
             Tail(todo) = <<u>>
      PROVE  IF reg \cap RX_STAT = RX.valid
             THEN todo' = <<StallTx, StallRx>> /\ usb_fsm_state' = "IDLE"
             ELSE /\ usb_fsm_state' = usb_fsm_state
                  /\ todo' = IF usb_force_nak THEN <<Half1, Half2, Ctr, u>>
                             ELSE <<Half1, Half2, Ctr, Open, u>>
  <2>1. Tail(todo) # <<>>
    BY <1>4
  <2>2. CASE reg \cap RX_STAT = RX.valid
    BY <2>1, <2>2, StallIs DEF Read
  <2>3. CASE reg \cap RX_STAT # RX.valid
    <3>1. /\ usb_fsm_state' = usb_fsm_state
          /\ todo' = ((<<Half1, Half2>> \o <<Ctr>>) \o
                        (IF usb_force_nak THEN <<>> ELSE <<Open>>)) \o <<u>>
      BY <1>4, <2>1, <2>3 DEF Read, Taking, Ctr, Open, Copies, Half1, Half2
    <3>2. /\ <<Half1, Half2>> \o <<Ctr>> = <<Half1, Half2, Ctr>>
          /\ <<Half1, Half2, Ctr>> \o <<>> = <<Half1, Half2, Ctr>>
          /\ <<Half1, Half2, Ctr>> \o <<u>> = <<Half1, Half2, Ctr, u>>
          /\ <<Half1, Half2, Ctr>> \o <<Open>> = <<Half1, Half2, Ctr, Open>>
          /\ <<Half1, Half2, Ctr, Open>> \o <<u>>
               = <<Half1, Half2, Ctr, Open, u>>
      BY Joins
    <3>3. CASE usb_force_nak
      BY <2>3, <3>1, <3>2, <3>3
    <3>4. CASE ~usb_force_nak
      BY <2>3, <3>1, <3>2, <3>4
    <3> QED BY <3>3, <3>4
  <2> QED BY <2>2, <2>3
<1>5. CASE todo = <<Fetch, ToSetup>> /\ Runs("read", Fetch, <<ToSetup>>)
  BY <1>2, <1>4, <1>5, Zenon DEF Runs
<1>6. CASE todo = <<Fetch, ToData>> /\ Runs("read", Fetch, <<ToData>>)
  BY <1>2, <1>4, <1>6, Zenon DEF Runs
<1> QED BY <1>2, <1>3, <1>5, <1>6

\* The steps of a request that has been copied (usb.c:591-653).
LEMMA DispatchGoes ==
  ASSUME IInv, Dispatch, NEW r, r = buf[1].of
  PROVE  /\ todo = <<ToSetup>> /\ usb_req' = r
         /\ UNCHANGED <<peripheral, loaded, buf, others>>
         /\ r.kind = "read" =>
              /\ todo' = <<Put([of |-> r, number |-> 1])>> /\ chunk' = 1
              /\ usb_fsm_state' = IF 1 < r.packets THEN "DATA_IN"
                                  ELSE "LAST_DATA_IN"
              /\ usb_force_nak' = usb_force_nak
         /\ r.kind = "write" =>
              /\ todo' = <<Open>> /\ chunk' = 0 /\ usb_force_nak' = FALSE
              /\ usb_fsm_state' = DataOutState(r.packets)
         /\ r.kind \notin {"read", "write"} =>
              UNCHANGED <<usb_force_nak, chunk>>
         /\ r.kind = "unknown" =>
              todo' = <<StallTx, StallRx>> /\ usb_fsm_state' = "IDLE"
         /\ r.kind \in {"plain", "set_halt", "clear_halt", "clear_halt_in"} =>
              usb_fsm_state' = "STATUS_IN"
         /\ r.kind = "set_halt" => todo' = <<StallTx, StallRx, Put(Empty)>>
         /\ r.kind = "clear_halt" => todo' = <<NakTx, ClrRx, Open, Put(Empty)>>
         /\ r.kind = "clear_halt_in" => todo' = <<NakTx, ClrTx, Put(Empty)>>
         /\ r.kind = "plain" => todo' = <<Put(Empty)>>
<1>1. todo = <<ToSetup>>
  BY StepNow, Finds DEF Dispatch, IInv
<1>2. usb_req' = r /\ UNCHANGED <<peripheral, loaded, buf, others>>
  BY DEF Dispatch
<1>3. ASSUME r.kind = "read"
      PROVE  /\ todo' = <<Put([of |-> r, number |-> 1])>> /\ chunk' = 1
             /\ usb_fsm_state' = IF 1 < r.packets THEN "DATA_IN"
                                 ELSE "LAST_DATA_IN"
             /\ usb_force_nak' = usb_force_nak
  BY <1>3 DEF Dispatch, SendChunk, Put
<1>4. ASSUME r.kind = "write"
      PROVE  /\ todo' = <<Open>> /\ chunk' = 0 /\ usb_force_nak' = FALSE
             /\ usb_fsm_state' = DataOutState(r.packets)
  BY <1>4 DEF Dispatch, Open
<1>5. ASSUME r.kind = "unknown"
      PROVE  /\ todo' = <<StallTx, StallRx>> /\ usb_fsm_state' = "IDLE"
             /\ UNCHANGED <<usb_force_nak, chunk>>
  BY <1>5, StallIs DEF Dispatch
<1>6. ASSUME r.kind \notin {"read", "write", "unknown"}
      PROVE  /\ todo' = (CASE r.kind = "set_halt" -> Stall
                           [] r.kind = "clear_halt" -> <<NakTx, ClrRx, Open>>
                           [] r.kind = "clear_halt_in" -> <<NakTx, ClrTx>>
                           [] OTHER -> <<>>) \o <<Put(Empty)>>
             /\ usb_fsm_state' = "STATUS_IN"
             /\ UNCHANGED <<usb_force_nak, chunk>>
  BY <1>6 DEF Dispatch, NakTx, ClrRx, ClrTx, Open, Put
<1>7. /\ <<StallTx, StallRx>> \o <<Put(Empty)>>
           = <<StallTx, StallRx, Put(Empty)>>
      /\ <<NakTx, ClrRx, Open>> \o <<Put(Empty)>>
           = <<NakTx, ClrRx, Open, Put(Empty)>>
      /\ <<NakTx, ClrTx>> \o <<Put(Empty)>> = <<NakTx, ClrTx, Put(Empty)>>
      /\ <<>> \o <<Put(Empty)>> = <<Put(Empty)>>
  BY Joins
<1>8. r.kind = "set_halt" => todo' = <<StallTx, StallRx, Put(Empty)>>
  BY <1>6, <1>7, StallIs
<1>9. r.kind = "clear_halt" => todo' = <<NakTx, ClrRx, Open, Put(Empty)>>
  BY <1>6, <1>7
<1>10. r.kind = "clear_halt_in" => todo' = <<NakTx, ClrTx, Put(Empty)>>
  BY <1>6, <1>7
<1>11. r.kind = "plain" => todo' = <<Put(Empty)>>
  BY <1>6, <1>7
<1>12. r.kind \notin {"read", "write"} => UNCHANGED <<usb_force_nak, chunk>>
  BY <1>5, <1>6
<1>13. r.kind \in {"plain", "set_halt", "clear_halt", "clear_halt_in"} =>
         usb_fsm_state' = "STATUS_IN"
  BY <1>6
<1> QED BY <1>1, <1>2, <1>3, <1>4, <1>5, <1>8, <1>9, <1>10, <1>11, <1>12, <1>13

\* _usbd_control_in, and a packet of data that has been copied.
LEMMA InGoes ==
  ASSUME IInv, In
  PROVE  /\ todo = <<ToIn>>
         /\ UNCHANGED <<peripheral, loaded, usb_req, buf, others>>
         /\ usb_fsm_state = "DATA_IN" =>
              /\ todo' = <<Put([of |-> usb_req, number |-> chunk + 1])>>
              /\ chunk' = chunk + 1 /\ usb_force_nak' = usb_force_nak
              /\ usb_fsm_state' = IF chunk + 1 < usb_req.packets
                                  THEN "DATA_IN" ELSE "LAST_DATA_IN"
         /\ usb_fsm_state = "LAST_DATA_IN" =>
              /\ todo' = <<Open>> /\ usb_fsm_state' = "STATUS_OUT"
              /\ usb_force_nak' = FALSE /\ chunk' = chunk
         /\ usb_fsm_state \notin {"DATA_IN", "LAST_DATA_IN"} =>
              /\ todo' = IF usb_fsm_state = "STATUS_IN" THEN <<>>
                         ELSE <<StallTx, StallRx>>
              /\ usb_fsm_state' = "IDLE" /\ UNCHANGED <<usb_force_nak, chunk>>
<1>1. todo = <<ToIn>>
  BY StepNow, Finds DEF In, IInv
<1>2. UNCHANGED <<peripheral, loaded, usb_req, buf, others>>
  BY DEF In
<1>3. CASE usb_fsm_state = "DATA_IN"
  BY <1>1, <1>2, <1>3 DEF In, SendChunk, Put
<1>4. CASE usb_fsm_state = "LAST_DATA_IN"
  BY <1>1, <1>2, <1>4 DEF In, Open
<1>5. CASE usb_fsm_state \notin {"DATA_IN", "LAST_DATA_IN"}
  BY <1>1, <1>2, <1>5, StallIs DEF In
<1> QED BY <1>3, <1>4, <1>5

LEMMA DataGoes ==
  ASSUME IInv, Data
  PROVE  /\ todo = <<ToData>> /\ chunk' = chunk + 1
         /\ UNCHANGED <<peripheral, loaded, usb_force_nak, usb_req, buf, others>>
         /\ usb_fsm_state \in {"DATA_OUT", "LAST_DATA_OUT"}
         /\ usb_fsm_state = "LAST_DATA_OUT" =>
              todo' = <<Put(Empty)>> /\ usb_fsm_state' = "STATUS_IN"
         /\ usb_fsm_state = "DATA_OUT" =>
              /\ todo' = <<>>
              /\ usb_fsm_state' = DataOutState(usb_req.packets - (chunk + 1))
<1>1. todo = <<ToData>>
  BY StepNow, Finds DEF Data, IInv
<1>2. Goal = "data"
  BY <1>1, Ops DEF Goal
<1>3. usb_fsm_state \in {"DATA_OUT", "LAST_DATA_OUT"}
  BY <1>2 DEF IInv, Counts
<1> QED BY <1>1, <1>3 DEF Data, Put

-----------------------------------------------------------------------------
\* Where no macro is next, none has been loaded.
LEMMA NotLoaded ==
  ASSUME IInv, Now \notin Macros
  PROVE  loaded = {}
  BY DEF IInv, Types, LoadTypes, AtMacro, Now

\* A step of a handler that is no macro and leaves the peripheral alone, but
\* for the packet to send.
LEMMA HandlerKeeps ==
  ASSUME IInv, Now \notin Macros, UNCHANGED <<reg, ef, reset_flag, pma_rx>>,
         UNCHANGED <<loaded, others>>, pma_tx' \in Packet, DriverTypes',
         Shape', Counts'
  PROVE  IInv'
<1>1. loaded' = {}
  BY NotLoaded
<1>2. PeripheralTypes'
  BY DEF IInv, Types, PeripheralTypes
<1>3. HostTypes'
  BY DEF IInv, Types, HostTypes, others, host
<1> QED BY <1>1, <1>2, <1>3 DEF IInv, Types, LoadTypes

\* Polling.
LEMMA PollKeeps ==
  ASSUME IInv, PollReset \/ PollReceived \/ PollSent \/ Enable
  PROVE  IInv'
<1>1. Now \in {"poll", "enable"} /\ Now \notin Macros
  BY StepNow DEF PollReset, PollReceived, PollSent, Enable, Polling, Now, Macros
<1>2. UNCHANGED <<reg, pma_rx, pma_tx, loaded, others, usb_fsm_state,
                  usb_force_nak, usb_req, buf, chunk>>
  BY DEF PollReset, PollReceived, PollSent, Enable, peripheral, driver_but_todo
<1>3. loaded' = {}
  BY <1>1, <1>2, NotLoaded
<1>4. ef' \in BOOLEAN /\ reset_flag' \in BOOLEAN
  BY DEF PollReset, PollReceived, PollSent, Enable, peripheral, IInv, Types,
     PeripheralTypes
<1>5. Types'
  BY <1>2, <1>3, <1>4 DEF IInv, Types, PeripheralTypes, DriverTypes, LoadTypes,
     HostTypes, others, host
<1>6. Shape' /\ Goal' \in {"enable", "which", "in", "poll"}
  <2>1. CASE PollReset
    <3>1. todo' = <<SetAddr, SetType, ClrTx, NakTx, ClrRx, Open, Enabling>>
      BY <2>1, Zenon DEF PollReset, SetUp, SetAddr, SetType, ClrTx, NakTx,
         ClrRx, Open, Enabling
    <3>2. todo' \in SettingUp
      BY <3>1 DEF SettingUp
    <3>3. Goal' = "enable"
      BY <3>1, Ops DEF Goal
    <3> QED BY <3>2, <3>3 DEF Shape, Plain
  <2>2. CASE PollReceived
    <3>1. todo' = <<Look>> /\ "CTR_RX" \in reg'
      BY <1>2, <2>2 DEF PollReceived, Look
    <3>2. Goal' = "which"
      BY <3>1, Ops DEF Goal
    <3> QED BY <3>1, <3>2 DEF Shape, Looking
  <2>3. CASE PollSent
    <3>1. todo' = <<CtrTx, ToIn>>
      BY <2>3 DEF PollSent, CtrTx, ToIn
    <3>2. Goal' = "in"
      BY <3>1, Ops DEF Goal
    <3> QED BY <3>1, <3>2 DEF Shape, Plain, Finishing
  <2>4. CASE Enable
    BY <2>4 DEF Enable, Shape, Plain, Finishing, Goal
  <2> QED BY <2>1, <2>2, <2>3, <2>4
<1>7. Counts'
  BY <1>2, <1>6 DEF IInv, Counts
<1> QED BY <1>5, <1>6, <1>7 DEF IInv

LEMMA LookKeeps ==
  ASSUME IInv, Setup \/ Out
  PROVE  IInv'
<1>1. Now = "which" /\ Now \notin Macros
  BY StepNow DEF Setup, Out, Macros
<1>2. todo = <<Look>> /\ "CTR_RX" \in reg
  BY <1>1, Finds DEF IInv
<1>3. UNCHANGED <<reg, ef, reset_flag, pma_rx, pma_tx, loaded, others,
                  usb_req, buf, chunk>>
  BY DEF Setup, Out, peripheral
<1>4. pma_tx' \in Packet
  BY <1>3 DEF IInv, Types, PeripheralTypes
<1>5. CASE Setup
  <2>1. todo' = <<Nak, Fetch, ToSetup>> /\ usb_force_nak' = TRUE
        /\ usb_fsm_state' = usb_fsm_state
    BY <1>5 DEF Setup, Nak, Fetch, ToSetup
  <2>2. Goal' = "setup"
    BY <2>1, Ops DEF Goal
  <2>3. Shape'
    BY <1>2, <1>3, <2>1 DEF Shape, Looking
  <2>4. DriverTypes' /\ Counts'
    BY <1>3, <2>1, <2>2 DEF IInv, Types, DriverTypes, Counts
  <2> QED BY <1>1, <1>3, <1>4, <2>3, <2>4, HandlerKeeps
<1>6. CASE Out
  <2>1. /\ usb_force_nak' = usb_force_nak
        /\ \/ /\ todo' = <<Fetch, ToData>> /\ usb_fsm_state' = usb_fsm_state
              /\ usb_fsm_state \in {"DATA_OUT", "LAST_DATA_OUT"}
           \/ /\ todo' \in {<<Fetch>>, <<StallTx, StallRx>>}
              /\ usb_fsm_state' = "IDLE"
    BY <1>6, StallIs DEF Out, Fetch, ToData
  <2>2. Goal' = "data" => usb_fsm_state' \in {"DATA_OUT", "LAST_DATA_OUT"}
    <3>1. todo' \in {<<Fetch>>, <<StallTx, StallRx>>} => Goal' # "data"
      BY Ops DEF Goal
    <3> QED BY <2>1, <3>1
  <2>3. Goal' # "setup"
    BY <2>1, Ops DEF Goal
  <2>4. Shape'
    BY <1>2, <1>3, <2>1 DEF Shape, Looking, Plain, Stalling
  <2>5. DriverTypes' /\ Counts'
    BY <1>3, <2>1, <2>2, <2>3 DEF IInv, Types, DriverTypes, States, Counts
  <2> QED BY <1>1, <1>3, <1>4, <2>4, <2>5, HandlerKeeps
<1> QED BY <1>5, <1>6

LEMMA ReadKeeps ==
  ASSUME IInv, Read
  PROVE  IInv'
<1>1. Now = "read" /\ Now \notin Macros
  BY StepNow DEF Read, Macros
<1>2. UNCHANGED <<reg, ef, reset_flag, pma_rx, pma_tx, loaded, others,
                  usb_force_nak, usb_req, buf, chunk>>
  BY DEF Read, peripheral
<1>3. pma_tx' \in Packet
  BY <1>2 DEF IInv, Types, PeripheralTypes
<1>4. CASE todo = <<Fetch>> /\ usb_fsm_state' = usb_fsm_state
           /\ todo' \in {<<>>, <<Ctr>>, <<Ctr, Open>>}
  <2>1. Goal' \notin {"data", "setup"}
    BY <1>4, Ops DEF Goal
  <2>2. Shape'
    BY <1>4 DEF Shape, Plain, Finishing
  <2>3. DriverTypes' /\ Counts'
    BY <1>2, <1>4, <2>1 DEF IInv, Types, DriverTypes, Counts
  <2> QED BY <1>1, <1>2, <1>3, <2>2, <2>3, HandlerKeeps
<1>5. CASE todo' = <<StallTx, StallRx>> /\ usb_fsm_state' = "IDLE"
  <2>1. Goal' \notin {"data", "setup"}
    BY <1>5, Ops DEF Goal
  <2>2. Shape'
    BY <1>5 DEF Shape, Plain, Stalling
  <2>3. DriverTypes' /\ Counts'
    BY <1>2, <1>5, <2>1 DEF IInv, Types, DriverTypes, States, Counts
  <2> QED BY <1>1, <1>2, <1>3, <2>2, <2>3, HandlerKeeps
<1>6. ASSUME NEW u \in {ToSetup, ToData}, todo = <<Fetch, u>>,
             "CTR_RX" \in reg, usb_fsm_state' = usb_fsm_state,
             todo' = IF usb_force_nak THEN <<Half1, Half2, Ctr, u>>
                     ELSE <<Half1, Half2, Ctr, Open, u>>
      PROVE  IInv'
  <2>1. Goal = u[1] /\ Goal' = u[1]
    BY <1>6 DEF Goal
  <2>2. u = ToSetup => usb_force_nak
    BY <2>1, Ops DEF IInv, Counts
  <2>3. todo' \in Copying
    BY <1>6, <2>2 DEF Copying
  <2>4. Shape'
    BY <1>2, <1>6, <2>3 DEF Shape
  <2>5. DriverTypes' /\ Counts'
    BY <1>2, <1>6, <2>1 DEF IInv, Types, DriverTypes, Counts
  <2> QED BY <1>1, <1>2, <1>3, <2>4, <2>5, HandlerKeeps
<1>7. \/ todo = <<Fetch>> /\ usb_fsm_state' = usb_fsm_state
         /\ todo' \in {<<>>, <<Ctr>>, <<Ctr, Open>>}
      \/ todo' = <<StallTx, StallRx>> /\ usb_fsm_state' = "IDLE"
      \/ \E u \in {ToSetup, ToData} :
           /\ todo = <<Fetch, u>> /\ usb_fsm_state' = usb_fsm_state
           /\ todo' = IF usb_force_nak THEN <<Half1, Half2, Ctr, u>>
                      ELSE <<Half1, Half2, Ctr, Open, u>>
  BY ReadGoes
<1>8. "CTR_RX" \in reg
  BY ReadGoes
<1> QED BY <1>4, <1>5, <1>6, <1>7, <1>8

\* The two halves of a packet are those of one packet.
LEMMA CopyKeeps ==
  ASSUME IInv, Copy
  PROVE  IInv'
<1>1. Now = "copy" /\ Now \notin Macros
  BY StepNow DEF Copy, Macros
<1>2. /\ "CTR_RX" \in reg
      /\ todo \in Copying \/ (todo \in HalfCopied /\ buf[1] = pma_rx)
  BY <1>1, Finds DEF IInv
<1>3. /\ buf' = [buf EXCEPT ![Head(todo)[2]] = pma_rx] /\ todo' = Tail(todo)
      /\ UNCHANGED <<reg, ef, reset_flag, pma_rx, pma_tx, loaded, others,
                     usb_fsm_state, usb_force_nak, usb_req, chunk>>
  BY DEF Copy, peripheral
<1>4. buf \in [1 .. 2 -> Packet] /\ pma_rx \in Packet /\ pma_tx' \in Packet
  BY <1>3 DEF IInv, Types, DriverTypes, PeripheralTypes
<1>5. DriverTypes'
  BY <1>3, <1>4 DEF IInv, Types, DriverTypes
<1>6. Shape'
  <2>1. CASE todo \in Copying
    <3>1. PICK r \in HalfCopied : Runs("copy", Half1, r)
      BY <2>1, CopyingRuns
    <3>2. Head(todo)[2] = 1 /\ todo' \in HalfCopied
      BY <1>3, <3>1, Ops DEF Runs
    <3>3. buf'[1] = pma_rx'
      BY <1>3, <1>4, <3>2
    <3> QED BY <1>2, <1>3, <3>2, <3>3 DEF Shape
  <2>2. CASE todo \in HalfCopied /\ buf[1] = pma_rx
    <3>1. PICK r \in Copied : Runs("copy", Half2, r)
      BY <2>2, HalfCopiedRuns
    <3>2. Head(todo)[2] = 2 /\ todo' \in Copied
      BY <1>3, <3>1, Ops DEF Runs
    <3>3. buf'[1] = buf'[2]
      BY <1>3, <1>4, <2>2, <3>2
    <3> QED BY <3>2, <3>3 DEF Shape
  <2> QED BY <1>2, <2>1, <2>2
<1>7. Goal' \in {Goal, "poll"}
  BY <1>3, GoalStays DEF Copy, Step, IInv
<1>8. Counts'
  BY <1>3, <1>7 DEF IInv, Counts
<1> QED BY <1>1, <1>3, <1>4, <1>5, <1>6, <1>8, HandlerKeeps

LEMMA WriteKeeps ==
  ASSUME IInv, Write
  PROVE  IInv'
<1>1. Now = "write" /\ Now \notin Macros
  BY StepNow DEF Write, Macros
<1>2. PICK p \in Packet : todo = <<Put(p)>> /\ Runs("write", Put(p), <<>>)
  BY <1>1, Finds DEF IInv
<1>3. UNCHANGED <<reg, ef, reset_flag, pma_rx, loaded, others, usb_fsm_state,
                  usb_force_nak, usb_req, buf, chunk>>
  BY DEF Write, driver_but_todo
<1>4. pma_tx' \in {pma_tx, p} /\ todo' \in {<<>>, <<Send>>}
  <2>1. Head(todo)[2] = p /\ Tail(todo) = <<>>
    BY <1>2, Ops DEF Runs
  <2>2. <<Send>> \o <<>> = <<Send>>
    BY Joins
  <2> QED BY <2>1, <2>2 DEF Write, Send
<1>5. pma_tx' \in Packet
  BY <1>4 DEF IInv, Types, PeripheralTypes
<1>6. Shape'
  BY <1>4 DEF Shape, Plain, Finishing, Writing
<1>7. Goal' \notin {"data", "setup"}
  BY <1>4, Ops DEF Goal
<1>8. DriverTypes' /\ Counts'
  BY <1>3, <1>7 DEF IInv, Types, DriverTypes, Counts
<1> QED BY <1>1, <1>3, <1>5, <1>6, <1>8, HandlerKeeps

LEMMA DispatchKeeps ==
  ASSUME IInv, Dispatch
  PROVE  IInv'
<1> DEFINE r == buf[1].of
<1>1. Now = "setup" /\ Now \notin Macros
  BY StepNow DEF Dispatch, Macros
<1>2. r \in Requests \cup {NoRequest}
  BY DEF IInv, Types, DriverTypes, Packet
<1>3. r.kind \in Kinds /\ r.packets \in Nat /\ r.packets > 0
  BY <1>2, RequestFacts
<1>4. UNCHANGED <<reg, ef, reset_flag, pma_rx, pma_tx, loaded, others, buf>>
      /\ usb_req' = r
  BY DispatchGoes DEF peripheral
<1>5. pma_tx' \in Packet
  BY <1>4 DEF IInv, Types, PeripheralTypes
<1>6. ASSUME todo' \in Plain, Goal' \notin {"data", "setup"},
             usb_fsm_state' \in States, chunk' \in Nat,
             usb_force_nak' \in BOOLEAN,
             usb_fsm_state' = "DATA_IN" => r.kind = "read" /\ chunk' < r.packets,
             usb_fsm_state' = "LAST_DATA_IN" =>
               r.kind = "read" /\ chunk' = r.packets,
             usb_fsm_state' = "DATA_OUT" =>
               r.kind = "write" /\ chunk' + 1 < r.packets,
             usb_fsm_state' = "LAST_DATA_OUT" =>
               r.kind = "write" /\ chunk' + 1 = r.packets,
             r.kind \in {"read", "write"} => chunk' <= r.packets
      PROVE  IInv'
  <2>1. Shape'
    BY <1>6 DEF Shape
  <2>2. DriverTypes'
    BY <1>2, <1>4, <1>6 DEF IInv, Types, DriverTypes
  <2>3. Counts'
    BY <1>4, <1>6 DEF Counts
  <2> QED BY <1>1, <1>4, <1>5, <2>1, <2>2, <2>3, HandlerKeeps
<1>7. chunk \in Nat /\ usb_force_nak \in BOOLEAN
  BY DEF IInv, Types, DriverTypes
<1>8. CASE r.kind = "read"
  <2>1. /\ todo' = <<Put([of |-> r, number |-> 1])>> /\ chunk' = 1
        /\ usb_fsm_state' = IF 1 < r.packets THEN "DATA_IN" ELSE "LAST_DATA_IN"
        /\ usb_force_nak' = usb_force_nak
    BY <1>8, DispatchGoes
  <2>2. [of |-> r, number |-> 1] \in Packet
    BY <1>2 DEF Packet
  <2>3. todo' \in Plain
    BY <2>1, <2>2 DEF Plain, Writing
  <2>4. Goal' = "write"
    BY <2>1, Ops DEF Goal
  <2> QED BY <1>3, <1>6, <1>7, <1>8, <2>1, <2>3, <2>4 DEF States
<1>9. CASE r.kind = "write"
  <2>1. /\ todo' = <<Open>> /\ chunk' = 0 /\ usb_force_nak' = FALSE
        /\ usb_fsm_state' = DataOutState(r.packets)
    BY <1>9, DispatchGoes
  <2>2. todo' \in Plain
    BY <2>1 DEF Plain, Finishing
  <2>3. Goal' = "set_rx"
    BY <2>1, Ops DEF Goal
  <2>4. /\ usb_fsm_state' \in {"DATA_OUT", "LAST_DATA_OUT"}
        /\ usb_fsm_state' = "DATA_OUT" => chunk' + 1 < r.packets
        /\ usb_fsm_state' = "LAST_DATA_OUT" => chunk' + 1 = r.packets
        /\ chunk' <= r.packets
    BY <1>3, <2>1 DEF DataOutState
  <2>5. usb_fsm_state' \in States /\ chunk' \in Nat /\ usb_force_nak' \in BOOLEAN
    BY <2>1, <2>4 DEF States
  <2> HIDE DEF r
  <2> QED BY <1>6, <1>9, <2>2, <2>3, <2>4, <2>5
<1>10. CASE r.kind \notin {"read", "write"}
  <2>1. UNCHANGED <<usb_force_nak, chunk>>
    BY <1>10, DispatchGoes
  <2>2. usb_fsm_state' \in {"IDLE", "STATUS_IN"}
    BY <1>3, <1>10, DispatchGoes DEF Kinds
  <2>3. todo' \in {<<StallTx, StallRx>>, <<StallTx, StallRx, Put(Empty)>>,
                   <<NakTx, ClrRx, Open, Put(Empty)>>,
                   <<NakTx, ClrTx, Put(Empty)>>, <<Put(Empty)>>}
    BY <1>3, <1>10, DispatchGoes DEF Kinds
  <2>4. Goal' \in {"set_rx", "write"}
    <3>1. todo' = <<StallTx, StallRx>> => Goal' = "set_rx"
      BY Ops DEF Goal
    <3>2. todo' = <<StallTx, StallRx, Put(Empty)>> => Goal' = "write"
      BY Ops DEF Goal
    <3>5. todo' = <<NakTx, ClrTx, Put(Empty)>> => Goal' = "write"
      BY Ops DEF Goal
    <3>3. todo' = <<NakTx, ClrRx, Open, Put(Empty)>> => Goal' = "write"
      BY Ops DEF Goal
    <3>4. todo' = <<Put(Empty)>> => Goal' = "write"
      BY Ops DEF Goal
    <3> QED BY <2>3, <3>1, <3>2, <3>3, <3>4, <3>5
  <2>5. todo' \in Plain
    BY <2>3, PacketFacts
       DEF Plain, Stalling, Halting, Unhalting, UnhaltingIn, Writing
  <2> QED BY <1>6, <1>7, <1>10, <2>1, <2>2, <2>4, <2>5 DEF States
<1> QED BY <1>8, <1>9, <1>10

LEMMA DataKeeps ==
  ASSUME IInv, Data
  PROVE  IInv'
<1>1. Now = "data" /\ Now \notin Macros
  BY StepNow DEF Data, Macros
<1>2. UNCHANGED <<reg, ef, reset_flag, pma_rx, pma_tx, loaded, others,
                  usb_force_nak, usb_req, buf>> /\ chunk' = chunk + 1
  BY DataGoes DEF peripheral
<1>3. pma_tx' \in Packet
  BY <1>2 DEF IInv, Types, PeripheralTypes
<1>4. todo' \in {<<>>, <<Put(Empty)>>}
  BY DataGoes
<1>5. Shape'
  BY <1>4, PacketFacts DEF Shape, Plain, Finishing, Writing
<1>6. Goal' \notin {"data", "setup"}
  BY <1>4, Ops DEF Goal
<1>7. usb_req.packets \in Nat /\ chunk \in Nat
  BY RequestFacts DEF IInv, Types, DriverTypes
<1>8. DriverTypes' /\ Counts'
  <2>1. CASE usb_fsm_state = "LAST_DATA_OUT"
    BY <1>2, <1>6, <1>7, <2>1, DataGoes
       DEF IInv, Types, DriverTypes, States, Counts
  <2>2. CASE usb_fsm_state = "DATA_OUT"
    BY <1>2, <1>6, <1>7, <2>2, DataGoes
       DEF IInv, Types, DriverTypes, States, Counts, DataOutState
  <2> QED BY <2>1, <2>2, DataGoes
<1> QED BY <1>1, <1>2, <1>3, <1>5, <1>8, HandlerKeeps

LEMMA InKeeps ==
  ASSUME IInv, In
  PROVE  IInv'
<1>1. Now = "in" /\ Now \notin Macros
  BY StepNow DEF In, Macros
<1>2. UNCHANGED <<reg, ef, reset_flag, pma_rx, pma_tx, loaded, others,
                  usb_req, buf>>
  BY InGoes DEF peripheral
<1>3. pma_tx' \in Packet
  BY <1>2 DEF IInv, Types, PeripheralTypes
<1>4. usb_req.packets \in Nat /\ chunk \in Nat /\ usb_force_nak \in BOOLEAN
      /\ usb_req \in Requests \cup {NoRequest}
  BY RequestFacts DEF IInv, Types, DriverTypes
<1>5. CASE usb_fsm_state = "DATA_IN"
  <2>1. [of |-> usb_req, number |-> chunk + 1] \in Packet
    BY <1>4 DEF Packet
  <2>2. todo' = <<Put([of |-> usb_req, number |-> chunk + 1])>>
    BY <1>5, InGoes
  <2>3. Shape'
    BY <2>1, <2>2 DEF Shape, Plain, Writing
  <2>4. Goal' = "write"
    BY <2>2, Ops DEF Goal
  <2>5. DriverTypes' /\ Counts'
    BY <1>2, <1>4, <1>5, <2>4, InGoes
       DEF IInv, Types, DriverTypes, States, Counts
  <2> QED BY <1>1, <1>2, <1>3, <2>3, <2>5, HandlerKeeps
<1>6. CASE usb_fsm_state # "DATA_IN"
  <2>1. /\ todo' \in {<<Open>>, <<>>, <<StallTx, StallRx>>}
        /\ usb_fsm_state' \in {"STATUS_OUT", "IDLE"} /\ chunk' = chunk
        /\ usb_force_nak' \in BOOLEAN
    BY <1>4, <1>6, InGoes
  <2>2. Shape'
    BY <2>1 DEF Shape, Plain, Finishing, Stalling
  <2>3. Goal' \notin {"data", "setup"}
    BY <2>1, Ops DEF Goal
  <2>4. DriverTypes' /\ Counts'
    BY <1>2, <1>4, <2>1, <2>3 DEF IInv, Types, DriverTypes, States, Counts
  <2> QED BY <1>1, <1>2, <1>3, <2>2, <2>4, HandlerKeeps
<1> QED BY <1>5, <1>6

LEMMA LoadKeeps ==
  ASSUME IInv, Load
  PROVE  IInv'
<1>1. AtMacro /\ loaded' = {reg} /\ UNCHANGED <<peripheral, todo, usb_fsm_state,
        usb_force_nak, usb_req, buf, chunk, others>>
  BY DEF Load
<1>2. AtMacro'
  BY <1>1 DEF AtMacro
<1>3. Types'
  BY <1>1, <1>2 DEF IInv, Types, PeripheralTypes, DriverTypes, LoadTypes,
     HostTypes, peripheral, others, host
<1> QED BY <1>1, <1>3, Undisturbed DEF peripheral

-----------------------------------------------------------------------------
\* What a store makes of the register stays a register, and a macro that sets
\* the status of the receiver drops no flag.
LEMMA StoredIsTyped ==
  ASSUME NEW now \in SUBSET Bits, NEW value
  PROVE  Stored(now, value) \in SUBSET Bits
  BY DEF Stored, Bits, Xor, NTOGGLE

LEMMA SetRxKeepsFlags ==
  ASSUME NEW now, NEW old, NEW s
  PROVE  now \cap CTRS \subseteq Stored(now, USB_SET_EP_RX_STAT(old, s))
  BY DEF Stored, USB_SET_EP_RX_STAT, TOG_SET_REG_BIT_MSK_AND_SET, CTRS

LEMMA StoreGoes ==
  ASSUME IInv, Store
  PROVE  /\ todo # <<>> /\ Now \in Macros /\ todo' = Tail(todo)
         /\ \E old \in SUBSET Bits :
              /\ loaded = {old} /\ reg' = Stored(reg, Value(Head(todo), old))
         /\ loaded' = {}
         /\ UNCHANGED <<ef, reset_flag, pma_rx, pma_tx, usb_fsm_state,
                        usb_force_nak, usb_req, buf, chunk, others>>
<1>1. AtMacro /\ loaded' = {} /\ todo' = Tail(todo)
      /\ UNCHANGED <<ef, reset_flag, pma_rx, pma_tx, usb_fsm_state,
                     usb_force_nak, usb_req, buf, chunk, others>>
  BY DEF Store
<1>2. PICK old \in loaded : reg' = Stored(reg, Value(Head(todo), old))
  BY DEF Store
<1>3. old \in SUBSET Bits /\ loaded = {old}
  BY DEF IInv, Types, LoadTypes
<1>4. todo # <<>> /\ Now \in Macros
  BY <1>1 DEF AtMacro, Now
<1> QED BY <1>1, <1>2, <1>3, <1>4

\* What the macros leave of a list.
LEMMA StoreShape ==
  ASSUME Shape, todo # <<>>, Now \in Macros, todo' = Tail(todo),
         UNCHANGED <<buf, pma_rx>>,
         Now = "set_rx" /\ "CTR_RX" \in reg => "CTR_RX" \in reg'
  PROVE  Shape'
<1>1. CASE todo \in SettingUp
  BY <1>1, SettingUpRuns DEF Runs, Shape, Plain, Finishing
<1>2. CASE todo \in Finishing
  BY <1>2, FinishingRuns DEF Runs, Shape, Plain, Finishing
<1>3. CASE todo \in Stalling
  BY <1>3, StallingRuns DEF Runs, Shape, Plain, Finishing, Stalling
<1>4. CASE todo \in Halting
  BY <1>4, HaltingRuns, PacketFacts DEF Runs, Shape, Plain, Halting, Writing
<1>5. CASE todo \in Writing
  BY <1>5, WritingRuns DEF Runs, Shape, Plain, Finishing
<1>6. CASE todo \in Unhalting
  BY <1>6, UnhaltingRuns, PacketFacts DEF Runs, Shape, Plain, Unhalting, Writing
<1>7. CASE todo \in UnhaltingIn
  BY <1>7, UnhaltingInRuns, PacketFacts
     DEF Runs, Shape, Plain, UnhaltingIn, Writing
<1>8. CASE todo \in Looking /\ "CTR_RX" \in reg
  BY <1>8, LookingRuns DEF Runs, Shape, Looking, Macros
<1>9. CASE todo \in Copying \cup HalfCopied
  BY <1>9, CopyingRuns, HalfCopiedRuns DEF Runs, Macros
<1>10. CASE todo \in Copied /\ buf[1] = buf[2]
  BY <1>10, CopiedRuns DEF Runs, Shape, Copied, Macros
<1> QED BY <1>1, <1>2, <1>3, <1>4, <1>5, <1>6, <1>7, <1>8, <1>9, <1>10
        DEF Shape, Plain

LEMMA StoreKeeps ==
  ASSUME IInv, Store
  PROVE  IInv'
<1>1. /\ todo # <<>> /\ Now \in Macros /\ todo' = Tail(todo) /\ loaded' = {}
      /\ UNCHANGED <<ef, reset_flag, pma_rx, pma_tx, usb_fsm_state,
                     usb_force_nak, usb_req, buf, chunk, others>>
  BY StoreGoes
<1>2. PICK old \in SUBSET Bits : /\ loaded = {old}
                                 /\ reg' = Stored(reg, Value(Head(todo), old))
  BY StoreGoes
<1>3. reg' \in SUBSET Bits
  BY <1>2, StoredIsTyped DEF IInv, Types, PeripheralTypes
<1>4. Types'
  BY <1>1, <1>3 DEF IInv, Types, PeripheralTypes, DriverTypes, LoadTypes,
     HostTypes, others, host
<1>5. Now = "set_rx" /\ "CTR_RX" \in reg => "CTR_RX" \in reg'
  <2>1. Now = "set_rx" => Value(Head(todo), old)
                            = USB_SET_EP_RX_STAT(old, Head(todo)[2])
    BY <1>1 DEF Value, Now
  <2> QED BY <1>2, <2>1, SetRxKeepsFlags DEF CTRS
<1>6. Shape'
  BY <1>1, <1>5, StoreShape DEF IInv
<1>7. Goal' \in {Goal, "poll"}
  BY <1>1, GoalStays DEF IInv
<1>8. Counts'
  BY <1>1, <1>7 DEF IInv, Counts
<1> QED BY <1>4, <1>6, <1>8 DEF IInv

LEMMA EndpointStep == IInv /\ [Next]_vars => IInv'
<1> SUFFICES ASSUME IInv, [Next]_vars PROVE IInv'
  OBVIOUS
<1>1. CASE UNCHANGED vars
  <2>1. UNCHANGED <<peripheral, driver, host, overtaken>>
    BY <1>1 DEF vars
  <2>2. Types'
    BY <2>1 DEF IInv, Types, PeripheralTypes, DriverTypes, LoadTypes, HostTypes,
       peripheral, driver, host, AtMacro
  <2> QED BY <2>1, <2>2, Undisturbed DEF peripheral, driver
<1>2. CASE Host
  BY <1>2, HostKeeps
<1>3. CASE Driver
  BY <1>3, PollKeeps, LookKeeps, ReadKeeps, CopyKeeps, WriteKeeps,
     DispatchKeeps, DataKeeps, InKeeps, LoadKeeps, StoreKeeps DEF Driver
<1> QED BY <1>1, <1>2, <1>3 DEF Next

\* What ties the handlers of usb.c to the register: the steps one has yet to do
\* tell which flag is raised, which half of a packet has been copied, which
\* request is served and how many of its packets have been moved.
THEOREM EndpointInvariant == Spec => []IInv
  BY EndpointInit, EndpointStep, PTL DEF Spec

\* A setup packet or a packet of data is dispatched only when both halves that
\* _usbd_ep_read_packet copied are of one packet, for every set of requests.
THEOREM PacketsStayWhole == Spec => []PacketsAreWhole
<1>1. IInv => PacketsAreWhole
  BY Finds DEF IInv, PacketsAreWhole, Now
<1> QED BY <1>1, EndpointInvariant, PTL

\* The names of the steps of every list.
StepNames == Macros \cup {"which", "read", "setup", "data", "in", "copy",
                          "write", "enable"}
Named(t) == \A i \in DOMAIN t : t[i][1] \in StepNames

LEMMA TodoIsNamed == Shape => Named(todo)
<1>1. /\ {Look[1], Fetch[1], ToSetup[1], ToData[1], ToIn[1], Half1[1], Half2[1],
          Ctr[1], CtrTx[1], Nak[1], Open[1], StallRx[1], NakTx[1], Send[1],
          StallTx[1], ClrRx[1], ClrTx[1], SetAddr[1], SetType[1], Enabling[1]}
           \subseteq StepNames
      /\ \A p : Put(p)[1] \in StepNames
  BY Ops DEF StepNames, Macros
<1>2. /\ Named(<<>>)
      /\ \A a : a[1] \in StepNames => Named(<<a>>)
      /\ \A a, b : {a[1], b[1]} \subseteq StepNames => Named(<<a, b>>)
      /\ \A a, b, c : {a[1], b[1], c[1]} \subseteq StepNames => Named(<<a, b, c>>)
      /\ \A a, b, c, d : {a[1], b[1], c[1], d[1]} \subseteq StepNames
                           => Named(<<a, b, c, d>>)
  BY DEF Named
<1>3. /\ \A a, b, c, d, e : {a[1], b[1], c[1], d[1], e[1]} \subseteq StepNames
                              => Named(<<a, b, c, d, e>>)
      /\ \A a, b, c, d, e, f :
           {a[1], b[1], c[1], d[1], e[1], f[1]} \subseteq StepNames
             => Named(<<a, b, c, d, e, f>>)
      /\ \A a, b, c, d, e, f, g :
           {a[1], b[1], c[1], d[1], e[1], f[1], g[1]} \subseteq StepNames
             => Named(<<a, b, c, d, e, f, g>>)
  BY DEF Named
<1>4. todo \in SettingUp => Named(todo)
  BY <1>1, <1>2, <1>3 DEF SettingUp
<1>5. todo \in Finishing => Named(todo)
  BY <1>1, <1>2 DEF Finishing
<1>6. todo \in Stalling \cup Halting => Named(todo)
  BY <1>1, <1>2 DEF Stalling, Halting
<1>7. todo \in Writing => Named(todo)
  BY <1>1, <1>2 DEF Writing
<1>8. todo \in Unhalting \cup UnhaltingIn => Named(todo)
  BY <1>1, <1>2 DEF Unhalting, UnhaltingIn
<1>9. todo \in Looking => Named(todo)
  BY <1>1, <1>2 DEF Looking
<1>10. todo \in Copying \cup HalfCopied => Named(todo)
  BY <1>1, <1>2, <1>3 DEF Copying, HalfCopied
<1>11. todo \in Copied => Named(todo)
  BY <1>1, <1>2 DEF Copied
<1> QED BY <1>4, <1>5, <1>6, <1>7, <1>8, <1>9, <1>10, <1>11 DEF Shape, Plain

\* The types of endpoint 0: what the driver has yet to do consists of its own
\* steps, one macro at a time holds one value of the register, and the packets
\* moved stay within the request (usb.c:342-377), for every set of
\* requests.
THEOREM TypeCorrect == Spec => []TypeOK
<1>1. ASSUME IInv PROVE TypeOK
  <2>1. PeripheralTypes /\ DriverTypes /\ LoadTypes /\ HostTypes /\ Shape
        /\ Counts
    BY <1>1 DEF IInv, Types
  <2>2. \A i \in DOMAIN todo : todo[i][1] \in StepNames
    BY <2>1, TodoIsNamed DEF Named
  <2>3. loaded # {} => AtMacro /\ Cardinality(loaded) = 1
    BY <2>1, FS_Singleton DEF LoadTypes
  <2>4. loaded \subseteq SUBSET Bits
    BY <2>1 DEF LoadTypes
  <2>5. reg \subseteq Bits /\ {pma_rx, pma_tx} \subseteq Packet
        /\ ef \in BOOLEAN /\ reset_flag \in BOOLEAN
    BY <2>1 DEF PeripheralTypes
  <2>6. chunk \in Nat
        /\ (usb_req.kind \in {"read", "write"} => chunk <= usb_req.packets)
        /\ usb_fsm_state \in States /\ usb_force_nak \in BOOLEAN
        /\ usb_req \in Requests \cup {NoRequest} /\ buf \in [1 .. 2 -> Packet]
    BY <2>1 DEF DriverTypes, Counts
  <2> QED BY <2>1, <2>2, <2>3, <2>4, <2>5, <2>6, Zenon
          DEF TypeOK, StepNames, Bits, HostTypes, Turns, States
<1> QED BY <1>1, EndpointInvariant, PTL

-----------------------------------------------------------------------------
(***************************************************************************)
(* The register by its parts: what the host's transactions and the stores  *)
(* of the macros do to the statuses, the flags and the toggles.            *)
(***************************************************************************)
Rx == reg \cap RX_STAT
Tx == reg \cap TX_STAT

LEMMA Statuses ==
  /\ RX.disabled = {} /\ RX.stall = {"RX0"} /\ RX.nak = {"RX1"}
  /\ RX.valid = {"RX1", "RX0"} /\ RX_STAT = {"RX1", "RX0"}
  /\ TX.disabled = {} /\ TX.stall = {"TX0"} /\ TX.nak = {"TX1"}
  /\ TX.valid = {"TX1", "TX0"} /\ TX_STAT = {"TX1", "TX0"}
  /\ CTRS = {"CTR_RX", "CTR_TX"} /\ DTOGS = {"DTOG_RX", "DTOG_TX"}
  BY DEF RX, TX, Stat, RX_STAT, TX_STAT, CTRS, DTOGS

\* The stores, whatever was loaded.
SetsRx(now, new, old, s) ==
  /\ new \cap TX_STAT = now \cap TX_STAT
  /\ "CTR_RX" \in new <=> "CTR_RX" \in now
  /\ "CTR_TX" \in new <=> "CTR_TX" \in now
  /\ "SETUP" \in new <=> "SETUP" \in now
  /\ "DTOG_RX" \in new <=> "DTOG_RX" \in now
  /\ "DTOG_TX" \in new <=> "DTOG_TX" \in now
  /\ new \cap RX_STAT = Xor(Xor(now \cap RX_STAT, old \cap RX_STAT), s)

LEMMA SetRxDoes ==
  ASSUME NEW now \in SUBSET Bits, NEW old \in SUBSET Bits,
         NEW s \in SUBSET RX_STAT
  PROVE  SetsRx(now, Stored(now, USB_SET_EP_RX_STAT(old, s)), old, s)
<1> DEFINE new == Stored(now, USB_SET_EP_RX_STAT(old, s))
<1> USE DEF Bits, Stored, TOG_SET_REG_BIT_MSK_AND_SET, RX_STAT_TOG_MSK,
            Xor, NTOGGLE, TOGGLE, CTRS, TYPE, DTOGS, RX_STAT, TX_STAT,
            USB_SET_EP_RX_STAT
<1>1. new \cap TX_STAT = now \cap TX_STAT
  OBVIOUS
<1>2. /\ ("CTR_RX" \in new <=> "CTR_RX" \in now)
      /\ ("CTR_TX" \in new <=> "CTR_TX" \in now)
      /\ ("SETUP" \in new <=> "SETUP" \in now)
      /\ ("DTOG_RX" \in new <=> "DTOG_RX" \in now)
      /\ ("DTOG_TX" \in new <=> "DTOG_TX" \in now)
  OBVIOUS
<1>3. new \cap RX_STAT = Xor(Xor(now \cap RX_STAT, old \cap RX_STAT), s)
  OBVIOUS
<1> HIDE DEF new, Stored, Xor
<1> QED BY <1>1, <1>2, <1>3 DEF SetsRx, new

SetsTx(now, new, old, s) ==
  /\ new \cap RX_STAT = now \cap RX_STAT
  /\ "CTR_RX" \in new <=> "CTR_RX" \in now
  /\ "CTR_TX" \in new <=> "CTR_TX" \in now
  /\ "SETUP" \in new <=> "SETUP" \in now
  /\ "DTOG_RX" \in new <=> "DTOG_RX" \in now
  /\ "DTOG_TX" \in new <=> "DTOG_TX" \in now
  /\ new \cap TX_STAT = Xor(Xor(now \cap TX_STAT, old \cap TX_STAT), s)

LEMMA SetTxDoes ==
  ASSUME NEW now \in SUBSET Bits, NEW old \in SUBSET Bits,
         NEW s \in SUBSET TX_STAT
  PROVE  SetsTx(now, Stored(now, USB_SET_EP_TX_STAT(old, s)), old, s)
<1> DEFINE new == Stored(now, USB_SET_EP_TX_STAT(old, s))
<1> USE DEF Bits, Stored, TOG_SET_REG_BIT_MSK_AND_SET, TX_STAT_TOG_MSK,
            Xor, NTOGGLE, TOGGLE, CTRS, TYPE, DTOGS, RX_STAT, TX_STAT,
            USB_SET_EP_TX_STAT
<1>1. new \cap RX_STAT = now \cap RX_STAT
  OBVIOUS
<1>2. /\ ("CTR_RX" \in new <=> "CTR_RX" \in now)
      /\ ("CTR_TX" \in new <=> "CTR_TX" \in now)
      /\ ("SETUP" \in new <=> "SETUP" \in now)
      /\ ("DTOG_RX" \in new <=> "DTOG_RX" \in now)
      /\ ("DTOG_TX" \in new <=> "DTOG_TX" \in now)
  OBVIOUS
<1>3. new \cap TX_STAT = Xor(Xor(now \cap TX_STAT, old \cap TX_STAT), s)
  OBVIOUS
<1> HIDE DEF new, Stored, Xor
<1> QED BY <1>1, <1>2, <1>3 DEF SetsTx, new

LEMMA ClrCtrDoes ==
  ASSUME NEW now \in SUBSET Bits, NEW old \in SUBSET Bits, NEW new,
         NEW ctr \in CTRS,
         new = Stored(now, IF ctr = "CTR_RX" THEN USB_CLR_EP_RX_CTR(old)
                           ELSE USB_CLR_EP_TX_CTR(old))
  PROVE  /\ new \cap RX_STAT = now \cap RX_STAT
         /\ new \cap TX_STAT = now \cap TX_STAT
         /\ ("CTR_RX" \in new <=> "CTR_RX" \in now /\ ctr # "CTR_RX")
         /\ ("CTR_TX" \in new <=> "CTR_TX" \in now /\ ctr # "CTR_TX")
         /\ ("SETUP" \in new <=> "SETUP" \in now)
         /\ ("DTOG_RX" \in new <=> "DTOG_RX" \in now)
         /\ ("DTOG_TX" \in new <=> "DTOG_TX" \in now)
  BY DEF Bits, Stored, CLR_REG_BIT_MSK_AND_SET, Xor, NTOGGLE, TOGGLE, CTRS,
         TYPE, DTOGS, RX_STAT, TX_STAT, USB_CLR_EP_RX_CTR, USB_CLR_EP_TX_CTR

\* Those that clear a toggle, and those of the set-up, store the flags as they
\* read them.
LEMMA OthersDo ==
  ASSUME NEW now \in SUBSET Bits, NEW old \in SUBSET Bits, NEW new,
         new \in { Stored(now, USB_CLR_EP_RX_DTOG(old)),
                   Stored(now, USB_CLR_EP_TX_DTOG(old)),
                   Stored(now, USB_SET_EP_TYPE(old, CONTROL)),
                   Stored(now, USB_SET_EP_ADDR(old)) }
  PROVE  /\ new \cap RX_STAT = now \cap RX_STAT
         /\ new \cap TX_STAT = now \cap TX_STAT
         /\ "SETUP" \in new <=> "SETUP" \in now
         /\ \A ctr \in CTRS : ctr \in new <=> ctr \in now /\ ctr \in old
<1> USE DEF Bits, Stored, Xor, NTOGGLE, TOGGLE, CTRS, TYPE, DTOGS, RX_STAT,
            TX_STAT, CONTROL
<1>1. CASE new = Stored(now, USB_CLR_EP_RX_DTOG(old))
  BY <1>1 DEF USB_CLR_EP_RX_DTOG
<1>2. CASE new = Stored(now, USB_CLR_EP_TX_DTOG(old))
  BY <1>2 DEF USB_CLR_EP_TX_DTOG
<1>3. CASE new = Stored(now, USB_SET_EP_TYPE(old, CONTROL))
  BY <1>3 DEF USB_SET_EP_TYPE
<1>4. CASE new = Stored(now, USB_SET_EP_ADDR(old))
  BY <1>4 DEF USB_SET_EP_ADDR
<1> QED BY <1>1, <1>2, <1>3, <1>4

LEMMA ClrDtogDoes ==
  ASSUME NEW now \in SUBSET Bits, NEW old \in SUBSET Bits, NEW new
  PROVE  /\ new = Stored(now, USB_CLR_EP_RX_DTOG(old)) =>
              "DTOG_TX" \in new <=> "DTOG_TX" \in now
         /\ new = Stored(now, USB_CLR_EP_TX_DTOG(old)) =>
              "DTOG_RX" \in new <=> "DTOG_RX" \in now
  BY DEF Bits, Stored, Xor, NTOGGLE, TOGGLE, CTRS, TYPE, DTOGS, RX_STAT,
         TX_STAT, USB_CLR_EP_RX_DTOG, USB_CLR_EP_TX_DTOG

\* What the next macro stores.
StatusSet ==
  /\ Now = "set_rx" => \E s \in {RX.stall, RX.nak, RX.valid} : Head(todo)[2] = s
  /\ Now = "set_tx" => \E s \in {TX.stall, TX.nak, TX.valid} : Head(todo)[2] = s

LEMMA StatusIsTyped == Shape => StatusSet
<1>1. todo \in SettingUp => StatusSet
  BY SettingUpRuns, Ops DEF Runs, StatusSet
<1>2. todo \in Finishing => StatusSet
  BY FinishingRuns, Ops DEF Runs, StatusSet
<1>3. todo \in Stalling => StatusSet
  BY StallingRuns, Ops DEF Runs, StatusSet
<1>4. todo \in Writing => StatusSet
  BY WritingRuns, Ops DEF Runs, StatusSet
<1>5. todo \in Halting => StatusSet
  BY HaltingRuns, Ops DEF Runs, StatusSet
<1>6. todo \in Unhalting => StatusSet
  BY UnhaltingRuns, Ops DEF Runs, StatusSet
<1>7. todo \in UnhaltingIn => StatusSet
  BY UnhaltingInRuns, Ops DEF Runs, StatusSet
<1>8. todo \in Looking => StatusSet
  BY LookingRuns, Ops DEF Runs, StatusSet
<1>9. todo \in Copying \cup HalfCopied => StatusSet
  BY CopyingRuns, HalfCopiedRuns DEF Runs, StatusSet
<1>10. todo \in Copied => StatusSet
  BY CopiedRuns, Ops DEF Runs, StatusSet
<1> QED BY <1>1, <1>2, <1>3, <1>4, <1>5, <1>6, <1>7, <1>8, <1>9, <1>10
        DEF Shape, Plain

Same(b) == b \in reg' <=> b \in reg

\* A store, by the macro it belongs to.
LEMMA StoreDoes ==
  ASSUME IInv, Store
  PROVE  \E old \in SUBSET Bits :
           /\ loaded = {old}
           /\ Now = "set_rx" =>
                \E s \in {RX.stall, RX.nak, RX.valid} :
                  /\ Head(todo)[2] = s
                  /\ Rx' = Xor(Xor(Rx, old \cap RX_STAT), s)
                  /\ Tx' = Tx /\ Same("CTR_RX") /\ Same("CTR_TX")
                  /\ Same("SETUP") /\ Same("DTOG_RX") /\ Same("DTOG_TX")
           /\ Now = "set_tx" =>
                \E s \in {TX.stall, TX.nak, TX.valid} :
                  /\ Head(todo)[2] = s
                  /\ Tx' = Xor(Xor(Tx, old \cap TX_STAT), s)
                  /\ Rx' = Rx /\ Same("CTR_RX") /\ Same("CTR_TX")
                  /\ Same("SETUP") /\ Same("DTOG_RX") /\ Same("DTOG_TX")
           /\ Now = "clr_rx_ctr" =>
                /\ Rx' = Rx /\ Tx' = Tx /\ "CTR_RX" \notin reg'
                /\ Same("CTR_TX") /\ Same("SETUP")
                /\ Same("DTOG_RX") /\ Same("DTOG_TX")
           /\ Now = "clr_tx_ctr" =>
                /\ Rx' = Rx /\ Tx' = Tx /\ "CTR_TX" \notin reg'
                /\ Same("CTR_RX") /\ Same("SETUP")
                /\ Same("DTOG_RX") /\ Same("DTOG_TX")
           /\ Now \in {"clr_rx_dtog", "clr_tx_dtog", "set_type", "set_addr"} =>
                /\ Rx' = Rx /\ Tx' = Tx /\ Same("SETUP")
                /\ \A ctr \in CTRS : ctr \in reg' <=> ctr \in reg /\ ctr \in old
           /\ Now = "clr_rx_dtog" => Same("DTOG_TX")
           /\ Now = "clr_tx_dtog" => Same("DTOG_RX")
<1>1. PICK old \in SUBSET Bits : /\ loaded = {old}
                                 /\ reg' = Stored(reg, Value(Head(todo), old))
  BY StoreGoes
<1>2. reg \in SUBSET Bits
  BY DEF IInv, Types, PeripheralTypes
<1>3. todo # <<>> /\ (Now # "poll" => Head(todo)[1] = Now)
  BY StoreGoes DEF Now
<1>4. CASE Now = "set_rx"
  <2>1. PICK s \in {RX.stall, RX.nak, RX.valid} : Head(todo)[2] = s
    BY <1>4, StatusIsTyped DEF IInv, StatusSet
  <2>2. reg' = Stored(reg, USB_SET_EP_RX_STAT(old, s))
    BY <1>1, <1>3, <1>4, <2>1 DEF Value
  <2>3. s \in SUBSET RX_STAT
    BY <2>1, Statuses
  <2>4. /\ Rx' = Xor(Xor(Rx, old \cap RX_STAT), s)
        /\ Tx' = Tx /\ Same("CTR_RX") /\ Same("CTR_TX")
        /\ Same("SETUP") /\ Same("DTOG_RX") /\ Same("DTOG_TX")
    <3>1. SetsRx(reg, reg', old, s)
      BY <1>2, <2>2, <2>3, SetRxDoes
    <3> QED BY <3>1 DEF SetsRx, Rx, Tx, Same
  <2> QED BY <1>1, <1>4, <2>1, <2>4
<1>5. CASE Now = "set_tx"
  <2>1. PICK s \in {TX.stall, TX.nak, TX.valid} : Head(todo)[2] = s
    BY <1>5, StatusIsTyped DEF IInv, StatusSet
  <2>2. reg' = Stored(reg, USB_SET_EP_TX_STAT(old, s))
    BY <1>1, <1>3, <1>5, <2>1 DEF Value
  <2>3. s \in SUBSET TX_STAT
    BY <2>1, Statuses
  <2>4. /\ Tx' = Xor(Xor(Tx, old \cap TX_STAT), s)
        /\ Rx' = Rx /\ Same("CTR_RX") /\ Same("CTR_TX")
        /\ Same("SETUP") /\ Same("DTOG_RX") /\ Same("DTOG_TX")
    <3>1. SetsTx(reg, reg', old, s)
      BY <1>2, <2>2, <2>3, SetTxDoes
    <3> QED BY <3>1 DEF SetsTx, Rx, Tx, Same
  <2> QED BY <1>1, <1>5, <2>1, <2>4
<1>6. CASE Now = "clr_rx_ctr"
  <2>1. reg' = Stored(reg, USB_CLR_EP_RX_CTR(old))
    BY <1>1, <1>3, <1>6 DEF Value
  <2>2. /\ Rx' = Rx /\ Tx' = Tx /\ "CTR_RX" \notin reg'
        /\ Same("CTR_TX") /\ Same("SETUP")
        /\ Same("DTOG_RX") /\ Same("DTOG_TX")
    BY <1>2, <2>1, ClrCtrDoes DEF Rx, Tx, Same, CTRS, DTOGS
  <2> QED BY <1>1, <1>6, <2>2
<1>7. CASE Now = "clr_tx_ctr"
  <2>1. reg' = Stored(reg, USB_CLR_EP_TX_CTR(old))
    BY <1>1, <1>3, <1>7 DEF Value
  <2>2. /\ Rx' = Rx /\ Tx' = Tx /\ "CTR_TX" \notin reg'
        /\ Same("CTR_RX") /\ Same("SETUP")
        /\ Same("DTOG_RX") /\ Same("DTOG_TX")
    BY <1>2, <2>1, ClrCtrDoes DEF Rx, Tx, Same, CTRS, DTOGS
  <2> QED BY <1>1, <1>7, <2>2
<1>8. CASE Now \in {"clr_rx_dtog", "clr_tx_dtog", "set_type", "set_addr"}
  <2>1. /\ Now = "clr_rx_dtog" => reg' = Stored(reg, USB_CLR_EP_RX_DTOG(old))
        /\ Now = "clr_tx_dtog" => reg' = Stored(reg, USB_CLR_EP_TX_DTOG(old))
        /\ Now = "set_type" => reg' = Stored(reg, USB_SET_EP_TYPE(old, CONTROL))
        /\ Now = "set_addr" => reg' = Stored(reg, USB_SET_EP_ADDR(old))
    BY <1>1, <1>3, <1>8 DEF Value
  <2>2. /\ Rx' = Rx /\ Tx' = Tx /\ Same("SETUP")
        /\ \A ctr \in CTRS : ctr \in reg' <=> ctr \in reg /\ ctr \in old
    BY <1>2, <1>8, <2>1, OthersDo DEF Rx, Tx, Same
  <2>3. /\ Now = "clr_rx_dtog" => Same("DTOG_TX")
        /\ Now = "clr_tx_dtog" => Same("DTOG_RX")
    BY <1>2, <2>1, ClrDtogDoes DEF Same
  <2> QED BY <1>1, <1>8, <2>2, <2>3
<1>9. Now \in Macros
  BY StoreGoes
<1> QED BY <1>4, <1>5, <1>6, <1>7, <1>8, <1>9 DEF Macros

\* The transactions of the host.
LEMMA HostSetupDoes ==
  ASSUME NEW r, HostSetup(r)
  PROVE  /\ ef /\ Rx # RX.disabled /\ "CTR_RX" \notin reg
         /\ Rx' = RX.nak /\ Tx' = TX.nak
         /\ {"CTR_RX", "SETUP", "DTOG_RX", "DTOG_TX"} \subseteq reg'
         /\ Same("CTR_TX")
  BY Statuses DEF HostSetup, Rx, Tx, Same, TYPE

LEMMA HostReadsDoes ==
  ASSUME NEW acked \in BOOLEAN, HostReads(acked)
  PROVE  /\ Tx = TX.valid /\ Turn("in") /\ Rx' = Rx
         /\ Same("CTR_RX") /\ Same("SETUP") /\ Same("DTOG_RX")
         /\ acked => /\ Tx' = TX.nak /\ "CTR_TX" \in reg'
                     /\ "DTOG_TX" \in reg' <=> "DTOG_TX" \notin reg
         /\ ~acked => reg' = reg
<1>1. CASE acked
  <2>1. reg' = Xor(reg \ TX_STAT, {"DTOG_TX"}) \cup TX.nak \cup {"CTR_TX"}
    BY <1>1 DEF HostReads
  <2> QED BY <1>1, <2>1, Statuses DEF HostReads, Rx, Tx, Same, Xor
<1>2. CASE ~acked
  <2>1. reg' = reg
    BY <1>2 DEF HostReads
  <2> QED BY <1>2, <2>1 DEF HostReads, Rx, Tx, Same
<1> QED BY <1>1, <1>2

LEMMA HostSendsDoes ==
  ASSUME NEW acked \in BOOLEAN, HostSends(acked)
  PROVE  /\ Rx = RX.valid /\ "CTR_RX" \notin reg /\ Turn("out")
         /\ Tx' = Tx /\ Same("CTR_TX") /\ Same("DTOG_TX")
         /\ IF ("DTOG_RX" \in reg) = Toggle
            THEN /\ Rx' = RX.nak /\ "CTR_RX" \in reg' /\ "SETUP" \notin reg'
                 /\ "DTOG_RX" \in reg' <=> "DTOG_RX" \notin reg
            ELSE reg' = reg
<1>1. CASE ("DTOG_RX" \in reg) = Toggle
  <2>1. reg' = Xor(reg \ (RX_STAT \cup {"SETUP"}), {"DTOG_RX"})
                 \cup RX.nak \cup {"CTR_RX"}
    BY <1>1 DEF HostSends
  <2>2. /\ Rx = RX.valid /\ "CTR_RX" \notin reg /\ Turn("out")
    BY DEF HostSends, Rx
  <2>3. Rx' = RX.nak /\ Tx' = Tx
    BY <2>1, Statuses DEF Rx, Tx, Xor
  <2>4. /\ "CTR_RX" \in reg' /\ "SETUP" \notin reg'
        /\ "DTOG_RX" \in reg' <=> "DTOG_RX" \notin reg
        /\ Same("CTR_TX") /\ Same("DTOG_TX")
    BY <2>1, Statuses DEF Same, Xor
  <2> QED BY <1>1, <2>2, <2>3, <2>4
<1>2. CASE ("DTOG_RX" \in reg) # Toggle
  <2>1. reg' = reg
    BY <1>2 DEF HostSends
  <2> QED BY <1>2, <2>1 DEF HostSends, Rx, Tx, Same
<1> QED BY <1>1, <1>2

LEMMA BusResetDoes ==
  ASSUME BusReset
  PROVE  /\ ~Resetting /\ reset_flag' = TRUE /\ ef' = FALSE /\ stages' = <<>>
         /\ Same("CTR_RX") /\ Same("CTR_TX") /\ Rx' = {} /\ Tx' = {}
<1>1. PICK setup \in SUBSET (reg \cap {"SETUP"}) :
             reg' = (reg \cap CTRS) \cup setup
  BY DEF BusReset
<1>2. Same("CTR_RX") /\ Same("CTR_TX") /\ Rx' = {} /\ Tx' = {}
  BY <1>1, Statuses DEF Same, Rx, Tx
<1> QED BY <1>2 DEF BusReset

-----------------------------------------------------------------------------
(***************************************************************************)
(* The receiver is not left disabled.  First what holds with a bus reset   *)
(* or an answer under way; the end of a list tells what it is about.       *)
(***************************************************************************)
Last == IF todo = <<>> THEN Do("poll") ELSE todo[Len(todo)]
Prev == IF todo = <<>> THEN Do("poll")
        ELSE IF Len(todo) = 1 THEN Do("poll") ELSE todo[Len(todo) - 1]

Closed ==
  /\ Last = Enabling => ~ef /\ ~reset_flag /\ loaded \subseteq {reg}
  /\ reset_flag => ~ef
  /\ ~ef => stages = <<>>
  /\ Prev = Open /\ Last = Put(Empty) => usb_req.kind = "clear_halt"
  /\ Prev = ClrTx => usb_req.kind = "clear_halt_in"
  /\ Last = StallRx => usb_fsm_state = "IDLE"
  /\ Prev = StallRx => usb_fsm_state = "STATUS_IN"

LEMMA OpsDiffer ==
  /\ Enabling # StallRx /\ Open # StallRx /\ Open # ClrTx /\ ClrTx # StallRx
  /\ \A p : Put(p) \notin {Enabling, StallRx, Open, ClrTx}
  /\ {Look, Fetch, ToSetup, ToData, ToIn, Half1, Half2, Ctr, CtrTx, Nak, Send,
      NakTx, ClrRx, SetAddr, SetType, StallTx, Do("poll")}
       \cap {Enabling, StallRx, Open, ClrTx} = {}
  /\ \A p : {Look, Fetch, ToSetup, ToData, ToIn, Half1, Half2, Ctr, CtrTx, Nak,
             Send, NakTx, ClrRx, SetAddr, SetType, StallTx, Do("poll")}
              \cap {Put(p)} = {}
<1>1. Do("poll")[1] = "poll"
  BY DEF Do
<1>2. StallRx[2] # Open[2] /\ StallRx[2] # Nak[2] /\ Open[2] # Nak[2]
  BY Ops, Statuses
<1>3. /\ Enabling # StallRx /\ Open # StallRx /\ Open # ClrTx
      /\ ClrTx # StallRx
  BY Ops, <1>2
<1>4. \A p : Put(p) \notin {Enabling, StallRx, Open, ClrTx}
  BY Ops
<1>5. /\ {Look, Fetch, ToSetup, ToData, ToIn, Half1, Half2, Ctr, CtrTx, Nak,
          Send, NakTx, ClrRx, SetAddr, SetType, StallTx, Do("poll")}
           \cap {Enabling, StallRx, Open, ClrTx} = {}
  BY Ops, <1>1, <1>2
<1>6. \A p : {Look, Fetch, ToSetup, ToData, ToIn, Half1, Half2, Ctr, CtrTx, Nak,
              Send, NakTx, ClrRx, SetAddr, SetType, StallTx, Do("poll")}
               \cap {Put(p)} = {}
  BY Ops, <1>1
<1> QED BY <1>3, <1>4, <1>5, <1>6

EndForms ==
  /\ todo = <<>> => Last = Do("poll") /\ Prev = Do("poll")
  /\ \A a : todo = <<a>> => Last = a /\ Prev = Do("poll")
  /\ \A a, b : todo = <<a, b>> => Last = b /\ Prev = a
  /\ \A a, b, c : todo = <<a, b, c>> => Last = c /\ Prev = b
  /\ \A a, b, c, d : todo = <<a, b, c, d>> => Last = d /\ Prev = c
  /\ \A a, b, c, d, e : todo = <<a, b, c, d, e>> => Last = e /\ Prev = d
  /\ \A a, b, c, d, e, f : todo = <<a, b, c, d, e, f>> => Last = f /\ Prev = e
  /\ \A a, b, c, d, e, f, g :
       todo = <<a, b, c, d, e, f, g>> => Last = g /\ Prev = f

LEMMA Ends == EndForms
<1> USE DEF EndForms
<1>1. /\ todo = <<>> => Last = Do("poll") /\ Prev = Do("poll")
      /\ \A a : todo = <<a>> => Last = a /\ Prev = Do("poll")
      /\ \A a, b : todo = <<a, b>> => Last = b /\ Prev = a
  BY DEF Last, Prev
<1>2. \A a, b, c : todo = <<a, b, c>> => Last = c /\ Prev = b
  BY DEF Last, Prev
<1>3. \A a, b, c, d : todo = <<a, b, c, d>> => Last = d /\ Prev = c
  BY DEF Last, Prev
<1>4. \A a, b, c, d, e : todo = <<a, b, c, d, e>> => Last = e /\ Prev = d
  BY DEF Last, Prev
<1>5. \A a, b, c, d, e, f : todo = <<a, b, c, d, e, f>> => Last = f /\ Prev = e
  BY DEF Last, Prev
<1>6. \A a, b, c, d, e, f, g :
        todo = <<a, b, c, d, e, f, g>> => Last = g /\ Prev = f
  BY DEF Last, Prev
<1> QED BY <1>1, <1>2, <1>3, <1>4, <1>5, <1>6, Zenon

LEMMA EndsAfter == EndForms'
  BY Ends, PTL

\* What is left of a list ends as it did.
LEMMA EndsStay ==
  ASSUME Shape, todo # <<>>, todo' = Tail(todo)
  PROVE  Last' \in {Last, Do("poll")} /\ Prev' \in {Prev, Do("poll")}
<1>0. PICK S : todo \in Seq(S)
  BY TodoIsList DEF IsList
<1>1. CASE todo' = <<>>
  BY <1>1 DEF Last, Prev
<1>2. CASE todo' # <<>>
  <2>1. Len(todo') = Len(todo) - 1 /\ Len(todo) \in Nat /\ Len(todo') > 0
    BY <1>0, <1>2
  <2>2. todo'[Len(todo')] = todo[Len(todo)]
    BY <1>0, <2>1
  <2>3. Len(todo') > 1 => todo'[Len(todo') - 1] = todo[Len(todo) - 1]
    BY <1>0, <2>1
  <2> QED BY <1>2, <2>1, <2>2, <2>3 DEF Last, Prev
<1> QED BY <1>1, <1>2

\* While the endpoint is set up the bus stays in reset.
LEMMA EnablingResets ==
  ASSUME Shape, Last = Enabling
  PROVE  Resetting
<1>0. PICK S : todo \in Seq(S)
  BY TodoIsList DEF IsList
<1>1. todo # <<>> /\ Len(todo) \in DOMAIN todo /\ todo[Len(todo)] = Enabling
  <2>1. todo # <<>>
    BY OpsDiffer DEF Last
  <2> QED BY <1>0, <2>1 DEF Last
<1>2. todo[Len(todo)][1] = "enable"
  BY <1>1, Ops
<1> QED BY <1>1, <1>2 DEF Resetting

LEMMA ClosedInit == Init => Closed
<1> SUFFICES ASSUME Init PROVE Closed
  OBVIOUS
<1>1. Last = Do("poll") /\ Prev = Do("poll")
  BY Ends DEF Init, EndForms
<1> QED BY <1>1, OpsDiffer DEF Init, Closed

\* The steps of the driver that neither poll nor store.
LEMMA HandlerCloses ==
  ASSUME Closed, UNCHANGED <<ef, reset_flag, stages>>, Last' # Enabling,
         Prev' = Open /\ Last' = Put(Empty) => usb_req'.kind = "clear_halt",
         Prev' = ClrTx => usb_req'.kind = "clear_halt_in",
         Last' = StallRx => usb_fsm_state' = "IDLE",
         Prev' = StallRx => usb_fsm_state' = "STATUS_IN"
  PROVE  Closed'
  BY DEF Closed

\* Those that leave nothing of the kind.
LEMMA PlainCloses ==
  ASSUME Closed, UNCHANGED <<ef, reset_flag, stages>>,
         Last' \notin {Enabling, StallRx, Put(Empty)},
         Prev' \notin {ClrTx, StallRx}
  PROVE  Closed'
  BY DEF Closed

LEMMA HostCloses ==
  ASSUME IInv, Closed, Host
  PROVE  Closed'
<1>1. ASSUME NEW r \in Requests, HostSetup(r) PROVE Closed'
  <2>1. ef /\ UNCHANGED <<ef, reset_flag, driver>>
    BY <1>1 DEF HostSetup
  <2>2. Last' = Last /\ Prev' = Prev
    BY <2>1 DEF Last, Prev, driver
  <2> QED BY <2>1, <2>2 DEF Closed, driver
<1>2. ASSUME UNCHANGED <<ef, reset_flag, driver>>, stages # <<>> PROVE Closed'
  <2>1. Last' = Last /\ Prev' = Prev
    BY <1>2 DEF Last, Prev, driver
  <2> QED BY <1>2, <2>1 DEF Closed, driver
<1>3. ASSUME NEW acked \in BOOLEAN, HostReads(acked) \/ HostSends(acked)
      PROVE  Closed'
  BY <1>2, <1>3 DEF HostReads, HostSends, Turn
<1>4. CASE HostStalled
  BY <1>2, <1>4 DEF HostStalled, Turn, peripheral
<1>5. CASE BusReset
  <2>1. /\ ~Resetting /\ UNCHANGED driver /\ ef' = FALSE /\ stages' = <<>>
    BY <1>5 DEF BusReset
  <2>2. Last' = Last /\ Prev' = Prev
    BY <2>1 DEF Last, Prev, driver
  <2>3. Last # Enabling
    BY <2>1, EnablingResets DEF IInv
  <2> QED BY <2>1, <2>2, <2>3 DEF Closed, driver
<1> QED BY <1>1, <1>3, <1>4, <1>5 DEF Host

LEMMA OpenIsPlain ==
  /\ {Open, Ctr, Do("poll")} \cap {Enabling, StallRx, Put(Empty)} = {}
  /\ {Do("poll"), Ctr} \cap {ClrTx, StallRx} = {}
<1>1. Open # Put(Empty) /\ Ctr # Put(Empty) /\ Do("poll") # Put(Empty)
  BY OpsDiffer
<1>2. {Ctr, Do("poll")} \cap {Enabling, StallRx, Open, ClrTx} = {}
  BY OpsDiffer
<1>3. Open # Enabling /\ Open # StallRx
  BY Ops, OpsDiffer
<1> QED BY <1>1, <1>2, <1>3

LEMMA PollCloses ==
  ASSUME IInv, Closed, PollReset \/ PollReceived \/ PollSent \/ Enable
  PROVE  Closed'
<1>1. CASE PollReset
  <2>1. todo' = <<SetAddr, SetType, ClrTx, NakTx, ClrRx, Open, Enabling>>
    BY <1>1, Zenon DEF PollReset, SetUp, SetAddr, SetType, ClrTx, NakTx,
       ClrRx, Open, Enabling
  <2>2. Last' = Enabling /\ Prev' = Open
    BY <2>1, EndsAfter DEF EndForms
  <2>3. Now = "poll"
    BY <1>1 DEF PollReset, Polling, Now
  <2>4. loaded' = {}
    BY <1>1, <2>3, NotLoaded DEF PollReset, driver_but_todo, Macros
  <2>5. ~ef' /\ ~reset_flag' /\ stages' = <<>>
    BY <1>1 DEF PollReset, Closed, others, host
  <2> QED BY <2>2, <2>4, <2>5, OpsDiffer DEF Closed
<1>2. CASE PollReceived
  <2>1. todo' = <<Look>>
    BY <1>2 DEF PollReceived, Look
  <2>2. Last' = Look /\ Prev' = Do("poll")
    BY <2>1, EndsAfter DEF EndForms
  <2> QED BY <1>2, <2>2, OpsDiffer, PlainCloses
          DEF PollReceived, peripheral, others, host
<1>3. CASE PollSent
  <2>1. todo' = <<CtrTx, ToIn>>
    BY <1>3 DEF PollSent, CtrTx, ToIn
  <2>2. Last' = ToIn /\ Prev' = CtrTx
    BY <2>1, EndsAfter DEF EndForms
  <2> QED BY <1>3, <2>2, OpsDiffer, PlainCloses
          DEF PollSent, peripheral, others, host
<1>4. CASE Enable
  <2>1. todo = <<Enabling>>
    BY <1>4, StepNow, Finds DEF Enable, IInv
  <2>2. Last = Enabling
    BY <2>1, Ends DEF EndForms
  <2>3. todo' = <<>> /\ ef' = TRUE /\ UNCHANGED <<reset_flag, stages>>
    BY <1>4 DEF Enable, others, host
  <2>4. Last' = Do("poll") /\ Prev' = Do("poll")
    BY <2>3, EndsAfter DEF EndForms
  <2> QED BY <2>2, <2>3, <2>4, OpsDiffer DEF Closed
<1> QED BY <1>1, <1>2, <1>3, <1>4

LEMMA StallCloses ==
  ASSUME Closed, UNCHANGED <<ef, reset_flag, stages>>,
         todo' = <<StallTx, StallRx>>, usb_fsm_state' = "IDLE"
  PROVE  Closed'
<1>1. Last' = StallRx /\ Prev' = StallTx
  BY EndsAfter DEF EndForms
<1> QED BY <1>1, OpsDiffer, HandlerCloses

LEMMA LookCloses ==
  ASSUME IInv, Closed, Setup \/ Out
  PROVE  Closed'
<1>1. UNCHANGED <<ef, reset_flag, stages>>
  BY DEF Setup, Out, peripheral, others, host
<1>2. CASE Setup
  <2>1. todo' = <<Nak, Fetch, ToSetup>>
    BY <1>2 DEF Setup, Nak, Fetch, ToSetup
  <2>2. Last' = ToSetup /\ Prev' = Fetch
    BY <2>1, EndsAfter DEF EndForms
  <2> QED BY <1>1, <2>2, OpsDiffer, PlainCloses
<1>3. CASE Out
  <2>1. \/ todo' = <<Fetch, ToData>>
        \/ todo' = <<Fetch>>
        \/ todo' = <<StallTx, StallRx>> /\ usb_fsm_state' = "IDLE"
    BY <1>3, StallIs DEF Out, Fetch, ToData
  <2>2. CASE todo' = <<Fetch, ToData>> \/ todo' = <<Fetch>>
    <3>1. Last' \in {ToData, Fetch} /\ Prev' \in {Fetch, Do("poll")}
      BY <2>2, EndsAfter DEF EndForms
    <3> QED BY <1>1, <3>1, OpsDiffer, PlainCloses
  <2> QED BY <1>1, <2>1, <2>2, StallCloses
<1> QED BY <1>2, <1>3

LEMMA ReadCloses ==
  ASSUME IInv, Closed, Read
  PROVE  Closed'
<1>1. UNCHANGED <<ef, reset_flag, stages>>
  BY DEF Read, peripheral, others, host
<1>2. CASE todo' \in {<<>>, <<Ctr>>, <<Ctr, Open>>}
  <2>1. Last' \in {Do("poll"), Ctr, Open} /\ Prev' \in {Do("poll"), Ctr}
    <3>1. CASE todo' = <<>>
      BY <3>1, EndsAfter DEF EndForms
    <3>2. CASE todo' = <<Ctr>>
      BY <3>2, EndsAfter DEF EndForms
    <3>3. CASE todo' = <<Ctr, Open>>
      BY <3>3, EndsAfter DEF EndForms
    <3> QED BY <1>2, <3>1, <3>2, <3>3
  <2> QED BY <1>1, <2>1, OpenIsPlain, PlainCloses
<1>3. ASSUME NEW u \in {ToSetup, ToData},
             \/ todo' = <<Half1, Half2, Ctr, u>>
             \/ todo' = <<Half1, Half2, Ctr, Open, u>>
      PROVE  Closed'
  <2>1. Last' = u /\ Prev' \in {Ctr, Open}
    <3>1. CASE todo' = <<Half1, Half2, Ctr, u>>
      BY <3>1, EndsAfter DEF EndForms
    <3>2. CASE todo' = <<Half1, Half2, Ctr, Open, u>>
      BY <3>2, EndsAfter DEF EndForms
    <3> QED BY <1>3, <3>1, <3>2
  <2> QED BY <1>1, <2>1, OpsDiffer, PlainCloses
<1>4. \/ todo' \in {<<>>, <<Ctr>>, <<Ctr, Open>>}
      \/ todo' = <<StallTx, StallRx>> /\ usb_fsm_state' = "IDLE"
      \/ \E u \in {ToSetup, ToData} :
           \/ todo' = <<Half1, Half2, Ctr, u>>
           \/ todo' = <<Half1, Half2, Ctr, Open, u>>
  BY ReadGoes
<1> QED BY <1>1, <1>2, <1>3, <1>4, StallCloses

\* What follows a list follows from it.
LEMMA TailCloses ==
  ASSUME IInv, Closed, todo # <<>>, todo' = Tail(todo), Last = Enabling => loaded' = {},
         UNCHANGED <<ef, reset_flag, stages, usb_req, usb_fsm_state>>
  PROVE  Closed'
<1>1. Last' \in {Last, Do("poll")} /\ Prev' \in {Prev, Do("poll")}
  BY EndsStay DEF IInv
<1> QED BY <1>1, OpsDiffer DEF Closed

LEMMA CopyCloses ==
  ASSUME IInv, Closed, Copy
  PROVE  Closed'
<1>1. Now = "copy" /\ todo # <<>>
  BY StepNow DEF Copy, Step
<1>2. loaded' = {}
  BY <1>1, NotLoaded DEF Copy, Macros
<1> QED BY <1>1, <1>2, TailCloses DEF Copy, peripheral, others, host

LEMMA WriteCloses ==
  ASSUME IInv, Closed, Write
  PROVE  Closed'
<1>1. PICK p \in Packet : todo = <<Put(p)>> /\ Runs("write", Put(p), <<>>)
  BY StepNow, Finds DEF Write, IInv
<1>2. todo' \in {<<>>, <<Send>>}
  <2>1. Tail(todo) = <<>> /\ <<Send>> \o <<>> = <<Send>>
    BY <1>1, Joins DEF Runs
  <2> QED BY <2>1 DEF Write, Send
<1>3. Last' \in {Send, Do("poll")} /\ Prev' = Do("poll")
  BY <1>2, EndsAfter DEF EndForms
<1> QED BY <1>3, OpsDiffer, PlainCloses DEF Write, others, host

LEMMA DispatchCloses ==
  ASSUME IInv, Closed, Dispatch
  PROVE  Closed'
<1> DEFINE r == buf[1].of
<1>1. UNCHANGED <<ef, reset_flag, stages>> /\ usb_req' = r
  BY DispatchGoes DEF peripheral, others, host
<1>2. r.kind \in Kinds
  BY RequestFacts DEF IInv, Types, DriverTypes, Packet
<1> HIDE DEF r
<1>3. ASSUME NEW p, todo' = <<Put(p)>> PROVE Closed'
  <2>1. Last' = Put(p) /\ Prev' = Do("poll")
    BY <1>3, EndsAfter DEF EndForms
  <2> QED BY <1>1, <2>1, OpsDiffer, HandlerCloses
<1>4. CASE r.kind = "read" \/ r.kind = "plain"
  BY <1>3, <1>4, DispatchGoes DEF r
<1>5. CASE r.kind = "write"
  <2>1. todo' = <<Open>>
    BY <1>5, DispatchGoes DEF r
  <2>2. Last' = Open /\ Prev' = Do("poll")
    BY <2>1, EndsAfter DEF EndForms
  <2> QED BY <1>1, <2>2, OpenIsPlain, PlainCloses
<1>6. CASE r.kind = "unknown"
  BY <1>1, <1>6, StallCloses, DispatchGoes DEF r
<1>7. CASE r.kind = "set_halt"
  <2>1. todo' = <<StallTx, StallRx, Put(Empty)>> /\ usb_fsm_state' = "STATUS_IN"
    BY <1>7, DispatchGoes DEF r
  <2>2. Last' = Put(Empty) /\ Prev' = StallRx
    BY <2>1, EndsAfter DEF EndForms
  <2> QED BY <1>1, <2>1, <2>2, OpsDiffer, HandlerCloses
<1>8. CASE r.kind = "clear_halt"
  <2>1. todo' = <<NakTx, ClrRx, Open, Put(Empty)>>
    BY <1>8, DispatchGoes DEF r
  <2>2. Last' = Put(Empty) /\ Prev' = Open
    BY <2>1, EndsAfter DEF EndForms
  <2> QED BY <1>1, <1>8, <2>2, OpsDiffer, HandlerCloses
<1>9. CASE r.kind = "clear_halt_in"
  <2>1. todo' = <<NakTx, ClrTx, Put(Empty)>>
    BY <1>9, DispatchGoes DEF r
  <2>2. Last' = Put(Empty) /\ Prev' = ClrTx
    BY <2>1, EndsAfter DEF EndForms
  <2> QED BY <1>1, <1>9, <2>2, OpsDiffer, HandlerCloses
<1> QED BY <1>2, <1>4, <1>5, <1>6, <1>7, <1>8, <1>9 DEF Kinds

LEMMA DataCloses ==
  ASSUME IInv, Closed, Data \/ In
  PROVE  Closed'
<1>1. UNCHANGED <<ef, reset_flag, stages>>
  BY DataGoes, InGoes DEF peripheral, others, host
<1>2. ASSUME NEW p, todo' = <<Put(p)>> PROVE Closed'
  <2>1. Last' = Put(p) /\ Prev' = Do("poll")
    BY <1>2, EndsAfter DEF EndForms
  <2> QED BY <1>1, <2>1, OpsDiffer, HandlerCloses
<1>3. ASSUME todo' \in {<<>>, <<Open>>} PROVE Closed'
  <2>1. Last' \in {Do("poll"), Open} /\ Prev' = Do("poll")
    BY <1>3, EndsAfter DEF EndForms
  <2> QED BY <1>1, <2>1, OpenIsPlain, PlainCloses
<1>4. CASE Data
  BY <1>2, <1>3, <1>4, DataGoes
<1>5. CASE In
  <2>1. CASE usb_fsm_state = "DATA_IN"
    BY <1>2, <1>5, <2>1, InGoes
  <2>2. CASE usb_fsm_state # "DATA_IN"
    <3>1. \/ todo' \in {<<>>, <<Open>>}
          \/ todo' = <<StallTx, StallRx>> /\ usb_fsm_state' = "IDLE"
      BY <1>5, <2>2, InGoes
    <3> QED BY <1>1, <1>3, <3>1, StallCloses
  <2> QED BY <2>1, <2>2
<1> QED BY <1>4, <1>5

LEMMA MacroCloses ==
  ASSUME IInv, Closed, Load \/ Store
  PROVE  Closed'
<1>1. CASE Load
  <2>1. loaded' = {reg'} /\ UNCHANGED <<todo, ef, reset_flag, stages, usb_req,
                                        usb_fsm_state>>
    BY <1>1 DEF Load, peripheral, others, host
  <2>2. Last' = Last /\ Prev' = Prev
    BY <2>1 DEF Last, Prev
  <2> QED BY <2>1, <2>2 DEF Closed
<1>2. CASE Store
  BY <1>2, StoreGoes, TailCloses DEF others, host
<1> QED BY <1>1, <1>2

LEMMA ClosedStep == IInv /\ Closed /\ [Next]_vars => Closed'
<1> SUFFICES ASSUME IInv, Closed, [Next]_vars PROVE Closed'
  OBVIOUS
<1>1. CASE UNCHANGED vars
  <2>1. UNCHANGED <<peripheral, driver, host>>
    BY <1>1 DEF vars
  <2>2. Last' = Last /\ Prev' = Prev
    BY <2>1 DEF Last, Prev, driver
  <2> QED BY <2>1, <2>2 DEF Closed, peripheral, driver, host
<1>2. CASE Host
  BY <1>2, HostCloses
<1>3. CASE Driver
  BY <1>3, PollCloses, LookCloses, ReadCloses, CopyCloses, WriteCloses,
     DispatchCloses, DataCloses, MacroCloses DEF Driver
<1> QED BY <1>1, <1>2, <1>3 DEF Next

-----------------------------------------------------------------------------
(***************************************************************************)
(* A macro that sets the status of the receiver toggles the bits in which  *)
(* what it read differs from what it wants.  The peripheral may have taken *)
(* a packet in between, and then the receiver may end up disabled; but the *)
(* reception is flagged, and taking it sets the status again.              *)
(***************************************************************************)
\* The status of the receiver has yet to be set.
Setting ==
  UNION { SettingUp \ {<<Enabling>>}, Stalling, Halting, Unhalting,
          { <<Nak, Fetch, ToSetup>>, <<Half1, Half2, Ctr, Open, ToData>>,
            <<Half2, Ctr, Open, ToData>>, <<Ctr, Open, ToData>>,
            <<Open, ToData>>, <<Ctr, Open>>, <<Open>> } }

Waiting == {<<>>, <<Look>>, <<ToData>>} \cup Writing

Differs ==
  Now = "set_rx" /\ ~reset_flag =>
    \A old \in loaded :
      \/ old \cap RX_STAT = Rx
      \/ /\ "CTR_RX" \in reg /\ Rx = RX.nak /\ Head(todo) # Nak
         /\ "SETUP" \in reg \/ old \cap RX_STAT = RX.valid

Recovers ==
  Rx = RX.disabled =>
    \/ reset_flag \/ todo \in Setting
    \/ /\ "CTR_RX" \in reg /\ todo \in Waiting
       /\ \/ "SETUP" \in reg
          \/ todo # <<ToData>> /\ usb_fsm_state \in {"IDLE", "STATUS_IN"}

LEMMA SettingRuns ==
  ASSUME todo \in Setting
  PROVE  /\ todo # <<>>
         /\ Now \in {"set_rx", "set_tx", "set_addr", "set_type", "clr_rx_dtog",
                     "clr_tx_dtog", "clr_rx_ctr", "copy"}
         /\ Now # "set_rx" => Tail(todo) \in Setting
<1>1. CASE todo \in SettingUp \ {<<Enabling>>}
  <2>1. \/ \E r \in SettingUp :
             \/ Runs("set_addr", SetAddr, r) \/ Runs("set_type", SetType, r)
             \/ Runs("clr_tx_dtog", ClrTx, r) \/ Runs("set_tx", NakTx, r)
             \/ Runs("clr_rx_dtog", ClrRx, r)
        \/ Runs("set_rx", Open, <<Enabling>>)
    BY <1>1, SettingUpRuns
  <2>2. Now # "set_rx" => Tail(todo) # <<Enabling>>
    <3>1. CASE todo = <<Open, Enabling>>
      BY <3>1, Ops DEF Now
    <3>2. CASE todo \in SettingUp \ {<<Open, Enabling>>, <<Enabling>>}
      <4>1. CASE todo = <<SetAddr, SetType, ClrTx, NakTx, ClrRx, Open, Enabling>>
        BY <4>1, Ops
      <4>2. CASE todo = <<SetType, ClrTx, NakTx, ClrRx, Open, Enabling>>
        BY <4>2, Ops
      <4>3. CASE todo = <<ClrTx, NakTx, ClrRx, Open, Enabling>>
        BY <4>3, Ops
      <4>4. CASE todo = <<NakTx, ClrRx, Open, Enabling>>
        BY <4>4, Ops
      <4>5. CASE todo = <<ClrRx, Open, Enabling>>
        BY <4>5, Ops
      <4> QED BY <3>2, <4>1, <4>2, <4>3, <4>4, <4>5 DEF SettingUp
    <3> QED BY <1>1, <3>1, <3>2
  <2> QED BY <2>1, <2>2 DEF Runs, Setting
<1>2. CASE todo \in Stalling
  BY <1>2, StallingRuns DEF Runs, Setting, Stalling
<1>3. CASE todo \in Halting
  BY <1>3, HaltingRuns DEF Runs, Setting, Halting
<1>4. CASE todo \in Unhalting
  BY <1>4, UnhaltingRuns DEF Runs, Setting, Unhalting
<1>5. CASE todo = <<Nak, Fetch, ToSetup>>
  BY <1>5, Ops DEF Now
<1>6. CASE todo = <<Half1, Half2, Ctr, Open, ToData>>
  BY <1>6, Ops DEF Now, Setting
<1>7. CASE todo = <<Half2, Ctr, Open, ToData>>
  BY <1>7, Ops DEF Now, Setting
<1>8. CASE todo = <<Ctr, Open, ToData>>
  BY <1>8, Ops DEF Now, Setting
<1>9. CASE todo = <<Open, ToData>>
  BY <1>9, Ops DEF Now
<1>10. CASE todo = <<Ctr, Open>>
  BY <1>10, Ops DEF Now, Setting
<1>11. CASE todo = <<Open>>
  BY <1>11, Ops DEF Now
<1> QED BY <1>1, <1>2, <1>3, <1>4, <1>5, <1>6, <1>7, <1>8, <1>9, <1>10, <1>11
        DEF Setting

LEMMA SettingIsLeft ==
  ASSUME todo \in Setting
  PROVE  \E i \in DOMAIN todo : todo[i][1] = "set_rx"
<1>1. CASE todo \in SettingUp \ {<<Enabling>>}
  <2>1. CASE todo = <<SetAddr, SetType, ClrTx, NakTx, ClrRx, Open, Enabling>>
    <3>1. todo[6] = Open /\ 6 \in DOMAIN todo
      BY <2>1
    <3> QED BY <3>1, Ops
  <2>2. CASE todo = <<SetType, ClrTx, NakTx, ClrRx, Open, Enabling>>
    <3>1. todo[5] = Open /\ 5 \in DOMAIN todo
      BY <2>2
    <3> QED BY <3>1, Ops
  <2>3. CASE todo = <<ClrTx, NakTx, ClrRx, Open, Enabling>>
    <3>1. todo[4] = Open /\ 4 \in DOMAIN todo
      BY <2>3
    <3> QED BY <3>1, Ops
  <2>4. CASE todo = <<NakTx, ClrRx, Open, Enabling>>
    <3>1. todo[3] = Open /\ 3 \in DOMAIN todo
      BY <2>4
    <3> QED BY <3>1, Ops
  <2>5. CASE todo = <<ClrRx, Open, Enabling>>
    <3>1. todo[2] = Open /\ 2 \in DOMAIN todo
      BY <2>5
    <3> QED BY <3>1, Ops
  <2>6. CASE todo = <<Open, Enabling>>
    <3>1. todo[1] = Open /\ 1 \in DOMAIN todo
      BY <2>6
    <3> QED BY <3>1, Ops
  <2> QED BY <1>1, <2>1, <2>2, <2>3, <2>4, <2>5, <2>6 DEF SettingUp
<1>2. CASE todo \in {<<StallTx, StallRx>>, <<StallTx, StallRx, Put(Empty)>>}
  <2>1. todo[2] = StallRx /\ 2 \in DOMAIN todo
    BY <1>2
  <2> QED BY <2>1, Ops
<1>3. CASE todo \in {<<StallRx>>, <<StallRx, Put(Empty)>>}
  <2>1. todo[1] = StallRx /\ 1 \in DOMAIN todo
    BY <1>3
  <2> QED BY <2>1, Ops
<1>4. CASE todo \in {<<NakTx, ClrRx, Open, Put(Empty)>>, <<Half2, Ctr, Open, ToData>>}
  <2>1. todo[3] = Open /\ 3 \in DOMAIN todo
    BY <1>4
  <2> QED BY <2>1, Ops
<1>5. CASE todo \in {<<ClrRx, Open, Put(Empty)>>, <<Ctr, Open, ToData>>, <<Ctr, Open>>}
  <2>1. todo[2] = Open /\ 2 \in DOMAIN todo
    <3>1. CASE todo = <<ClrRx, Open, Put(Empty)>>
      BY <3>1
    <3>2. CASE todo = <<Ctr, Open, ToData>>
      BY <3>2
    <3>3. CASE todo = <<Ctr, Open>>
      BY <3>3
    <3> QED BY <1>5, <3>1, <3>2, <3>3
  <2> QED BY <2>1, Ops
<1>6. CASE todo \in {<<Open, Put(Empty)>>, <<Open, ToData>>, <<Open>>}
  <2>1. todo[1] = Open /\ 1 \in DOMAIN todo
    BY <1>6
  <2> QED BY <2>1, Ops
<1>7. CASE todo = <<Nak, Fetch, ToSetup>>
  <2>1. todo[1] = Nak /\ 1 \in DOMAIN todo
    BY <1>7
  <2> QED BY <2>1, Ops
<1>8. CASE todo = <<Half1, Half2, Ctr, Open, ToData>>
  <2>1. todo[4] = Open /\ 4 \in DOMAIN todo
    BY <1>8
  <2> QED BY <2>1, Ops
<1> QED BY <1>1, <1>2, <1>3, <1>4, <1>5, <1>6, <1>7, <1>8
        DEF Setting, Stalling, Halting, Unhalting

LEMMA WaitingNow ==
  ASSUME todo \in Waiting
  PROVE  /\ Now \in {"poll", "which", "data", "set_tx", "write"}
         /\ Now = "set_tx" => Tail(todo) = <<>>
<1>1. CASE todo \in Writing
  BY <1>1, WritingRuns DEF Runs
<1>2. CASE todo \in {<<>>, <<Look>>, <<ToData>>}
  BY <1>2, Ops DEF Now
<1> QED BY <1>1, <1>2 DEF Waiting

\* What is next when it is to set the status of the receiver.
LEMMA SetRxRuns ==
  ASSUME Shape, Now = "set_rx"
  PROVE  \/ Head(todo) = Nak /\ "CTR_RX" \in reg /\ Tail(todo) = <<Fetch, ToSetup>>
         \/ Head(todo) = Open /\ Last = Enabling /\ Tail(todo) = <<Enabling>>
         \/ Head(todo) = Open /\ Tail(todo) \in {<<>>, <<ToData>>, <<Put(Empty)>>}
         \/ Head(todo) = StallRx /\ Last = StallRx /\ Tail(todo) = <<>>
         \/ Head(todo) = StallRx /\ Prev = StallRx /\ Tail(todo) = <<Put(Empty)>>
<1>1. CASE todo \in SettingUp
  <2>1. Last = Enabling
    BY <1>1, Ends DEF EndForms, SettingUp
  <2> QED BY <1>1, <2>1, SettingUpRuns DEF Runs
<1>2. CASE todo \in Finishing
  BY <1>2, FinishingRuns DEF Runs
<1>3. CASE todo \in Stalling
  <2>1. todo = <<StallRx>> => Last = StallRx
    BY Ends DEF EndForms
  <2> QED BY <1>3, <2>1, StallingRuns DEF Runs
<1>4. CASE todo \in Halting
  <2>1. todo = <<StallRx, Put(Empty)>> => Prev = StallRx
    BY Ends DEF EndForms
  <2> QED BY <1>4, <2>1, HaltingRuns DEF Runs
<1>5. CASE todo \in Writing
  BY <1>5, WritingRuns DEF Runs
<1>6. CASE todo \in Unhalting \cup UnhaltingIn
  BY <1>6, UnhaltingRuns, UnhaltingInRuns DEF Runs
<1>7. CASE todo \in Looking /\ "CTR_RX" \in reg
  BY <1>7, LookingRuns DEF Runs
<1>8. CASE todo \in Copying \cup HalfCopied
  BY <1>8, CopyingRuns, HalfCopiedRuns DEF Runs
<1>9. CASE todo \in Copied
  BY <1>9, CopiedRuns DEF Runs
<1> QED BY <1>1, <1>2, <1>3, <1>4, <1>5, <1>6, <1>7, <1>8, <1>9
        DEF Shape, Plain

LEMMA DiffersStep == IInv /\ Differs /\ [Next]_vars => Differs'
<1> SUFFICES ASSUME IInv, Differs, [Next]_vars PROVE Differs'
  OBVIOUS
<1>1. ASSUME UNCHANGED <<todo, loaded, reset_flag>>,
             Now = "set_rx" /\ ~reset_flag =>
               \A old \in loaded :
                 \/ old \cap RX_STAT = Rx'
                 \/ /\ "CTR_RX" \in reg' /\ Rx' = RX.nak /\ Head(todo) # Nak
                    /\ "SETUP" \in reg' \/ old \cap RX_STAT = RX.valid
      PROVE  Differs'
  <2>1. Now' = Now
    BY <1>1 DEF Now
  <2> QED BY <1>1, <2>1 DEF Differs
<1>2. ASSUME UNCHANGED <<todo, loaded, reset_flag>>, Rx' = Rx,
             Same("CTR_RX"), Same("SETUP")
      PROVE  Differs'
  BY <1>1, <1>2 DEF Differs, Same
<1>3. ASSUME loaded' = {} PROVE Differs'
  BY <1>3 DEF Differs
\* When the status of the receiver is next and a reception is not flagged.
<1>4. ASSUME Now = "set_rx", "CTR_RX" \notin reg, ~reset_flag
      PROVE  Head(todo) # Nak /\ \A old \in loaded : old \cap RX_STAT = Rx
  <2>1. Open # Nak /\ StallRx # Nak
    BY Ops, Statuses
  <2> QED BY <1>4, <2>1, SetRxRuns DEF IInv, Differs
<1>5. ASSUME NEW r \in Requests, HostSetup(r) PROVE Differs'
  <2>1. UNCHANGED <<todo, loaded, reset_flag>>
    BY <1>5 DEF HostSetup, driver
  <2>2. "CTR_RX" \notin reg /\ {"CTR_RX", "SETUP"} \subseteq reg' /\ Rx' = RX.nak
    BY <1>5, HostSetupDoes
  <2> QED BY <1>1, <1>4, <2>1, <2>2
<1>6. ASSUME NEW acked \in BOOLEAN, HostReads(acked) PROVE Differs'
  <2>1. UNCHANGED <<todo, loaded, reset_flag>>
    BY <1>6 DEF HostReads, driver
  <2>2. Rx' = Rx /\ Same("CTR_RX") /\ Same("SETUP")
    BY <1>6, HostReadsDoes
  <2> QED BY <1>2, <2>1, <2>2
<1>7. ASSUME NEW acked \in BOOLEAN, HostSends(acked) PROVE Differs'
  <2>1. UNCHANGED <<todo, loaded, reset_flag>>
    BY <1>7 DEF HostSends, driver
  <2>2. Rx = RX.valid /\ "CTR_RX" \notin reg
    BY <1>7, HostSendsDoes
  <2>3. CASE reg' = reg
    BY <1>2, <2>1, <2>3 DEF Rx, Same
  <2>4. CASE Rx' = RX.nak /\ "CTR_RX" \in reg'
    BY <1>1, <1>4, <2>1, <2>2, <2>4
  <2> QED BY <1>7, <2>3, <2>4, HostSendsDoes
<1>8. CASE HostStalled
  <2>1. UNCHANGED <<todo, loaded, reset_flag, reg>>
    BY <1>8 DEF HostStalled, driver, peripheral
  <2> QED BY <1>2, <2>1 DEF Rx, Same
<1>9. CASE BusReset
  BY <1>9, BusResetDoes DEF Differs
<1>10. CASE Load
  <2>1. loaded' = {reg'}
    BY <1>10 DEF Load, peripheral
  <2> QED BY <2>1 DEF Differs, Rx
<1>11. CASE Store
  BY <1>3, <1>11, StoreGoes
<1>12. CASE Driver /\ ~Load /\ ~Store
  <2>1. loaded' = loaded
    BY <1>12 DEF Driver, PollReset, Enable, PollReceived, PollSent, Setup, Out,
       In, Dispatch, Data, Read, Copy, Write, driver_but_todo
  <2>2. Now \notin Macros
    <3>1. CASE PollReset \/ PollReceived \/ PollSent
      BY <3>1 DEF PollReset, PollReceived, PollSent, Polling, Now, Macros
    <3>2. CASE Enable \/ Setup \/ Out \/ In \/ Dispatch \/ Data
      BY <3>2, StepNow DEF Enable, Setup, Out, In, Dispatch, Data, Macros
    <3>3. CASE Read \/ Copy \/ Write
      <4>1. Step("read") \/ Step("copy") \/ Step("write")
        BY <3>3, Zenon DEF Read, Copy, Write
      <4> QED BY <4>1, StepNow DEF Macros
    <3> QED BY <1>12, <3>1, <3>2, <3>3 DEF Driver
  <2> QED BY <1>3, <2>1, <2>2, NotLoaded
<1>13. CASE UNCHANGED vars
  <2>1. UNCHANGED <<todo, loaded, reset_flag, reg>>
    BY <1>13 DEF vars, driver, peripheral
  <2> QED BY <1>2, <2>1 DEF Rx, Same
<1> QED BY <1>5, <1>6, <1>7, <1>8, <1>9, <1>10, <1>11, <1>12, <1>13
        DEF Next, Host

LEMMA NonEmpty ==
  /\ RX.nak # RX.disabled /\ RX.valid # RX.disabled /\ RX.stall # RX.disabled
  BY Statuses

LEMMA HostRecovers ==
  ASSUME IInv, Recovers, Host
  PROVE  Recovers'
<1>1. ASSUME UNCHANGED <<todo, reset_flag, usb_fsm_state>>, Rx' = Rx,
             Same("CTR_RX"), Same("SETUP")
      PROVE  Recovers'
  BY <1>1 DEF Recovers, Same
<1>2. ASSUME NEW r \in Requests, HostSetup(r) PROVE Recovers'
  BY <1>2, HostSetupDoes, NonEmpty DEF Recovers
<1>3. ASSUME NEW acked \in BOOLEAN, HostReads(acked) PROVE Recovers'
  <2>1. UNCHANGED <<todo, usb_fsm_state, reset_flag>>
    BY <1>3 DEF HostReads, driver
  <2> QED BY <1>1, <1>3, <2>1, HostReadsDoes
<1>4. ASSUME NEW acked \in BOOLEAN, HostSends(acked) PROVE Recovers'
  <2>1. Rx' \in {RX.nak, RX.valid}
    BY <1>4, HostSendsDoes DEF Rx
  <2> QED BY <2>1, NonEmpty DEF Recovers
<1>5. CASE HostStalled
  <2>1. UNCHANGED <<todo, usb_fsm_state, reset_flag, reg>>
    BY <1>5 DEF HostStalled, driver, peripheral
  <2> QED BY <1>1, <2>1 DEF Rx, Same
<1>6. CASE BusReset
  BY <1>6, BusResetDoes DEF Recovers
<1> QED BY <1>2, <1>3, <1>4, <1>5, <1>6 DEF Host

LEMMA PollRecovers ==
  ASSUME IInv, Closed, Recovers, PollReset \/ PollReceived \/ PollSent \/ Enable
  PROVE  Recovers'
<1>1. reg' = reg /\ Rx' = Rx /\ Now \in {"poll", "enable"}
  BY StepNow DEF PollReset, PollReceived, PollSent, Enable, peripheral, Rx,
     Polling, Now
<1>2. todo \notin Setting
  BY <1>1, SettingRuns
<1>3. CASE PollReset
  <2>1. todo' = <<SetAddr, SetType, ClrTx, NakTx, ClrRx, Open, Enabling>>
    BY <1>3, Zenon DEF PollReset, SetUp, SetAddr, SetType, ClrTx, NakTx,
       ClrRx, Open, Enabling
  <2>2. todo' # <<Enabling>>
    BY <2>1, Ops
  <2> QED BY <2>1, <2>2 DEF Recovers, Setting, SettingUp
<1>4. CASE PollReceived
  <2>1. todo = <<>> /\ todo' = <<Look>> /\ ~reset_flag
        /\ usb_fsm_state' = usb_fsm_state
    BY <1>4 DEF PollReceived, Polling, Look, driver_but_todo
  <2>2. <<>> # <<ToData>> /\ <<Look>> # <<ToData>>
    BY Ops
  <2> QED BY <1>1, <1>2, <2>1, <2>2 DEF Recovers, Waiting
<1>5. CASE PollSent
  <2>1. ~reset_flag /\ "CTR_RX" \notin reg
    BY <1>5 DEF PollSent, CTRS
  <2> QED BY <1>1, <1>2, <2>1 DEF Recovers
<1>6. CASE Enable
  <2>1. todo = <<Enabling>> /\ Now = "enable"
    BY <1>6, StepNow, Finds DEF Enable, IInv
  <2>2. Last = Enabling
    BY <2>1, Ends DEF EndForms
  <2>3. ~reset_flag /\ todo \notin Waiting
    BY <2>1, <2>2, WaitingNow DEF Closed
  <2> QED BY <1>1, <1>2, <2>3 DEF Recovers
<1> QED BY <1>3, <1>4, <1>5, <1>6

LEMMA HandlerRecovers ==
  ASSUME IInv, Recovers,
         \/ Setup \/ Out \/ Read \/ Copy \/ Write \/ Dispatch \/ Data \/ In
  PROVE  Recovers'
<1>1. UNCHANGED <<reg, reset_flag>> /\ Rx' = Rx
  BY DEF Setup, Out, Read, Copy, Write, Dispatch, Data, In, peripheral, Rx
<1>2. CASE Setup
  <2>1. todo' = <<Nak, Fetch, ToSetup>>
    BY <1>2 DEF Setup, Nak, Fetch, ToSetup
  <2> QED BY <2>1 DEF Recovers, Setting
<1>3. CASE Out
  <2>1. Now = "which" /\ "SETUP" \notin reg
    BY <1>3, StepNow DEF Out
  <2>2. todo \notin Setting
    BY <2>1, SettingRuns
  <2>3. usb_fsm_state \in {"IDLE", "STATUS_IN"} => todo' \in Setting
    BY <1>3, StallIs DEF Out, Setting, Stalling
  <2> QED BY <1>1, <2>1, <2>2, <2>3 DEF Recovers
<1>4. CASE Read \/ Dispatch \/ In
  <2>1. Now \in {"read", "setup", "in"}
    BY <1>4, StepNow DEF Read, Dispatch, In
  <2>2. todo \notin Setting /\ todo \notin Waiting
    BY <2>1, SettingRuns, WaitingNow
  <2> QED BY <1>1, <2>2 DEF Recovers
<1>5. CASE Copy
  <2>1. Now = "copy" /\ todo' = Tail(todo)
    BY <1>5, StepNow DEF Copy
  <2>2. todo \notin Waiting /\ (todo \in Setting => todo' \in Setting)
    BY <2>1, SettingRuns, WaitingNow
  <2> QED BY <1>1, <2>2 DEF Recovers
<1>6. CASE Write
  <2>1. Now = "write" /\ usb_fsm_state' = usb_fsm_state
    BY <1>6, StepNow DEF Write, driver_but_todo
  <2>2. todo \notin Setting
    BY <2>1, SettingRuns
  <2>3. PICK p \in Packet : todo = <<Put(p)>> /\ Runs("write", Put(p), <<>>)
    BY <2>1, Finds DEF IInv
  <2>4. todo' \in {<<>>, <<Send>>}
    <3>1. Tail(todo) = <<>> /\ <<Send>> \o <<>> = <<Send>>
      BY <2>3, Joins DEF Runs
    <3> QED BY <1>6, <3>1 DEF Write, Send
  <2>5. todo' \in Waiting /\ todo' # <<ToData>>
    <3>1. <<Send>> # <<ToData>> /\ <<>> # <<ToData>>
      BY Ops
    <3>2. {<<>>, <<Send>>} \subseteq Waiting
      BY DEF Waiting, Writing
    <3> QED BY <2>4, <3>1, <3>2
  <2>6. todo # <<ToData>>
    BY <2>1, Ops DEF Now
  <2> QED BY <1>1, <2>1, <2>2, <2>5, <2>6 DEF Recovers
<1>7. CASE Data
  <2>1. todo = <<ToData>> /\ Now = "data"
    BY <1>7, StepNow, Finds DEF Data, IInv
  <2>2. todo \notin Setting
    BY <2>1, SettingRuns
  <2>3. todo' \in {<<>>, <<Put(Empty)>>}
    BY <1>7, DataGoes
  <2>4. todo' \in Waiting
    BY <2>3, PacketFacts DEF Waiting, Writing
  <2> QED BY <1>1, <2>1, <2>2, <2>4 DEF Recovers
<1> QED BY <1>2, <1>3, <1>4, <1>5, <1>6, <1>7

LEMMA StoreRecovers ==
  ASSUME IInv, Closed, Differs, Recovers, Store
  PROVE  Recovers'
<1>1. /\ todo' = Tail(todo) /\ Now \in Macros
      /\ UNCHANGED <<reset_flag, usb_fsm_state>>
  BY StoreGoes
<1>2. CASE Now # "set_rx"
  <2>1. Rx' = Rx
    BY <1>1, <1>2, StoreDoes DEF Macros
  <2>2. todo \in Setting => todo' \in Setting
    BY <1>1, <1>2, SettingRuns
  <2>3. todo \in Waiting => /\ Now = "set_tx" /\ todo' = <<>>
                            /\ Same("CTR_RX") /\ Same("SETUP")
    BY <1>1, WaitingNow, StoreDoes DEF Macros
  <2>4. <<>> \in Waiting /\ <<>> # <<ToData>>
    BY DEF Waiting
  <2>5. todo \in Waiting => todo # <<ToData>>
    BY <2>3, Ops DEF Now
  <2> QED BY <1>1, <2>1, <2>2, <2>3, <2>4, <2>5 DEF Recovers, Same
<1>3. CASE Now = "set_rx" /\ ~reset_flag
  <2>1. PICK old \in SUBSET Bits :
          /\ loaded = {old}
          /\ \E s \in {RX.stall, RX.nak, RX.valid} :
               /\ Head(todo)[2] = s
               /\ Rx' = Xor(Xor(Rx, old \cap RX_STAT), s)
          /\ Same("CTR_RX") /\ Same("SETUP")
    BY <1>3, StoreDoes
  <2>2. PICK s \in {RX.stall, RX.nak, RX.valid} :
               /\ Head(todo)[2] = s
               /\ Rx' = Xor(Xor(Rx, old \cap RX_STAT), s)
    BY <2>1
  <2>3. CASE old \cap RX_STAT = Rx
    <3>1. Rx' = s
      BY <2>2, <2>3 DEF Xor
    <3> QED BY <3>1, NonEmpty DEF Recovers
  <2>4. CASE old \cap RX_STAT # Rx
    <3>1. /\ "CTR_RX" \in reg /\ Rx = RX.nak /\ Head(todo) # Nak
          /\ "SETUP" \in reg \/ old \cap RX_STAT = RX.valid
      BY <1>3, <2>1, <2>4 DEF Differs
    <3>2. Last # Enabling
      BY <2>1, <2>4 DEF Closed, Rx
    <3>3. /\ todo' \in {<<>>, <<ToData>>, <<Put(Empty)>>}
          /\ Head(todo) = StallRx => /\ todo' # <<ToData>>
                                     /\ usb_fsm_state \in {"IDLE", "STATUS_IN"}
      <4>1. <<>> # <<ToData>> /\ <<Put(Empty)>> # <<ToData>>
        BY Ops
      <4>2. Open # StallRx
        BY OpsDiffer
      <4> QED BY <1>1, <1>3, <3>1, <3>2, <4>1, <4>2, SetRxRuns DEF Closed, IInv
    <3>4. todo' \in Waiting
      BY <3>3, PacketFacts DEF Waiting, Writing
    <3>5. CASE "SETUP" \in reg
      BY <2>1, <3>1, <3>4, <3>5 DEF Recovers, Same
    <3>6. CASE "SETUP" \notin reg /\ Rx' = RX.disabled
      <4>1. old \cap RX_STAT = RX.valid
        BY <3>1, <3>6
      <4>2. s = RX.stall
        BY <2>2, <3>1, <3>6, <4>1, Statuses DEF Xor
      <4>3. Head(todo) = StallRx
        <5>1. Head(todo) \in {Open, StallRx}
          BY <1>3, <3>1, SetRxRuns DEF IInv
        <5>2. Open[2] # RX.stall
          BY Ops, Statuses
        <5> QED BY <2>2, <4>2, <5>1, <5>2
      <4> QED BY <1>1, <2>1, <3>1, <3>3, <3>4, <4>3 DEF Recovers, Same
    <3> QED BY <3>5, <3>6 DEF Recovers
  <2> QED BY <2>3, <2>4
<1>4. CASE reset_flag
  BY <1>1, <1>4 DEF Recovers
<1> QED BY <1>2, <1>3, <1>4

LEMMA RecoversStep == IInv /\ Closed /\ Differs /\ Recovers /\ [Next]_vars => Recovers'
<1> SUFFICES ASSUME IInv, Closed, Differs, Recovers, [Next]_vars PROVE Recovers'
  OBVIOUS
<1>1. CASE UNCHANGED vars \/ Load
  <2>1. UNCHANGED <<reg, reset_flag, todo, usb_fsm_state>>
    BY <1>1 DEF Load, vars, peripheral, driver
  <2> QED BY <2>1 DEF Recovers, Rx
<1>2. CASE Host
  BY <1>2, HostRecovers
<1>3. CASE Driver
  BY <1>1, <1>3, PollRecovers, HandlerRecovers, StoreRecovers DEF Driver
<1> QED BY <1>1, <1>2, <1>3 DEF Next

LEMMA RecoversInit == Init => Differs /\ Recovers
<1> SUFFICES ASSUME Init PROVE Differs /\ Recovers
  OBVIOUS
<1>1. Rx = RX.valid
  BY Statuses DEF Init, Ready, Rx, CONTROL
<1>2. Now = "poll"
  BY DEF Init, Now
<1> QED BY <1>1, <1>2, NonEmpty DEF Differs, Recovers

CInv == IInv /\ Closed /\ Differs /\ Recovers

\* Together with what a bus reset closes and the last steps of a handler tell
\* (usb.c:740-785), the two facts about the status of the receiver: a
\* macro of usb.h that sets it may find it changed only by a packet taken since
\* its read, and what it then makes of it is made good.
THEOREM ControlInvariant == Spec => []CInv
<1>1. Init => CInv
  BY EndpointInit, ClosedInit, RecoversInit DEF CInv
<1>2. CInv /\ [Next]_vars => CInv'
  BY EndpointStep, ClosedStep, DiffersStep, RecoversStep DEF CInv
<1> QED BY <1>1, <1>2, PTL DEF Spec

\* Endpoint 0 is not shut for good: when its receiver is disabled, deaf even to
\* setup packets, a flag is raised that makes do_usb_poll act or the handler
\* that runs has yet to set the status (usb.h:461-470, usb.c:265-317), whatever
\* the peripheral takes between the read and the store of a macro.
THEOREM ReceiverIsNotShut == Spec => []NeverShut
<1>1. ASSUME CInv PROVE NeverShut
  <2>1. "CTR_RX" \in reg \/ reset_flag => Flagged
    BY DEF Flagged, CTRS
  <2>2. todo \in Setting => \E i \in DOMAIN todo : todo[i][1] = "set_rx"
    BY SettingIsLeft
  <2> QED BY <1>1, <2>1, <2>2 DEF CInv, Recovers, NeverShut, Rx
<1> QED BY <1>1, ControlInvariant, PTL

-----------------------------------------------------------------------------
(***************************************************************************)
(* A transfer with a patient host, from place to place: where the driver   *)
(* is, what the register holds and how far the host has come.  This is the *)
(* invariant behind the properties that need a patient host.               *)
(***************************************************************************)
Silent == "CTR_RX" \notin reg /\ "CTR_TX" \notin reg
Fresh  == loaded \subseteq {reg}
Of(n)  == [of |-> asked, number |-> n]

\* What is left of a data stage with k packets to go, and of a status stage.
ReadLeft(k)  == [i \in 1 .. k + 1 |-> IF i <= k THEN "in" ELSE "out"]
WriteLeft(k) == [i \in 1 .. k + 1 |-> IF i <= k THEN "out" ELSE "in"]

\* The driver is through with a transfer, but for the receiver.
Late == \/ todo \in {<<>>, <<Open>>}
        \/ todo = <<ToIn>> /\ usb_fsm_state = "STATUS_IN"

\* No transfer.
Over == /\ stages = <<>> /\ Silent /\ (ef => Fresh)
        /\ Late \/ todo \in SettingUp

\* A setup packet has been received; it is copied; its request is known.
Begun == /\ asked \in Requests /\ pma_rx = Of(0)
         /\ Tx = TX.nak /\ "CTR_TX" \notin reg
         /\ "DTOG_RX" \in reg /\ "DTOG_TX" \in reg
         /\ stages = Stages(asked) /\ toggle = TRUE /\ moved = 0
Asked == /\ Begun /\ "CTR_RX" \in reg /\ "SETUP" \in reg
         /\ Late \/ todo = <<Look>>
         /\ IF todo = <<Open>>
            THEN /\ Rx = RX.nak
                 /\ \A old \in loaded : old \cap RX_STAT # RX.disabled
            ELSE Rx # RX.stall
Fetched ==
  /\ Begun /\ "CTR_RX" \in reg /\ usb_force_nak /\ Fresh
  /\ \/ todo = <<Nak, Fetch, ToSetup>> /\ Rx # RX.stall
     \/ /\ todo \in {<<Fetch, ToSetup>>, <<Half1, Half2, Ctr, ToSetup>>}
        /\ Rx = RX.nak
     \/ /\ todo \in {<<Half2, Ctr, ToSetup>>, <<Ctr, ToSetup>>}
        /\ Rx = RX.nak /\ buf[1] = pma_rx
Known == /\ Begun /\ "CTR_RX" \notin reg /\ usb_force_nak
         /\ Rx = RX.nak /\ buf[1] = pma_rx /\ todo = <<ToSetup>>

\* A request that reads: a packet is put into packet memory, may be sent, has
\* been sent; then the receiver is opened for the status stage, which comes,
\* or comes again.
Answering ==
  /\ asked \in Requests /\ asked.kind = "read" /\ usb_req = asked
  /\ Rx = RX.nak /\ usb_force_nak
  /\ "CTR_RX" \notin reg /\ "DTOG_RX" \in reg
  /\ chunk \in 1 .. asked.packets
  /\ usb_fsm_state = IF chunk < asked.packets THEN "DATA_IN" ELSE "LAST_DATA_IN"
  /\ Fresh /\ moved <= asked.packets /\ stages = ReadLeft(asked.packets - moved)
Level == toggle <=> "DTOG_TX" \in reg
Posting ==
  /\ Answering /\ "CTR_TX" \notin reg /\ moved + 1 = chunk /\ Level
  /\ Tx = TX.nak
  /\ \/ todo = <<Put(Of(chunk))>>
     \/ todo = <<Send>> /\ pma_tx = Of(chunk)
Posted ==
  /\ Answering /\ "CTR_TX" \notin reg /\ Tx = TX.valid /\ todo = <<>>
  /\ pma_tx = Of(chunk)
  /\ \/ moved + 1 = chunk /\ Level
     \/ moved = chunk /\ ~Level
Taken ==
  /\ Answering /\ moved = chunk /\ Level /\ Tx = TX.nak
  /\ \/ "CTR_TX" \in reg /\ todo \in {<<>>, <<CtrTx, ToIn>>}
     \/ "CTR_TX" \notin reg /\ todo = <<ToIn>>
Listening ==
  /\ usb_fsm_state = "STATUS_OUT" /\ ~usb_force_nak /\ stages = <<"out">>
  /\ Silent /\ "DTOG_RX" \in reg /\ Tx = TX.nak /\ Fresh
  /\ \/ todo = <<Open>> /\ Rx = RX.nak
     \/ todo = <<>> /\ Rx = RX.valid
Heard ==
  /\ "CTR_RX" \in reg /\ "SETUP" \notin reg /\ "CTR_TX" \notin reg /\ ef
  /\ Rx = RX.nak /\ Tx = TX.nak /\ "DTOG_RX" \notin reg /\ ~usb_force_nak
  /\ stages \in {<<>>, <<"out">>} /\ Fresh
  /\ \/ usb_fsm_state = "STATUS_OUT" /\ todo \in {<<>>, <<Look>>}
     \/ usb_fsm_state = "IDLE" /\ todo \in {<<Fetch>>, <<Ctr, Open>>}
Repeating ==
  /\ stages = <<"out">> /\ Silent /\ "DTOG_RX" \notin reg /\ Tx = TX.nak
  /\ usb_fsm_state = "IDLE" /\ Fresh
  /\ \/ todo = <<Open>> /\ Rx = RX.nak
     \/ todo = <<>> /\ Rx = RX.valid

\* A request that writes: the receiver is to be opened, is open, has received.
Storing ==
  /\ asked \in Requests /\ asked.kind = "write" /\ usb_req = asked
  /\ ~usb_force_nak /\ "CTR_TX" \notin reg /\ Tx = TX.nak
  /\ "DTOG_TX" \in reg /\ Fresh
  /\ moved <= asked.packets /\ stages = WriteLeft(asked.packets - moved)
  /\ chunk < asked.packets
  /\ usb_fsm_state = DataOutState(asked.packets - chunk)
\* The peripheral has received n packets; the host may yet repeat the last.
Synced(n) == \/ moved = n /\ (toggle <=> "DTOG_RX" \in reg)
             \/ moved + 1 = n /\ ~(toggle <=> "DTOG_RX" \in reg)
Opening ==
  /\ Storing /\ "CTR_RX" \notin reg /\ Rx = RX.nak
  /\ \/ todo = <<Open>> /\ chunk = 0 /\ Synced(0)
     \/ todo = <<Open, ToData>> /\ buf[1] = Of(chunk + 1) /\ Synced(chunk + 1)
Receiving ==
  /\ Storing /\ "CTR_RX" \notin reg /\ Rx = RX.valid
  /\ \/ todo = <<>> /\ Synced(chunk)
     \/ todo = <<ToData>> /\ buf[1] = Of(chunk + 1) /\ Synced(chunk + 1)
Arrived ==
  /\ Storing /\ "CTR_RX" \in reg /\ "SETUP" \notin reg /\ Rx = RX.nak
  /\ \/ /\ todo \in {<<>>, <<Look>>, <<Fetch, ToData>>,
                     <<Half1, Half2, Ctr, Open, ToData>>}
        /\ pma_rx = Of(chunk + 1) /\ Synced(chunk + 1)
     \/ /\ todo \in {<<Half2, Ctr, Open, ToData>>, <<Ctr, Open, ToData>>}
        /\ pma_rx = Of(chunk + 1) /\ Synced(chunk + 1) /\ buf[1] = pma_rx
     \/ /\ todo = <<ToData>> /\ buf[1] = Of(chunk + 1)
        /\ pma_rx = Of(chunk + 2) /\ Synced(chunk + 2)
        /\ chunk + 1 < asked.packets

\* A request without data, and the end of one that writes: what the host waits
\* for; the answer, on its way, there, taken.  A request is also refused, and
\* the answer to CLEAR_FEATURE(ENDPOINT_HALT) of endpoint 0x80 may get stuck.
Waits ==
  /\ asked \in Requests /\ asked.kind # "read" /\ moved <= asked.packets
  /\ asked.kind = "write" => /\ stages = WriteLeft(asked.packets - moved)
                             /\ Synced(asked.packets) /\ Rx = RX.valid
  /\ asked.kind # "write" => \/ stages = <<"in">>
                             \/ asked.kind = "set_halt" /\ stages = <<"failed">>
Serving == /\ usb_req = asked /\ usb_fsm_state = "STATUS_IN" /\ Silent /\ Fresh
           /\ "DTOG_TX" \in reg \/ asked.kind = "clear_halt_in"
Halts   == /\ Serving /\ asked.kind = "set_halt" /\ Waits
           /\ \/ /\ todo = <<StallTx, StallRx, Put(Empty)>> /\ Tx = TX.nak
                 /\ stages = <<"in">>
              \/ todo = <<StallRx, Put(Empty)>> /\ Tx = TX.stall
Unhalts == /\ Serving /\ Tx = TX.nak /\ Waits /\ asked.kind # "write"
           /\ \/ asked.kind = "clear_halt" /\ todo \in Unhalting
              \/ asked.kind = "clear_halt_in" /\ todo \in UnhaltingIn
Replying == /\ Serving /\ Waits /\ todo \in {<<Put(Empty)>>, <<Send>>}
            /\ Tx = TX.nak \/ (asked.kind = "set_halt" /\ Tx = TX.stall)
Replied == Serving /\ Waits /\ Tx = TX.valid /\ todo = <<>>
ReplyTaken ==
  /\ "CTR_TX" \in reg /\ "CTR_RX" \notin reg /\ ef /\ Tx = TX.nak
  /\ usb_fsm_state = "STATUS_IN" /\ Fresh /\ todo \in {<<>>, <<CtrTx, ToIn>>}
  /\ stages = <<>> \/ (asked.kind = "clear_halt_in" /\ stages = <<"in">>)
Stuck ==
  /\ asked.kind = "clear_halt_in" /\ stages = <<"in">> /\ Silent
  /\ Tx = TX.nak /\ Fresh
  /\ \/ todo = <<>> /\ usb_fsm_state = "IDLE"
     \/ todo = <<ToIn>> /\ usb_fsm_state = "STATUS_IN"
Refusing ==
  /\ asked.kind = "unknown" /\ usb_fsm_state = "IDLE" /\ Silent /\ Fresh
  /\ \/ todo = <<StallTx, StallRx>> /\ Tx = TX.nak /\ stages = <<"in">>
     \/ /\ todo \in {<<StallRx>>, <<>>} /\ Tx = TX.stall
        /\ stages \in {<<"in">>, <<"failed">>}

Somewhere ==
  \/ Over \/ Asked \/ Fetched \/ Known
  \/ Posting \/ Posted \/ Taken \/ Listening \/ Heard \/ Repeating
  \/ Opening \/ Receiving \/ Arrived
  \/ Halts \/ Unhalts \/ Replying \/ Replied \/ ReplyTaken \/ Stuck \/ Refusing

Place == ~overtaken => Somewhere

-----------------------------------------------------------------------------
LEMMA LeftFacts ==
  ASSUME NEW k \in Nat
  PROVE  /\ ReadLeft(k) # <<>> /\ Len(ReadLeft(k)) = k + 1
         /\ Head(ReadLeft(k)) = IF k = 0 THEN "out" ELSE "in"
         /\ k > 0 => Tail(ReadLeft(k)) = ReadLeft(k - 1)
         /\ WriteLeft(k) # <<>> /\ Len(WriteLeft(k)) = k + 1
         /\ Head(WriteLeft(k)) = IF k = 0 THEN "in" ELSE "out"
         /\ k > 0 => Tail(WriteLeft(k)) = WriteLeft(k - 1)
         /\ k = 0 => ReadLeft(k) = <<"out">> /\ WriteLeft(k) = <<"in">>
<1> DEFINE S == {"in", "out"}
<1>1. /\ ReadLeft(k) \in Seq(S) /\ Len(ReadLeft(k)) = k + 1
      /\ WriteLeft(k) \in Seq(S) /\ Len(WriteLeft(k)) = k + 1
  BY DEF ReadLeft, WriteLeft
<1>2. ReadLeft(k) # <<>> /\ WriteLeft(k) # <<>>
  BY <1>1
<1>3. /\ Head(ReadLeft(k)) = IF k = 0 THEN "out" ELSE "in"
      /\ Head(WriteLeft(k)) = IF k = 0 THEN "in" ELSE "out"
  <2>1. Head(ReadLeft(k)) = ReadLeft(k)[1] /\ Head(WriteLeft(k)) = WriteLeft(k)[1]
    BY <1>1, <1>2
  <2>2. 1 \in 1 .. k + 1
    OBVIOUS
  <2> QED BY <2>1, <2>2 DEF ReadLeft, WriteLeft
<1>4. ASSUME k > 0
      PROVE  /\ Tail(ReadLeft(k)) = ReadLeft(k - 1)
             /\ Tail(WriteLeft(k)) = WriteLeft(k - 1)
  <2>1. /\ ReadLeft(k - 1) \in Seq(S) /\ Len(ReadLeft(k - 1)) = k
        /\ WriteLeft(k - 1) \in Seq(S) /\ Len(WriteLeft(k - 1)) = k
    BY <1>4 DEF ReadLeft, WriteLeft
  <2>2. /\ Tail(ReadLeft(k)) \in Seq(S) /\ Len(Tail(ReadLeft(k))) = k
        /\ Tail(WriteLeft(k)) \in Seq(S) /\ Len(Tail(WriteLeft(k))) = k
    BY <1>1, <1>2
  <2>3. \A i \in 1 .. k : /\ Tail(ReadLeft(k))[i] = ReadLeft(k)[i + 1]
                          /\ Tail(WriteLeft(k))[i] = WriteLeft(k)[i + 1]
    BY <1>1, <1>2
  <2>4. \A i \in 1 .. k : /\ ReadLeft(k)[i + 1] = ReadLeft(k - 1)[i]
                          /\ WriteLeft(k)[i + 1] = WriteLeft(k - 1)[i]
    BY <1>4 DEF ReadLeft, WriteLeft
  <2> QED BY <2>1, <2>2, <2>3, <2>4, SeqEqual
<1>5. ASSUME k = 0
      PROVE  ReadLeft(k) = <<"out">> /\ WriteLeft(k) = <<"in">>
  <2>1. /\ <<"out">> \in Seq(S) /\ Len(<<"out">>) = 1
        /\ <<"in">> \in Seq(S) /\ Len(<<"in">>) = 1
    OBVIOUS
  <2>2. ReadLeft(k)[1] = "out" /\ WriteLeft(k)[1] = "in"
    BY <1>5 DEF ReadLeft, WriteLeft
  <2>3. \A i \in 1 .. 1 : ReadLeft(k)[i] = <<"out">>[i] /\ WriteLeft(k)[i] = <<"in">>[i]
    BY <2>2
  <2> QED BY <1>1, <1>5, <2>1, <2>3, SeqEqual
<1> QED BY <1>1, <1>2, <1>3, <1>4, <1>5

LEMMA StagesAre ==
  ASSUME NEW r \in Requests
  PROVE  /\ r.packets \in Nat /\ r.packets > 0
         /\ r.kind = "read" => Stages(r) = ReadLeft(r.packets)
         /\ r.kind = "write" => Stages(r) = WriteLeft(r.packets)
         /\ r.kind \notin {"read", "write"} => Stages(r) = <<"in">>
         /\ Stages(r) # <<>>
<1>1. r.packets \in Nat /\ r.packets > 0
  BY RequestFacts
<1>2. /\ r.kind = "read" => Stages(r) = ReadLeft(r.packets)
      /\ r.kind = "write" => Stages(r) = WriteLeft(r.packets)
      /\ r.kind \notin {"read", "write"} => Stages(r) = <<"in">>
  BY DEF Stages, ReadLeft, WriteLeft
<1>3. <<"in">> # <<>>
  OBVIOUS
<1> QED BY <1>1, <1>2, <1>3, LeftFacts

-----------------------------------------------------------------------------
\* What a step leaves alone.
FlagsStay   == Same("CTR_RX") /\ Same("CTR_TX") /\ Same("SETUP")
TogglesStay == Same("DTOG_RX") /\ Same("DTOG_TX")
RegStays    == Rx' = Rx /\ Tx' = Tx /\ FlagsStay /\ TogglesStay
HostStays   == UNCHANGED <<asked, stages, toggle, moved, overtaken>>

LEMMA RegIsStill == UNCHANGED reg => RegStays
  BY DEF RegStays, FlagsStay, TogglesStay, Same, Rx, Tx

LEMMA DriverStill == Driver => HostStays
  BY DEF Driver, PollReset, Enable, PollReceived, PollSent, Setup, Out, In,
     Dispatch, Data, Read, Copy, Write, Load, Store, HostStays, others, host

\* What comes next is what the driver does.
LEMMA Acts ==
  ASSUME Driver
  PROVE  /\ Now = "poll" => PollReset \/ PollReceived \/ PollSent
         /\ Now = "which" => Setup \/ Out
         /\ Now = "read" => Read
         /\ Now = "copy" => Copy
         /\ Now = "write" => Write
         /\ Now = "setup" => Dispatch
         /\ Now = "data" => Data
         /\ Now = "in" => In
         /\ Now = "enable" => Enable
         /\ Now \in Macros => Load \/ Store
<1>1. PollReset \/ PollReceived \/ PollSent => Now = "poll"
  BY DEF PollReset, PollReceived, PollSent, Polling, Now
<1>2. Setup \/ Out => Now = "which"
  BY StepNow DEF Setup, Out
<1>3. Read => Now = "read"
  BY StepNow DEF Read
<1>4. Copy => Now = "copy"
  BY StepNow DEF Copy
<1>5. Write => Now = "write"
  BY StepNow DEF Write
<1>6. Dispatch => Now = "setup"
  BY StepNow DEF Dispatch
<1>7. Data => Now = "data"
  BY StepNow DEF Data
<1>8. In => Now = "in"
  BY StepNow DEF In
<1>9. Enable => Now = "enable"
  BY StepNow DEF Enable
<1>10. Load \/ Store => Now \in Macros
  BY DEF Load, Store, AtMacro, Now
<1> HIDE DEF Now
<1> QED BY <1>1, <1>2, <1>3, <1>4, <1>5, <1>6, <1>7, <1>8, <1>9, <1>10
        DEF Driver, Macros

\* While the host is at a transfer, no bus reset waits.
LEMMA HostIsHeard ==
  ASSUME Closed, ef \/ stages # <<>>
  PROVE  ef /\ ~reset_flag
  BY DEF Closed

LEMMA PollGoes ==
  ASSUME IInv, Driver, todo = <<>>, ~reset_flag
  PROVE  /\ UNCHANGED <<reg, ef, reset_flag, pma_rx, pma_tx, loaded,
                        usb_fsm_state, usb_force_nak, usb_req, buf, chunk>>
         /\ ~Silent /\ Fresh'
         /\ "CTR_RX" \in reg => todo' = <<Look>>
         /\ "CTR_RX" \notin reg => todo' = <<CtrTx, ToIn>>
<1>1. Now = "poll"
  BY DEF Now
<1>2. PollReceived \/ PollSent
  BY <1>1, Acts DEF PollReset
<1>3. UNCHANGED <<reg, ef, reset_flag, pma_rx, pma_tx, loaded,
                  usb_fsm_state, usb_force_nak, usb_req, buf, chunk>>
  BY <1>2 DEF PollReceived, PollSent, peripheral, driver_but_todo
<1>4. loaded = {}
  BY <1>1, NotLoaded DEF Macros
<1>5. CASE PollReceived
  BY <1>3, <1>4, <1>5 DEF PollReceived, Look, Silent, Fresh
<1>6. CASE PollSent
  <2>1. "CTR_TX" \in reg /\ "CTR_RX" \notin reg
    BY <1>6 DEF PollSent, CTRS
  <2> QED BY <1>3, <1>4, <1>6, <2>1 DEF PollSent, CtrTx, ToIn, Silent, Fresh
<1> QED BY <1>2, <1>5, <1>6

LEMMA CopyGoes ==
  ASSUME IInv, Driver, Now = "copy"
  PROVE  /\ UNCHANGED <<reg, ef, reset_flag, pma_rx, pma_tx, loaded,
                        usb_fsm_state, usb_force_nak, usb_req, chunk>>
         /\ todo' = Tail(todo) /\ Fresh'
         /\ Head(todo) = Half1 => buf'[1] = pma_rx
         /\ Head(todo) = Half2 => buf'[1] = buf[1]
<1>1. Copy
  BY Acts
<1>2. /\ buf' = [buf EXCEPT ![Head(todo)[2]] = pma_rx] /\ todo' = Tail(todo)
      /\ UNCHANGED <<reg, ef, reset_flag, pma_rx, pma_tx, loaded,
                     usb_fsm_state, usb_force_nak, usb_req, chunk>>
  BY <1>1 DEF Copy, peripheral
<1>3. buf \in [1 .. 2 -> Packet]
  BY DEF IInv, Types, DriverTypes
<1>4. Fresh'
  BY <1>2, NotLoaded DEF Macros, Fresh
<1> QED BY <1>2, <1>3, <1>4, Ops

LEMMA WriteGoes ==
  ASSUME IInv, Driver, NEW p, todo = <<Put(p)>>
  PROVE  /\ UNCHANGED <<reg, ef, reset_flag, pma_rx, loaded, usb_fsm_state,
                        usb_force_nak, usb_req, buf, chunk>>
         /\ Fresh'
         /\ Tx # TX.valid => todo' = <<Send>> /\ pma_tx' = p
<1>1. Head(todo) = Put(p) /\ Tail(todo) = <<>> /\ Now = "write"
  BY Ops DEF Now
<1>2. Write
  BY <1>1, Acts
<1>3. UNCHANGED <<reg, ef, reset_flag, pma_rx, loaded, usb_fsm_state,
                  usb_force_nak, usb_req, buf, chunk>>
  BY <1>2 DEF Write, driver_but_todo
<1>4. Fresh'
  BY <1>1, <1>3, NotLoaded DEF Macros, Fresh
<1>5. ASSUME Tx # TX.valid PROVE todo' = <<Send>> /\ pma_tx' = p
  <2>1. todo' = <<Send>> \o Tail(todo) /\ pma_tx' = Head(todo)[2]
    BY <1>2, <1>5 DEF Write, Send, Tx
  <2>2. <<Send>> \o <<>> = <<Send>>
    BY Joins
  <2> QED BY <1>1, <2>1, <2>2, Ops
<1> QED BY <1>3, <1>4, <1>5

\* A store of what was read just now, and one that clears a flag.
LEMMA FreshStore ==
  ASSUME IInv, Store, Fresh
  PROVE  /\ todo' = Tail(todo) /\ Fresh'
         /\ UNCHANGED <<ef, reset_flag, pma_rx, pma_tx, usb_fsm_state,
                        usb_force_nak, usb_req, buf, chunk>>
         /\ Now = "set_rx" => /\ Rx' = Head(todo)[2] /\ Tx' = Tx
                              /\ FlagsStay /\ TogglesStay
         /\ Now = "set_tx" => /\ Tx' = Head(todo)[2] /\ Rx' = Rx
                              /\ FlagsStay /\ TogglesStay
         /\ Now = "clr_rx_ctr" => /\ Rx' = Rx /\ Tx' = Tx
                                  /\ "CTR_RX" \notin reg'
                                  /\ Same("CTR_TX") /\ Same("SETUP")
                                  /\ TogglesStay
         /\ Now = "clr_tx_ctr" => /\ Rx' = Rx /\ Tx' = Tx
                                  /\ "CTR_TX" \notin reg'
                                  /\ Same("CTR_RX") /\ Same("SETUP")
                                  /\ TogglesStay
         /\ Now \in {"clr_rx_dtog", "clr_tx_dtog", "set_type", "set_addr"} =>
              Rx' = Rx /\ Tx' = Tx /\ FlagsStay
         /\ Now = "clr_rx_dtog" => Same("DTOG_TX")
         /\ Now = "clr_tx_dtog" => Same("DTOG_RX")
<1>1. /\ todo' = Tail(todo) /\ Fresh'
      /\ UNCHANGED <<ef, reset_flag, pma_rx, pma_tx, usb_fsm_state,
                     usb_force_nak, usb_req, buf, chunk>>
  BY StoreGoes DEF Fresh
<1>2. \A s, t : Xor(Xor(s, s), t) = t
  BY DEF Xor
<1>3. loaded = {reg}
  BY StoreGoes DEF Fresh
<1>4. ASSUME Now = "set_rx"
      PROVE  Rx' = Head(todo)[2] /\ Tx' = Tx /\ FlagsStay /\ TogglesStay
  <2>0. PICK old \in SUBSET Bits :
          /\ loaded = {old}
          /\ \E s \in {RX.stall, RX.nak, RX.valid} :
               /\ Head(todo)[2] = s
               /\ Rx' = Xor(Xor(Rx, old \cap RX_STAT), s)
               /\ Tx' = Tx /\ Same("CTR_RX") /\ Same("CTR_TX")
               /\ Same("SETUP") /\ Same("DTOG_RX") /\ Same("DTOG_TX")
    BY <1>4, StoreDoes
  <2>1. PICK s \in {RX.stall, RX.nak, RX.valid} :
          /\ Head(todo)[2] = s
          /\ Rx' = Xor(Xor(Rx, old \cap RX_STAT), s)
          /\ Tx' = Tx /\ Same("CTR_RX") /\ Same("CTR_TX")
          /\ Same("SETUP") /\ Same("DTOG_RX") /\ Same("DTOG_TX")
    BY <2>0
  <2> QED BY <1>2, <1>3, <2>0, <2>1 DEF FlagsStay, TogglesStay, Rx
<1>5. ASSUME Now = "set_tx"
      PROVE  Tx' = Head(todo)[2] /\ Rx' = Rx /\ FlagsStay /\ TogglesStay
  <2>0. PICK old \in SUBSET Bits :
          /\ loaded = {old}
          /\ \E s \in {TX.stall, TX.nak, TX.valid} :
               /\ Head(todo)[2] = s
               /\ Tx' = Xor(Xor(Tx, old \cap TX_STAT), s)
               /\ Rx' = Rx /\ Same("CTR_RX") /\ Same("CTR_TX")
               /\ Same("SETUP") /\ Same("DTOG_RX") /\ Same("DTOG_TX")
    BY <1>5, StoreDoes
  <2>1. PICK s \in {TX.stall, TX.nak, TX.valid} :
          /\ Head(todo)[2] = s
          /\ Tx' = Xor(Xor(Tx, old \cap TX_STAT), s)
          /\ Rx' = Rx /\ Same("CTR_RX") /\ Same("CTR_TX")
          /\ Same("SETUP") /\ Same("DTOG_RX") /\ Same("DTOG_TX")
    BY <2>0
  <2> QED BY <1>2, <1>3, <2>0, <2>1 DEF FlagsStay, TogglesStay, Tx
<1>6. /\ Now = "clr_rx_ctr" => /\ Rx' = Rx /\ Tx' = Tx
                               /\ "CTR_RX" \notin reg'
                               /\ Same("CTR_TX") /\ Same("SETUP")
                               /\ TogglesStay
      /\ Now = "clr_tx_ctr" => /\ Rx' = Rx /\ Tx' = Tx
                               /\ "CTR_TX" \notin reg'
                               /\ Same("CTR_RX") /\ Same("SETUP")
                               /\ TogglesStay
  BY StoreDoes DEF TogglesStay
<1>7. /\ Now \in {"clr_rx_dtog", "clr_tx_dtog", "set_type", "set_addr"} =>
              Rx' = Rx /\ Tx' = Tx /\ FlagsStay
      /\ Now = "clr_rx_dtog" => Same("DTOG_TX")
      /\ Now = "clr_tx_dtog" => Same("DTOG_RX")
  BY <1>3, StoreDoes DEF FlagsStay, Same, CTRS
<1> QED BY <1>1, <1>4, <1>5, <1>6, <1>7

\* Reading the register leaves every place as it is.
LEMMA LoadStays ==
  ASSUME IInv, Somewhere, Load
  PROVE  Somewhere'
<1>1. /\ loaded' = {reg}
      /\ UNCHANGED <<reg, ef, reset_flag, pma_rx, pma_tx, todo, usb_fsm_state,
                     usb_force_nak, usb_req, buf, chunk, asked, stages, toggle,
                     moved>>
  BY DEF Load, peripheral, others, host
<1>2. Fresh'
  BY <1>1 DEF Fresh
<1>3. Rx' = Rx /\ Tx' = Tx /\ Silent' = Silent /\ Late' = Late
  BY <1>1 DEF Rx, Tx, Silent, Late
<1>4. Begun => Begun'
  BY <1>1, <1>3 DEF Begun, Of
<1>5. Answering => Answering'
  BY <1>1, <1>2, <1>3 DEF Answering
<1>6. Storing => Storing'
  BY <1>1, <1>2, <1>3 DEF Storing
<1>7. (Serving => Serving') /\ (Waits => Waits')
  BY <1>1, <1>2, <1>3 DEF Serving, Waits, Synced
<1>8. Over => Over'
  BY <1>1, <1>2, <1>3 DEF Over
<1>9. Asked => Asked'
  BY <1>1, <1>3, <1>4, Statuses DEF Asked, Rx
<1>10. (Fetched => Fetched') /\ (Known => Known')
  BY <1>1, <1>2, <1>3, <1>4 DEF Fetched, Known
<1>11. (Posting => Posting') /\ (Posted => Posted') /\ (Taken => Taken')
  BY <1>1, <1>3, <1>5 DEF Posting, Posted, Taken, Level, Of
<1>12. (Listening => Listening') /\ (Heard => Heard') /\ (Repeating => Repeating')
  BY <1>1, <1>2, <1>3 DEF Listening, Heard, Repeating
<1>13. (Opening => Opening') /\ (Receiving => Receiving') /\ (Arrived => Arrived')
  BY <1>1, <1>3, <1>6 DEF Opening, Receiving, Arrived, Synced, Of
<1>14. (Halts => Halts') /\ (Unhalts => Unhalts')
  BY <1>1, <1>3, <1>7 DEF Halts, Unhalts
<1>15. (Replying => Replying') /\ (Replied => Replied')
  BY <1>1, <1>3, <1>7 DEF Replying, Replied
<1>16. (ReplyTaken => ReplyTaken') /\ (Stuck => Stuck') /\ (Refusing => Refusing')
  BY <1>1, <1>2, <1>3 DEF ReplyTaken, Stuck, Refusing
<1> QED BY <1>8, <1>9, <1>10, <1>11, <1>12, <1>13, <1>14, <1>15, <1>16
        DEF Somewhere

-----------------------------------------------------------------------------
\* The host, from place to place.
LEMMA Idle ==
  ASSUME IInv, Somewhere, stages = <<>>, Silent
  PROVE  Over
<1>1. moved \in Nat /\ \A n \in Nat : ReadLeft(n) # <<>> /\ WriteLeft(n) # <<>>
  BY LeftFacts DEF IInv, Types, HostTypes
<1>2. <<"in">> # <<>> /\ <<"out">> # <<>> /\ <<"failed">> # <<>>
  OBVIOUS
<1>3. asked \in Requests => /\ asked.packets \in Nat
                            /\ moved <= asked.packets
                                 => asked.packets - moved \in Nat
  BY <1>1, StagesAre
<1>4. ~Begun
  BY StagesAre DEF Begun
<1>5. ~Answering /\ ~Storing
  BY <1>1, <1>3 DEF Answering, Storing
<1>6. ~Waits
  BY <1>1, <1>2, <1>3 DEF Waits
<1>7. ~Listening /\ ~Heard /\ ~Repeating
  BY <1>2 DEF Listening, Heard, Repeating, Silent
<1>8. ~ReplyTaken /\ ~Stuck /\ ~Refusing
  BY <1>2 DEF ReplyTaken, Stuck, Refusing, Silent
<1>9. ~Asked /\ ~Fetched /\ ~Known
  BY <1>4 DEF Asked, Fetched, Known
<1>10. ~Posting /\ ~Posted /\ ~Taken /\ ~Opening /\ ~Receiving /\ ~Arrived
  BY <1>5 DEF Posting, Posted, Taken, Opening, Receiving, Arrived
<1>11. ~Halts /\ ~Unhalts /\ ~Replying /\ ~Replied
  BY <1>6 DEF Halts, Unhalts, Replying, Replied
<1> QED BY <1>7, <1>8, <1>9, <1>10, <1>11 DEF Somewhere

\* A patient host begins a transfer, or resets the bus.
LEMMA SetupPlace ==
  ASSUME CInv, Place, NEW r \in Requests, HostSetup(r), ~overtaken'
  PROVE  Asked'
<1>1. Patient /\ ~overtaken
  <2>1. overtaken' = (overtaken \/ ~Patient)
    BY DEF HostSetup
  <2> QED BY <2>1, Zenon
<1>2. Somewhere
  BY <1>1 DEF Place
<1>3. Silent /\ (stages = <<>> \/ todo = <<>>)
  BY <1>1 DEF Patient, Flagged, Silent, CTRS
<1>4. UNCHANGED <<todo, loaded, usb_fsm_state>> /\ ef
  BY DEF HostSetup, driver
<1>5. Begun'
  <2>1. Of(0)' = [of |-> r, number |-> 0]
    BY DEF HostSetup, Of
  <2>2. Tx' = TX.nak /\ "CTR_TX" \notin reg' /\ "DTOG_RX" \in reg' /\ "DTOG_TX" \in reg'
    BY <1>3, HostSetupDoes DEF Same, Silent
  <2> QED BY <2>1, <2>2 DEF HostSetup, Begun
<1>6. Late
  <2>1. CASE todo = <<>>
    BY <2>1 DEF Late
  <2>2. CASE todo # <<>>
    <3>1. Over
      BY <1>2, <1>3, <2>2, Idle DEF CInv
    <3>2. todo \notin SettingUp
      <4>1. todo \in SettingUp => Last = Enabling
        BY Ends DEF EndForms, SettingUp
      <4> QED BY <1>4, <4>1 DEF CInv, Closed
    <3> QED BY <3>1, <3>2 DEF Over
  <2> QED BY <2>1, <2>2
<1>7. Late'
  BY <1>4, <1>6 DEF Late
<1>8. todo = <<Open>> => \A old \in loaded : old \cap RX_STAT # RX.disabled
  <2>1. ASSUME todo = <<Open>> PROVE Over
    BY <1>2, <1>3, <2>1, Idle DEF CInv
  <2>2. Rx # RX.disabled
    BY HostSetupDoes
  <2> QED BY <1>4, <2>1, <2>2 DEF Over, Fresh, Rx
<1>9. /\ Rx' = RX.nak /\ RX.nak # RX.stall
      /\ "CTR_RX" \in reg' /\ "SETUP" \in reg'
  BY HostSetupDoes, Statuses
<1>10. todo' = <<Open>> => \A old \in loaded' : old \cap RX_STAT # RX.disabled
  BY <1>4, <1>8
<1> QED BY <1>5, <1>7, <1>9, <1>10 DEF Asked

LEMMA ResetPlace ==
  ASSUME CInv, Place, BusReset, ~overtaken'
  PROVE  Over'
<1>1. Patient /\ ~overtaken
  <2>1. overtaken' = (overtaken \/ ~Patient)
    BY DEF BusReset
  <2> QED BY <2>1, Zenon
<1>2. Somewhere
  BY <1>1 DEF Place
<1>3. Silent /\ (stages = <<>> \/ todo = <<>>)
  BY <1>1 DEF Patient, Flagged, Silent, CTRS
<1>4. UNCHANGED <<todo, usb_fsm_state>> /\ stages' = <<>> /\ ~ef'
  BY DEF BusReset, driver
<1>5. Silent'
  BY <1>3, BusResetDoes DEF Silent, Same
<1>6. Late \/ todo \in SettingUp
  BY <1>2, <1>3, Idle DEF CInv, Over, Late
<1>7. Late' \/ todo' \in SettingUp
  BY <1>4, <1>6 DEF Late
<1> QED BY <1>4, <1>5, <1>7 DEF Over

\* A packet is there to be read only where it was posted.
LEMMA ReadingIsPosted ==
  ASSUME Somewhere, Tx = TX.valid, Turn("in")
  PROVE  Posted \/ Replied
<1>1. stages # <<>>
  BY DEF Turn
<1>2. TX.valid # TX.nak /\ TX.valid # TX.stall
  BY Statuses
<1>3. ~Over /\ ~Asked /\ ~Fetched /\ ~Known
  BY <1>1, <1>2 DEF Over, Asked, Fetched, Known, Begun
<1>4. ~Posting /\ ~Taken /\ ~Listening /\ ~Heard /\ ~Repeating
  BY <1>2 DEF Posting, Taken, Listening, Heard, Repeating
<1>5. ~Opening /\ ~Receiving /\ ~Arrived
  BY <1>2 DEF Opening, Receiving, Arrived, Storing
<1>6. ~Halts /\ ~Unhalts /\ ~Replying
  BY <1>2 DEF Halts, Unhalts, Replying
<1>7. ~ReplyTaken /\ ~Stuck /\ ~Refusing
  BY <1>2 DEF ReplyTaken, Stuck, Refusing
<1> QED BY <1>3, <1>4, <1>5, <1>6, <1>7 DEF Somewhere

\* What the host does next, by what is left.
LEMMA Left ==
  ASSUME IInv
  PROVE  /\ moved \in Nat /\ toggle \in BOOLEAN
         /\ asked \in Requests => asked.packets \in Nat
         /\ stages = <<"in">> => /\ ~InData /\ Tail(stages) = <<>>
                                 /\ Toggle = TRUE /\ ~Turn("out")
         /\ stages = <<"out">> => /\ ~InData /\ Tail(stages) = <<>>
                                  /\ Toggle = TRUE /\ ~Turn("in")
         /\ stages = <<"failed">> => ~Turn("in") /\ ~Turn("out")
         /\ stages = <<>> => ~Turn("in") /\ ~Turn("out")
<1>1. moved \in Nat /\ toggle \in BOOLEAN
  BY DEF IInv, Types, HostTypes
<1>2. asked \in Requests => asked.packets \in Nat
  BY StagesAre
<1>3. ASSUME stages = <<"in">>
      PROVE  ~InData /\ Tail(stages) = <<>> /\ Toggle = TRUE /\ ~Turn("out")
  <2>1. Len(stages) = 1 /\ Head(stages) = "in" /\ Tail(stages) = <<>>
    BY <1>3
  <2> QED BY <2>1 DEF InData, Toggle, Turn
<1>4. ASSUME stages = <<"out">>
      PROVE  ~InData /\ Tail(stages) = <<>> /\ Toggle = TRUE /\ ~Turn("in")
  <2>1. Len(stages) = 1 /\ Head(stages) = "out" /\ Tail(stages) = <<>>
    BY <1>4
  <2> QED BY <2>1 DEF InData, Toggle, Turn
<1>5. ASSUME stages = <<"failed">> PROVE ~Turn("in") /\ ~Turn("out")
  <2>1. Head(stages) = "failed"
    BY <1>5
  <2> QED BY <2>1 DEF Turn
<1>6. stages = <<>> => ~Turn("in") /\ ~Turn("out")
  BY DEF Turn
<1> QED BY <1>1, <1>2, <1>3, <1>4, <1>5, <1>6

LEMMA LeftToRead ==
  ASSUME NEW k \in Nat, stages = ReadLeft(k)
  PROVE  /\ Turn("in") => k > 0
         /\ k > 0 => /\ InData /\ Tail(stages) = ReadLeft(k - 1)
                     /\ Toggle = toggle /\ ~Turn("out")
         /\ k = 0 => stages = <<"out">>
<1>1. /\ ReadLeft(k) # <<>> /\ Len(ReadLeft(k)) = k + 1
      /\ Head(ReadLeft(k)) = IF k = 0 THEN "out" ELSE "in"
      /\ k > 0 => Tail(ReadLeft(k)) = ReadLeft(k - 1)
      /\ k = 0 => ReadLeft(k) = <<"out">>
  BY LeftFacts
<1>2. k > 0 => /\ InData /\ Toggle = toggle
  <2>1. Len(stages) = k + 1
    BY <1>1
  <2>2. k > 0 => Len(stages) > 1
    BY <2>1
  <2> QED BY <2>2, Zenon DEF InData, Toggle
<1>3. (Turn("in") => k > 0) /\ (k > 0 => ~Turn("out"))
  BY <1>1 DEF Turn
<1> QED BY <1>1, <1>2, <1>3

LEMMA LeftToWrite ==
  ASSUME NEW k \in Nat, stages = WriteLeft(k)
  PROVE  /\ Turn("out") => k > 0
         /\ k > 0 => /\ InData /\ Tail(stages) = WriteLeft(k - 1)
                     /\ Toggle = toggle /\ ~Turn("in")
         /\ k = 0 => stages = <<"in">>
<1>1. /\ WriteLeft(k) # <<>> /\ Len(WriteLeft(k)) = k + 1
      /\ Head(WriteLeft(k)) = IF k = 0 THEN "in" ELSE "out"
      /\ k > 0 => Tail(WriteLeft(k)) = WriteLeft(k - 1)
      /\ k = 0 => WriteLeft(k) = <<"in">>
  BY LeftFacts
<1>2. k > 0 => /\ InData /\ Toggle = toggle
  <2>1. Len(stages) = k + 1
    BY <1>1
  <2>2. k > 0 => Len(stages) > 1
    BY <2>1
  <2> QED BY <2>2, Zenon DEF InData, Toggle
<1>3. (Turn("out") => k > 0) /\ (k > 0 => ~Turn("in"))
  BY <1>1 DEF Turn
<1> QED BY <1>1, <1>2, <1>3

\* What a transaction leaves alone, and how far it takes the host.
LEMMA HostReadsGoes ==
  ASSUME NEW acked \in BOOLEAN, HostReads(acked)
  PROVE  /\ UNCHANGED <<ef, reset_flag, pma_rx, pma_tx, todo, loaded,
                        usb_fsm_state, usb_force_nak, usb_req, buf, chunk,
                        asked, overtaken>>
         /\ IF ("DTOG_TX" \in reg) = Toggle THEN Proceed
            ELSE UNCHANGED <<stages, toggle, moved>>
  BY DEF HostReads, driver, host, Proceed

LEMMA HostSendsGoes ==
  ASSUME NEW acked \in BOOLEAN, HostSends(acked)
  PROVE  /\ UNCHANGED <<ef, reset_flag, pma_tx, todo, loaded, usb_fsm_state,
                        usb_force_nak, usb_req, buf, chunk, asked, overtaken>>
         /\ IF ("DTOG_RX" \in reg) = Toggle
            THEN InData => pma_rx' = Of(moved + 1)
            ELSE pma_rx' = pma_rx
         /\ IF acked THEN Proceed ELSE UNCHANGED <<stages, toggle, moved>>
  BY DEF HostSends, driver, host, Proceed, Of

LEMMA PostedRead ==
  ASSUME CInv, NEW acked \in BOOLEAN, HostReads(acked), Posted
  PROVE  Posted' \/ Taken'
<1> DEFINE k == asked.packets - moved
<1>1. /\ IInv /\ Answering /\ "CTR_TX" \notin reg /\ Tx = TX.valid /\ todo = <<>>
      /\ pma_tx = Of(chunk)
      /\ (moved + 1 = chunk /\ Level) \/ (moved = chunk /\ ~Level)
  BY DEF CInv, Posted
<1>2. /\ asked \in Requests /\ asked.packets \in Nat /\ moved \in Nat
      /\ moved <= asked.packets /\ stages = ReadLeft(k) /\ k \in Nat
      /\ toggle \in BOOLEAN /\ chunk \in Nat
  BY <1>1, Left DEF Answering
<1>3. Turn("in")
  BY HostReadsDoes
<1> HIDE DEF k
<1>4. k > 0 /\ InData /\ Tail(stages) = ReadLeft(k - 1) /\ Toggle = toggle
  BY <1>2, <1>3, LeftToRead
<1>5. UNCHANGED <<ef, reset_flag, pma_rx, pma_tx, todo, loaded, usb_fsm_state,
                  usb_force_nak, usb_req, buf, chunk, asked, overtaken>>
  BY HostReadsGoes
<1>6. ("DTOG_TX" \in reg) = Toggle <=> Level
  BY <1>2, <1>4 DEF Level
<1>7. moved' \in Nat /\ moved' <= asked.packets
      /\ stages' = ReadLeft(asked.packets - moved')
      /\ moved' = chunk /\ toggle' \in BOOLEAN
      /\ (toggle' <=> "DTOG_TX" \notin reg)
  <2>1. CASE Level
    <3>1. stages' = Tail(stages) /\ toggle' = ~toggle /\ moved' = moved + 1
      BY <1>4, <1>6, <2>1, HostReadsGoes DEF Proceed
    <3>2. asked.packets - moved' = k - 1 /\ moved' = chunk
      BY <1>1, <1>2, <2>1, <3>1 DEF k
    <3>3. moved' <= asked.packets
      BY <1>2, <1>4, <3>1 DEF k
    <3>4. toggle' \in BOOLEAN /\ (toggle' <=> "DTOG_TX" \notin reg)
      BY <1>2, <2>1, <3>1 DEF Level
    <3> QED BY <1>2, <1>4, <3>1, <3>2, <3>3, <3>4
  <2>2. CASE ~Level
    <3>1. UNCHANGED <<stages, toggle, moved>>
      BY <1>6, <2>2, HostReadsGoes
    <3> QED BY <1>1, <1>2, <2>2, <3>1 DEF k, Level
  <2> QED BY <2>1, <2>2
<1>8. Fresh'
  <2>1. loaded = {}
    BY <1>1, NotLoaded DEF Now, Macros
  <2> QED BY <1>5, <2>1 DEF Fresh
<1>9. Rx' = Rx /\ Same("CTR_RX") /\ Same("DTOG_RX")
  BY HostReadsDoes
<1>10. Answering'
  <2>1. /\ Rx = RX.nak /\ asked.kind = "read" /\ usb_req = asked
        /\ usb_force_nak /\ "CTR_RX" \notin reg /\ "DTOG_RX" \in reg
        /\ chunk \in 1 .. asked.packets
        /\ usb_fsm_state = IF chunk < asked.packets THEN "DATA_IN"
                           ELSE "LAST_DATA_IN"
    BY <1>1 DEF Answering
  <2> QED BY <1>2, <1>5, <1>7, <1>8, <1>9, <2>1 DEF Answering, Same
<1>11. CASE acked
  <2>1. Tx' = TX.nak /\ "CTR_TX" \in reg' /\ ("DTOG_TX" \in reg' <=> "DTOG_TX" \notin reg)
    BY <1>11, HostReadsDoes
  <2>2. Level'
    BY <1>7, <2>1 DEF Level
  <2> QED BY <1>1, <1>5, <1>7, <1>10, <2>1, <2>2 DEF Taken
<1>12. CASE ~acked
  <2>1. reg' = reg
    BY <1>12, HostReadsDoes
  <2>2. ~Level' /\ Tx' = Tx
    BY <1>7, <2>1 DEF Level, Tx
  <2> QED BY <1>1, <1>5, <1>7, <1>10, <2>1, <2>2 DEF Posted, Of
<1> QED BY <1>11, <1>12

\* The answer of a request without data, or of one that writes.
LEMMA AnswerLeft ==
  ASSUME IInv, Waits, Turn("in")
  PROVE  stages = <<"in">>
<1>1. CASE asked.kind = "write"
  <2>1. asked.packets - moved \in Nat /\ stages = WriteLeft(asked.packets - moved)
    BY <1>1, Left DEF Waits
  <2> QED BY <2>1, LeftToWrite
<1>2. CASE asked.kind # "write"
  BY <1>2, Left DEF Waits
<1> QED BY <1>1, <1>2

LEMMA RepliedRead ==
  ASSUME CInv, NEW acked \in BOOLEAN, HostReads(acked), Replied
  PROVE  ReplyTaken' \/ Over' \/ Replied'
<1>1. IInv /\ Serving /\ Waits /\ Tx = TX.valid /\ todo = <<>>
  BY DEF CInv, Replied
<1>2. stages = <<"in">>
  BY <1>1, AnswerLeft, HostReadsDoes
<1>3. ~InData /\ Tail(stages) = <<>> /\ Toggle = TRUE
  BY <1>1, <1>2, Left
<1>4. UNCHANGED <<ef, reset_flag, pma_rx, pma_tx, todo, loaded, usb_fsm_state,
                  usb_force_nak, usb_req, buf, chunk, asked, overtaken>>
  BY HostReadsGoes
<1>5. ef
  BY <1>2, HostIsHeard DEF CInv
<1>6. loaded = {}
  BY <1>1, NotLoaded DEF Now, Macros
<1>7. Rx' = Rx /\ Same("CTR_RX") /\ "CTR_RX" \notin reg /\ "CTR_TX" \notin reg
      /\ usb_fsm_state = "STATUS_IN"
  BY <1>1, HostReadsDoes DEF Serving, Silent
<1>8. "DTOG_TX" \in reg => stages' = <<>>
  BY <1>3, HostReadsGoes DEF Proceed
<1>9. "DTOG_TX" \notin reg => UNCHANGED <<stages, toggle, moved>>
                              /\ asked.kind = "clear_halt_in"
  BY <1>1, <1>3, HostReadsGoes DEF Serving
<1>10. CASE acked
  <2>1. Tx' = TX.nak /\ "CTR_TX" \in reg'
    BY <1>10, HostReadsDoes
  <2> QED BY <1>1, <1>2, <1>4, <1>5, <1>6, <1>7, <1>8, <1>9, <2>1
          DEF ReplyTaken, Fresh, Same
<1>11. CASE ~acked
  <2>1. reg' = reg
    BY <1>11, HostReadsDoes
  <2>2. CASE "DTOG_TX" \in reg
    BY <1>1, <1>4, <1>6, <1>7, <1>8, <2>1, <2>2
       DEF Over, Silent, Fresh, Late
  <2>3. CASE "DTOG_TX" \notin reg
    <3>1. Serving' /\ Waits'
      BY <1>1, <1>2, <1>4, <1>6, <1>9, <2>1, <2>3
         DEF Serving, Waits, Silent, Fresh, Synced, Rx
    <3> QED BY <1>1, <1>4, <2>1, <3>1 DEF Replied, Tx
  <2> QED BY <2>2, <2>3
<1> QED BY <1>10, <1>11

LEMMA ReadPlace ==
  ASSUME CInv, Somewhere, NEW acked \in BOOLEAN, HostReads(acked)
  PROVE  Somewhere'
<1>1. Posted \/ Replied
  BY ReadingIsPosted, HostReadsDoes
<1> QED BY <1>1, PostedRead, RepliedRead DEF Somewhere

\* A packet can be sent only where the receiver is open for it.
LEMMA SendingIsHeard ==
  ASSUME IInv, Somewhere, Rx = RX.valid, "CTR_RX" \notin reg, Turn("out")
  PROVE  \/ Listening \/ Repeating \/ Receiving
         \/ (Replying \/ Replied) /\ asked.kind = "write"
<1>1. stages \notin {<<>>, <<"in">>, <<"failed">>}
  BY Left
<1>2. RX.valid # RX.nak
  BY Statuses
<1>3. ~Over /\ ~Asked /\ ~Fetched /\ ~Known
  BY <1>1, <1>2 DEF Over, Asked, Fetched, Known
<1>4. ~Posting /\ ~Posted /\ ~Taken /\ ~Heard
  BY <1>2 DEF Posting, Posted, Taken, Answering, Heard
<1>5. ~Opening /\ ~Arrived
  BY <1>2 DEF Opening, Arrived
<1>6. Waits => asked.kind = "write"
  BY <1>1 DEF Waits
<1>7. ~Halts /\ ~Unhalts /\ ((Replying \/ Replied) => asked.kind = "write")
  BY <1>6 DEF Halts, Unhalts, Replying, Replied
<1>8. ~ReplyTaken /\ ~Stuck /\ ~Refusing
  BY <1>1 DEF ReplyTaken, Stuck, Refusing
<1> QED BY <1>3, <1>4, <1>5, <1>7, <1>8 DEF Somewhere

LEMMA ListeningSent ==
  ASSUME CInv, NEW acked \in BOOLEAN, HostSends(acked), Listening
  PROVE  Heard'
<1>1. /\ IInv /\ usb_fsm_state = "STATUS_OUT" /\ ~usb_force_nak
      /\ stages = <<"out">> /\ Silent /\ "DTOG_RX" \in reg /\ Tx = TX.nak
      /\ todo = <<>> \/ (todo = <<Open>> /\ Rx = RX.nak)
  BY DEF CInv, Listening
<1>2. todo = <<>> /\ ef
  <2>1. RX.nak # RX.valid
    BY Statuses
  <2>2. Rx = RX.valid /\ Turn("out")
    BY HostSendsDoes
  <2> QED BY <1>1, <2>1, <2>2, HostIsHeard DEF CInv
<1>3. ~InData /\ Tail(stages) = <<>> /\ Toggle = TRUE
  BY <1>1, Left
<1>4. UNCHANGED <<ef, todo, loaded, usb_fsm_state, usb_force_nak>>
      /\ IF acked THEN Proceed ELSE UNCHANGED <<stages, toggle, moved>>
  BY HostSendsGoes
<1>5. /\ Rx' = RX.nak /\ "CTR_RX" \in reg' /\ "SETUP" \notin reg'
      /\ "DTOG_RX" \notin reg' /\ Tx' = Tx /\ Same("CTR_TX")
  BY <1>1, <1>3, HostSendsDoes
<1>6. stages' \in {<<>>, <<"out">>}
  BY <1>1, <1>3, <1>4 DEF Proceed
<1>7. Fresh'
  <2>1. loaded = {}
    BY <1>1, <1>2, NotLoaded DEF Now, Macros
  <2> QED BY <1>4, <2>1 DEF Fresh
<1> QED BY <1>1, <1>2, <1>4, <1>5, <1>6, <1>7 DEF Heard, Silent, Same

\* The host repeats the packet of the status stage.
LEMMA RepeatingSent ==
  ASSUME CInv, NEW acked \in BOOLEAN, HostSends(acked), Repeating
  PROVE  Over' \/ Repeating'
<1>1. /\ IInv /\ usb_fsm_state = "IDLE"
      /\ stages = <<"out">> /\ Silent /\ "DTOG_RX" \notin reg /\ Tx = TX.nak
      /\ Fresh /\ ((todo = <<>> /\ Rx = RX.valid) \/ (todo = <<Open>> /\ Rx = RX.nak))
  BY DEF CInv, Repeating
<1>2. ~InData /\ Tail(stages) = <<>> /\ Toggle = TRUE
  BY <1>1, Left
<1>3. UNCHANGED <<ef, todo, loaded, usb_fsm_state, usb_force_nak>>
      /\ IF acked THEN Proceed ELSE UNCHANGED <<stages, toggle, moved>>
  BY HostSendsGoes
<1>4. reg' = reg
  BY <1>1, <1>2, HostSendsDoes
<1>5. Silent' /\ Fresh' /\ Rx' = Rx /\ Tx' = Tx
  BY <1>1, <1>3, <1>4 DEF Silent, Fresh, Rx, Tx
<1>6. CASE acked
  <2>1. stages' = <<>>
    BY <1>2, <1>3, <1>6 DEF Proceed
  <2> QED BY <1>1, <1>3, <1>5, <2>1 DEF Over, Late
<1>7. CASE ~acked
  BY <1>1, <1>3, <1>4, <1>5, <1>7 DEF Repeating
<1> QED BY <1>6, <1>7

\* A packet of data: the next one, or the last one again.
SyncedAfter(n) == \/ moved' = n /\ (toggle' <=> "DTOG_RX" \in reg')
                  \/ moved' + 1 = n /\ ~(toggle' <=> "DTOG_RX" \in reg')

LEMMA SendSyncs ==
  ASSUME IInv, NEW acked \in BOOLEAN, HostSends(acked), NEW n \in Nat, Synced(n),
         asked \in Requests, moved <= asked.packets,
         stages = WriteLeft(asked.packets - moved)
  PROVE  /\ moved' \in Nat /\ moved' <= asked.packets /\ moved < asked.packets
         /\ stages' = WriteLeft(asked.packets - moved')
         /\ \/ /\ reg' = reg /\ pma_rx' = pma_rx /\ SyncedAfter(n)
               /\ moved + 1 = n
            \/ /\ Rx' = RX.nak /\ Tx' = Tx /\ "CTR_RX" \in reg'
               /\ "SETUP" \notin reg' /\ pma_rx' = Of(n + 1)
               /\ SyncedAfter(n + 1) /\ moved = n
<1> DEFINE k == asked.packets - moved
<1>1. /\ moved \in Nat /\ toggle \in BOOLEAN /\ asked.packets \in Nat /\ k \in Nat
      /\ stages = WriteLeft(k)
  BY Left
<1>2. Turn("out")
  BY HostSendsDoes
<1> HIDE DEF k
<1>3. k > 0 /\ InData /\ Tail(stages) = WriteLeft(k - 1) /\ Toggle = toggle
  BY <1>1, <1>2, LeftToWrite
<1>4. IF acked THEN stages' = Tail(stages) /\ toggle' = ~toggle /\ moved' = moved + 1
      ELSE UNCHANGED <<stages, toggle, moved>>
  BY <1>3, HostSendsGoes DEF Proceed
<1>5. /\ moved' \in Nat /\ moved' <= asked.packets /\ moved < asked.packets
      /\ stages' = WriteLeft(asked.packets - moved')
  <2>1. CASE acked
    <3>1. asked.packets - moved' = k - 1
      BY <1>1, <1>4, <2>1 DEF k
    <3>2. moved' \in Nat /\ moved' <= asked.packets /\ moved < asked.packets
      BY <1>1, <1>3, <1>4, <2>1 DEF k
    <3> QED BY <1>3, <1>4, <2>1, <3>1, <3>2
  <2>2. CASE ~acked
    BY <1>1, <1>3, <1>4, <2>2 DEF k
  <2> QED BY <2>1, <2>2
<1>6. CASE moved + 1 = n /\ ~(toggle <=> "DTOG_RX" \in reg)
  <2>1. ("DTOG_RX" \in reg) # Toggle
    BY <1>1, <1>3, <1>6
  <2>2. reg' = reg /\ pma_rx' = pma_rx
    BY <2>1, HostSendsDoes, HostSendsGoes
  <2>3. SyncedAfter(n)
    BY <1>1, <1>4, <1>6, <2>2 DEF SyncedAfter
  <2> QED BY <1>5, <1>6, <2>2, <2>3
<1>7. CASE moved = n /\ (toggle <=> "DTOG_RX" \in reg)
  <2>1. ("DTOG_RX" \in reg) = Toggle
    BY <1>1, <1>3, <1>7
  <2>2. /\ Rx' = RX.nak /\ Tx' = Tx /\ "CTR_RX" \in reg' /\ "SETUP" \notin reg'
        /\ "DTOG_RX" \in reg' <=> "DTOG_RX" \notin reg
    BY <2>1, HostSendsDoes
  <2>3. pma_rx' = Of(n + 1)
    BY <1>3, <1>7, <2>1, HostSendsGoes
  <2>4. SyncedAfter(n + 1)
    BY <1>1, <1>4, <1>7, <2>2 DEF SyncedAfter
  <2> QED BY <1>5, <1>7, <2>2, <2>3, <2>4
<1> QED BY <1>6, <1>7 DEF Synced

LEMMA ReceivingSent ==
  ASSUME CInv, NEW acked \in BOOLEAN, HostSends(acked), Receiving
  PROVE  Arrived' \/ Receiving'
<1>1. /\ IInv /\ Storing /\ "CTR_RX" \notin reg /\ Rx = RX.valid
      /\ \/ todo = <<>> /\ Synced(chunk)
         \/ todo = <<ToData>> /\ buf[1] = Of(chunk + 1) /\ Synced(chunk + 1)
  BY DEF CInv, Receiving
<1>2. /\ asked \in Requests /\ moved <= asked.packets
      /\ stages = WriteLeft(asked.packets - moved)
      /\ asked.packets \in Nat /\ chunk \in Nat /\ moved \in Nat
  BY <1>1, Left DEF Storing, IInv, Types, DriverTypes
<1>3. PICK n \in Nat : /\ Synced(n)
                       /\ \/ todo = <<>> /\ n = chunk
                          \/ /\ todo = <<ToData>> /\ n = chunk + 1
                             /\ buf[1] = Of(chunk + 1)
  <2>1. chunk + 1 \in Nat
    BY <1>2
  <2> QED BY <1>1, <1>2, <2>1
<1>4. UNCHANGED <<ef, todo, loaded, usb_fsm_state, usb_force_nak, usb_req, buf,
                  chunk, asked>>
  BY HostSendsGoes
<1>5. Fresh'
  <2>1. Now \notin Macros
    BY <1>1, Ops DEF Now, Macros
  <2>2. loaded = {}
    BY <1>1, <2>1, NotLoaded
  <2> QED BY <1>4, <2>2 DEF Fresh
<1>6. Tx' = Tx /\ Same("CTR_TX") /\ Same("DTOG_TX")
  BY HostSendsDoes
<1>7. moved' <= asked.packets /\ stages' = WriteLeft(asked.packets - moved')
      /\ moved < asked.packets
  BY <1>1, <1>2, <1>3, SendSyncs
<1>8. Storing'
  <2>1. /\ asked.kind = "write" /\ usb_req = asked /\ ~usb_force_nak
        /\ "CTR_TX" \notin reg /\ Tx = TX.nak /\ "DTOG_TX" \in reg
        /\ chunk < asked.packets
        /\ usb_fsm_state = DataOutState(asked.packets - chunk)
    BY <1>1 DEF Storing
  <2> QED BY <1>2, <1>4, <1>5, <1>6, <1>7, <2>1 DEF Storing, Same
<1>9. Of(chunk + 1)' = Of(chunk + 1) /\ Of(chunk + 2)' = Of(chunk + 2)
  BY <1>4 DEF Of
<1>10. CASE reg' = reg /\ pma_rx' = pma_rx /\ SyncedAfter(n)
  <2>1. Rx' = RX.valid /\ "CTR_RX" \notin reg'
    BY <1>1, <1>10 DEF Rx
  <2> QED BY <1>3, <1>4, <1>8, <1>9, <1>10, <2>1
          DEF Receiving, Synced, SyncedAfter
<1>11. CASE /\ Rx' = RX.nak /\ "CTR_RX" \in reg' /\ "SETUP" \notin reg'
            /\ pma_rx' = Of(n + 1) /\ SyncedAfter(n + 1) /\ moved = n
  <2>1. CASE todo = <<>> /\ n = chunk
    BY <1>4, <1>8, <1>9, <1>11, <2>1 DEF Arrived, Synced, SyncedAfter
  <2>2. CASE todo = <<ToData>> /\ n = chunk + 1 /\ buf[1] = Of(chunk + 1)
    <3>1. chunk + 1 < asked.packets /\ n + 1 = chunk + 2
      BY <1>2, <1>7, <1>11, <2>2
    <3> QED BY <1>4, <1>8, <1>9, <1>11, <2>2, <3>1
            DEF Arrived, Synced, SyncedAfter
  <2> QED BY <1>3, <2>1, <2>2
<1> QED BY <1>1, <1>2, <1>3, <1>10, <1>11, SendSyncs

\* The last packet of data is repeated while the answer is on its way.
LEMMA ReplyingSent ==
  ASSUME CInv, NEW acked \in BOOLEAN, HostSends(acked), Replying \/ Replied,
         asked.kind = "write"
  PROVE  Replying' \/ Replied'
<1>1. IInv /\ Serving /\ Waits
  BY DEF CInv, Replying, Replied
<1>2. /\ asked \in Requests /\ moved <= asked.packets
      /\ stages = WriteLeft(asked.packets - moved)
      /\ asked.packets \in Nat /\ moved \in Nat
      /\ Synced(asked.packets) /\ Rx = RX.valid
  BY <1>1, Left DEF Waits
<1>3. UNCHANGED <<ef, todo, loaded, usb_fsm_state, usb_force_nak, usb_req, buf,
                  chunk, asked>>
  BY HostSendsGoes
<1>4. /\ moved' <= asked.packets /\ stages' = WriteLeft(asked.packets - moved')
      /\ reg' = reg /\ SyncedAfter(asked.packets)
  BY <1>1, <1>2, SendSyncs
<1>5. Waits'
  BY <1>2, <1>3, <1>4 DEF Waits, Synced, SyncedAfter, Rx
<1>6. Serving'
  BY <1>1, <1>3, <1>4 DEF Serving, Silent, Fresh
<1> QED BY <1>3, <1>4, <1>5, <1>6 DEF Replying, Replied, Tx

LEMMA SendPlace ==
  ASSUME CInv, Somewhere, NEW acked \in BOOLEAN, HostSends(acked)
  PROVE  Somewhere'
<1>1. \/ Listening \/ Repeating \/ Receiving
      \/ (Replying \/ Replied) /\ asked.kind = "write"
  BY SendingIsHeard, HostSendsDoes DEF CInv
<1> QED BY <1>1, ListeningSent, RepeatingSent, ReceivingSent, ReplyingSent
        DEF Somewhere

\* The host is told that a request was refused, or that the endpoint is halted.
LEMMA StalledPlace ==
  ASSUME CInv, Somewhere, HostStalled
  PROVE  Somewhere'
<1>1. /\ IInv /\ stages' = <<"failed">>
      /\ UNCHANGED <<reg, ef, reset_flag, pma_rx, pma_tx, todo, loaded,
                     usb_fsm_state, usb_force_nak, usb_req, buf, chunk, asked,
                     toggle, moved>>
  BY DEF CInv, HostStalled, peripheral, driver
<1>2. /\ \/ Turn("in") /\ Tx = TX.stall
         \/ Turn("out") /\ Rx = RX.stall
      /\ TX.stall # TX.nak /\ TX.stall # TX.valid
      /\ RX.stall # RX.nak /\ RX.stall # RX.valid
  BY Statuses DEF HostStalled, Rx, Tx
<1>3. stages # <<>> /\ stages # <<"failed">>
  BY <1>1, <1>2, Left DEF Turn
<1>4. Silent' = Silent /\ Fresh' = Fresh /\ Tx' = Tx /\ Rx' = Rx
  BY <1>1 DEF Silent, Fresh, Tx, Rx
<1>5. ~Over /\ ~Asked /\ ~Fetched /\ ~Known
  <2>1. Begun => Tx = TX.nak
    BY DEF Begun
  <2>2. Asked \/ Fetched \/ Known => Begun /\ Rx # RX.stall
    BY <1>2 DEF Asked, Fetched, Known
  <2> QED BY <1>2, <1>3, <2>1, <2>2 DEF Over
<1>6. ~Posting /\ ~Posted /\ ~Taken
  <2>1. Posting \/ Posted \/ Taken => Rx = RX.nak /\ Tx # TX.stall
    BY <1>2 DEF Posting, Posted, Taken, Answering
  <2> QED BY <1>2, <2>1
<1>7. ~Listening /\ ~Heard /\ ~Repeating /\ ~Opening /\ ~Receiving /\ ~Arrived
  <2>1. Listening \/ Heard \/ Repeating => Rx # RX.stall /\ Tx # TX.stall
    BY <1>2 DEF Listening, Heard, Repeating
  <2>2. Opening \/ Receiving \/ Arrived => Rx # RX.stall /\ Tx # TX.stall
    BY <1>2 DEF Opening, Receiving, Arrived, Storing
  <2> QED BY <1>2, <2>1, <2>2
<1>8. ~ReplyTaken /\ ~Stuck
  <2>1. ReplyTaken \/ Stuck => Tx # TX.stall /\ stages \in {<<>>, <<"in">>}
    BY <1>2 DEF ReplyTaken, Stuck
  <2> QED BY <1>1, <1>2, <2>1, Left
<1>9. Waits => (asked.kind = "write" /\ Rx = RX.valid) \/ ~Turn("out")
  BY <1>1, Left DEF Waits
<1>10. Halts \/ Unhalts \/ Replying \/ Replied => Waits /\ Tx = TX.stall
  <2>1. Halts \/ Unhalts \/ Replying \/ Replied => Waits
    BY DEF Halts, Unhalts, Replying, Replied
  <2> QED BY <1>2, <1>9, <2>1
<1>11. ~Unhalts /\ ~Replied
  BY <1>2, <1>10 DEF Unhalts, Replied
<1>12. ASSUME Halts \/ Replying PROVE Halts' \/ Replying'
  <2>1. asked.kind = "set_halt" /\ Serving /\ Waits /\ Tx = TX.stall
    BY <1>2, <1>10, <1>12 DEF Halts, Replying
  <2>2. Serving' /\ Waits'
    BY <1>1, <1>4, <2>1 DEF Serving, Waits
  <2> QED BY <1>1, <1>2, <1>4, <1>12, <2>1, <2>2 DEF Halts, Replying
<1>13. ASSUME Refusing PROVE Refusing'
  <2>1. stages = <<"in">>
    BY <1>3, <1>13 DEF Refusing
  <2>2. Tx = TX.stall
    BY <1>1, <1>2, <2>1, Left
  <2> QED BY <1>1, <1>2, <1>4, <1>13, <2>2 DEF Refusing
<1> QED BY <1>5, <1>6, <1>7, <1>8, <1>11, <1>12, <1>13 DEF Somewhere

-----------------------------------------------------------------------------
\* The driver, from place to place.  Where it may next read the register, it
\* may do that (LoadStays); the lemmas are about its other steps.
LEMMA OverGoes ==
  ASSUME CInv, Driver, ~Load, Over
  PROVE  Over'
<1>1. IInv /\ stages = <<>> /\ Silent /\ (ef => Fresh) /\ (Late \/ todo \in SettingUp)
  BY DEF CInv, Over
<1>2. stages' = <<>>
  BY <1>1, DriverStill DEF HostStays
<1>3. CASE todo = <<>>
  <2>1. Now = "poll"
    BY <1>3 DEF Now
  <2>2. PollReset
    <3>1. PollReset \/ PollReceived \/ PollSent
      BY <2>1, Acts
    <3> QED BY <1>1, <3>1 DEF PollReceived, PollSent, Silent, CTRS
  <2>3. loaded = {}
    BY <1>1, <2>1, NotLoaded DEF Macros
  <2>4. Silent' /\ Fresh'
    BY <1>1, <2>2, <2>3 DEF PollReset, Silent, Fresh, driver_but_todo
  <2>5. todo' \in SettingUp
    BY <2>2, SetUpIs DEF PollReset
  <2> QED BY <1>2, <2>4, <2>5 DEF Over
<1>4. CASE todo = <<ToIn>> /\ usb_fsm_state = "STATUS_IN"
  <2>1. Now = "in"
    BY <1>4, Ops DEF Now
  <2>2. In
    BY <2>1, Acts
  <2>3. todo' = <<>> /\ UNCHANGED <<peripheral, loaded>>
    BY <1>1, <1>4, <2>2, InGoes
  <2>4. Silent' /\ Fresh'
    BY <1>1, <2>1, <2>3, NotLoaded DEF Macros, Silent, Fresh, peripheral
  <2> QED BY <1>2, <2>3, <2>4 DEF Over, Late
<1>5. CASE todo = <<Enabling>>
  <2>1. Now = "enable"
    BY <1>5, Ops DEF Now
  <2>2. Enable
    BY <2>1, Acts
  <2>3. Silent' /\ Fresh'
    BY <1>1, <2>1, <2>2, NotLoaded
       DEF Macros, Enable, Silent, Fresh, driver_but_todo
  <2> QED BY <1>2, <2>2, <2>3 DEF Enable, Over, Late
<1>6. ASSUME Now \in Macros, Tail(todo) = <<>> \/ Tail(todo) \in SettingUp
      PROVE  Over'
  <2>1. Store
    BY <1>6, Acts
  <2>2. todo' = Tail(todo) /\ loaded' = {}
    BY <1>1, <2>1, StoreGoes
  <2>3. Silent'
    <3>1. PICK old \in SUBSET Bits : reg' = Stored(reg, Value(Head(todo), old))
      BY <1>1, <2>1, StoreGoes
    <3>2. \A v : Stored(reg, v) \cap CTRS \subseteq reg
      BY DEF Stored, CTRS, TOGGLE, TYPE, DTOGS, RX_STAT, TX_STAT, Xor
    <3> QED BY <1>1, <3>1, <3>2 DEF Silent, CTRS
  <2> QED BY <1>2, <1>6, <2>2, <2>3 DEF Over, Late, Fresh
<1>7. CASE todo = <<Open>>
  <2>1. Now = "set_rx" /\ Tail(todo) = <<>>
    BY <1>7, Ops DEF Now
  <2> QED BY <1>6, <2>1 DEF Macros
<1>8. CASE todo \in SettingUp \ {<<Enabling>>}
  <2>1. \/ \E r \in SettingUp :
             \/ Runs("set_addr", SetAddr, r) \/ Runs("set_type", SetType, r)
             \/ Runs("clr_tx_dtog", ClrTx, r) \/ Runs("set_tx", NakTx, r)
             \/ Runs("clr_rx_dtog", ClrRx, r)
        \/ Runs("set_rx", Open, <<Enabling>>)
    BY <1>8, SettingUpRuns
  <2>2. <<Enabling>> \in SettingUp
    BY DEF SettingUp
  <2> QED BY <1>6, <2>1, <2>2 DEF Runs, Macros
<1> QED BY <1>1, <1>3, <1>4, <1>5, <1>7, <1>8 DEF Late

\* A setup packet.
LEMMA AskedGoes ==
  ASSUME CInv, Driver, ~Load, Asked
  PROVE  Asked' \/ Fetched'
<1>1. /\ IInv /\ Begun /\ "CTR_RX" \in reg /\ "SETUP" \in reg
      /\ Late \/ todo = <<Look>>
  BY DEF CInv, Asked
<1>2. ~reset_flag /\ HostStays
  <2>1. stages # <<>>
    BY <1>1, StagesAre DEF Begun
  <2> QED BY <2>1, HostIsHeard, DriverStill DEF CInv
<1>3. ASSUME UNCHANGED <<reg, pma_rx>> PROVE Begun' /\ Rx' = Rx
  BY <1>1, <1>2, <1>3 DEF Begun, HostStays, Of, Rx, Tx
<1>4. <<>> # <<Open>> /\ <<Look>> # <<Open>> /\ <<ToIn>> # <<Open>>
  BY Ops
<1>5. CASE todo = <<>>
  <2>1. todo' = <<Look>> /\ UNCHANGED <<reg, pma_rx>>
    BY <1>1, <1>2, <1>5, PollGoes
  <2>2. Rx # RX.stall
    BY <1>4, <1>5 DEF Asked
  <2> QED BY <1>1, <1>3, <1>4, <2>1, <2>2 DEF Asked
<1>6. CASE todo = <<ToIn>> /\ usb_fsm_state = "STATUS_IN"
  <2>1. Now = "in"
    BY <1>6, Ops DEF Now
  <2>2. In
    BY <2>1, Acts
  <2>3. todo' = <<>> /\ UNCHANGED <<reg, pma_rx>>
    BY <1>1, <1>6, <2>2, InGoes DEF peripheral
  <2>4. Rx # RX.stall
    BY <1>4, <1>6 DEF Asked
  <2> QED BY <1>1, <1>3, <1>4, <2>3, <2>4 DEF Asked, Late
<1>7. CASE todo = <<Open>>
  <2>1. Now = "set_rx" /\ Head(todo) = Open /\ Tail(todo) = <<>>
    BY <1>7, Ops DEF Now
  <2>2. Store
    BY <2>1, Acts DEF Macros
  <2>3. PICK old \in SUBSET Bits :
          /\ loaded = {old}
          /\ \E s \in {RX.stall, RX.nak, RX.valid} :
               /\ Head(todo)[2] = s
               /\ Rx' = Xor(Xor(Rx, old \cap RX_STAT), s)
               /\ Tx' = Tx /\ Same("CTR_RX") /\ Same("CTR_TX")
               /\ Same("SETUP") /\ Same("DTOG_RX") /\ Same("DTOG_TX")
    BY <1>1, <2>1, <2>2, StoreDoes
  <2>4. Rx = RX.nak /\ old \cap RX_STAT # RX.disabled
    BY <1>7, <2>3 DEF Asked
  <2>5. Rx' = Xor(Xor(Rx, old \cap RX_STAT), RX.valid)
    BY <2>1, <2>3, Ops
  <2>6. Rx' # RX.stall
    BY <2>4, <2>5, Statuses DEF Xor
  <2>7. todo' = <<>> /\ pma_rx' = pma_rx
    BY <1>1, <2>1, <2>2, StoreGoes
  <2>8. Begun'
    BY <1>1, <1>2, <2>3, <2>7 DEF Begun, HostStays, Of, Same
  <2>9. "CTR_RX" \in reg' /\ "SETUP" \in reg'
    BY <1>1, <2>3 DEF Same
  <2> QED BY <1>4, <2>6, <2>7, <2>8, <2>9 DEF Asked, Late
<1>8. CASE todo = <<Look>>
  <2>1. Now = "which"
    BY <1>8, Ops DEF Now
  <2>2. Setup
    BY <1>1, <2>1, Acts DEF Out
  <2>3. /\ usb_force_nak' /\ todo' = <<Nak, Fetch, ToSetup>>
        /\ UNCHANGED <<reg, pma_rx, loaded>>
    BY <2>2 DEF Setup, peripheral, Nak, Fetch, ToSetup
  <2>4. Fresh'
    BY <1>1, <2>1, <2>3, NotLoaded DEF Macros, Fresh
  <2>5. Rx # RX.stall
    BY <1>4, <1>8 DEF Asked
  <2> QED BY <1>1, <1>3, <2>3, <2>4, <2>5 DEF Fetched
<1> QED BY <1>1, <1>5, <1>6, <1>7, <1>8 DEF Late

LEMMA FetchedGoes ==
  ASSUME CInv, Driver, ~Load, Fetched
  PROVE  Fetched' \/ Known'
<1>1. IInv /\ Begun /\ "CTR_RX" \in reg /\ usb_force_nak /\ Fresh
  BY DEF CInv, Fetched
<1>2. HostStays
  BY DriverStill
<1>3. ASSUME pma_rx' = pma_rx, Tx' = Tx, TogglesStay, Same("CTR_TX") PROVE Begun'
  BY <1>1, <1>2, <1>3 DEF Begun, HostStays, Of, TogglesStay, Same
<1>4. ASSUME UNCHANGED <<reg, pma_rx>> PROVE Begun' /\ Rx' = Rx
  BY <1>1, <1>2, <1>4 DEF Begun, HostStays, Of, Rx, Tx
<1>5. CASE todo = <<Nak, Fetch, ToSetup>>
  <2>1. Now = "set_rx" /\ Head(todo) = Nak /\ Tail(todo) = <<Fetch, ToSetup>>
    BY <1>5, Ops DEF Now
  <2>2. Store
    BY <2>1, Acts DEF Macros
  <2>3. /\ todo' = <<Fetch, ToSetup>> /\ Fresh' /\ Rx' = RX.nak /\ Tx' = Tx
        /\ UNCHANGED <<pma_rx, usb_force_nak>> /\ FlagsStay /\ TogglesStay
    BY <1>1, <2>1, <2>2, FreshStore, Ops
  <2>4. Begun' /\ "CTR_RX" \in reg'
    BY <1>1, <1>3, <2>3 DEF FlagsStay, Same
  <2> QED BY <1>1, <2>3, <2>4 DEF Fetched
<1>6. CASE todo = <<Fetch, ToSetup>>
  <2>1. Now = "read" /\ Rx = RX.nak
    <3>1. <<Fetch, ToSetup>> # <<Nak, Fetch, ToSetup>>
      OBVIOUS
    <3>2. <<Fetch, ToSetup>> \notin {<<Half2, Ctr, ToSetup>>, <<Ctr, ToSetup>>}
      BY Ops
    <3> QED BY <1>6, <3>1, <3>2, Ops DEF Now, Fetched
  <2>2. Read
    BY <2>1, Acts
  <2>3. UNCHANGED <<reg, pma_rx, loaded, usb_force_nak>>
    BY <2>2 DEF Read, peripheral
  <2>4. todo' = <<Half1, Half2, Ctr, ToSetup>>
    <3>1. RX.nak # RX.valid
      BY Statuses
    <3>2. todo # <<Fetch>> /\ todo # <<Fetch, ToData>>
      BY <1>6, Ops
    <3> QED BY <1>1, <1>6, <2>1, <2>2, <3>1, <3>2, ReadGoes DEF Rx
  <2>5. Fresh'
    BY <1>1, <2>3 DEF Fresh
  <2> QED BY <1>1, <1>4, <2>1, <2>3, <2>4, <2>5 DEF Fetched
<1>7. CASE todo = <<Half1, Half2, Ctr, ToSetup>>
  <2>1. /\ Now = "copy" /\ Head(todo) = Half1
        /\ Tail(todo) = <<Half2, Ctr, ToSetup>>
    BY <1>7, Ops DEF Now
  <2>2. Rx = RX.nak
    <3>1. todo # <<Nak, Fetch, ToSetup>>
      BY <1>7
    <3> QED BY <3>1 DEF Fetched
  <2>3. /\ UNCHANGED <<reg, pma_rx, usb_force_nak>> /\ Fresh'
        /\ todo' = <<Half2, Ctr, ToSetup>> /\ buf'[1] = pma_rx
    BY <1>1, <2>1, CopyGoes
  <2> QED BY <1>1, <1>4, <2>2, <2>3 DEF Fetched
<1>8. CASE todo = <<Half2, Ctr, ToSetup>>
  <2>1. /\ Now = "copy" /\ Head(todo) = Half2 /\ Tail(todo) = <<Ctr, ToSetup>>
    BY <1>8, Ops DEF Now
  <2>2. Rx = RX.nak /\ buf[1] = pma_rx
    <3>1. todo # <<Nak, Fetch, ToSetup>>
      BY <1>8, Ops
    <3>2. todo # <<Fetch, ToSetup>> /\ todo # <<Half1, Half2, Ctr, ToSetup>>
      BY <1>8
    <3> QED BY <3>1, <3>2 DEF Fetched
  <2>3. /\ UNCHANGED <<reg, pma_rx, usb_force_nak>> /\ Fresh'
        /\ todo' = <<Ctr, ToSetup>> /\ buf'[1] = pma_rx
    BY <1>1, <2>1, <2>2, CopyGoes
  <2> QED BY <1>1, <1>4, <2>2, <2>3 DEF Fetched
<1>9. CASE todo = <<Ctr, ToSetup>>
  <2>1. Now = "clr_rx_ctr" /\ Tail(todo) = <<ToSetup>>
    BY <1>9, Ops DEF Now
  <2>2. Store
    BY <2>1, Acts DEF Macros
  <2>3. Rx = RX.nak /\ buf[1] = pma_rx
    <3>1. todo # <<Nak, Fetch, ToSetup>> /\ todo # <<Half1, Half2, Ctr, ToSetup>>
      BY <1>9
    <3>2. todo # <<Fetch, ToSetup>>
      BY <1>9, Ops
    <3> QED BY <3>1, <3>2 DEF Fetched
  <2>4. /\ todo' = <<ToSetup>> /\ Rx' = Rx /\ Tx' = Tx /\ "CTR_RX" \notin reg'
        /\ Same("CTR_TX") /\ TogglesStay
        /\ UNCHANGED <<pma_rx, usb_force_nak, buf>>
    BY <1>1, <2>1, <2>2, FreshStore
  <2> QED BY <1>1, <1>3, <2>3, <2>4 DEF Known
<1> QED BY <1>5, <1>6, <1>7, <1>8, <1>9 DEF Fetched

\* A request is dispatched.
LEMMA KnownGoes ==
  ASSUME CInv, Driver, Known
  PROVE  \/ Posting' \/ Opening' \/ Refusing' \/ Halts' \/ Unhalts'
         \/ Replying'
<1>1. /\ IInv /\ Begun /\ "CTR_RX" \notin reg /\ usb_force_nak /\ Rx = RX.nak
      /\ buf[1] = pma_rx /\ todo = <<ToSetup>>
  BY DEF CInv, Known
<1>2. Now = "setup"
  BY <1>1, Ops DEF Now
<1>3. Dispatch
  BY <1>2, Acts
<1>4. buf[1].of = asked /\ asked \in Requests
  BY <1>1 DEF Begun, Of
<1>5. /\ usb_req' = asked /\ UNCHANGED <<peripheral, loaded, buf, others>>
      /\ asked.kind = "read" =>
           /\ todo' = <<Put(Of(1))>> /\ chunk' = 1
           /\ usb_fsm_state' = IF 1 < asked.packets THEN "DATA_IN"
                               ELSE "LAST_DATA_IN"
           /\ usb_force_nak' = usb_force_nak
      /\ asked.kind = "write" =>
           /\ todo' = <<Open>> /\ chunk' = 0 /\ usb_force_nak' = FALSE
           /\ usb_fsm_state' = DataOutState(asked.packets)
      /\ asked.kind = "unknown" =>
           todo' = <<StallTx, StallRx>> /\ usb_fsm_state' = "IDLE"
      /\ asked.kind \in {"plain", "set_halt", "clear_halt", "clear_halt_in"} =>
           usb_fsm_state' = "STATUS_IN"
      /\ asked.kind = "set_halt" => todo' = <<StallTx, StallRx, Put(Empty)>>
      /\ asked.kind = "clear_halt" => todo' = <<NakTx, ClrRx, Open, Put(Empty)>>
      /\ asked.kind = "clear_halt_in" => todo' = <<NakTx, ClrTx, Put(Empty)>>
      /\ asked.kind = "plain" => todo' = <<Put(Empty)>>
  BY <1>1, <1>3, <1>4, DispatchGoes DEF Of
<1>6. /\ UNCHANGED <<reg, asked, stages, toggle, moved>> /\ Fresh'
      /\ Rx' = RX.nak /\ Tx' = TX.nak /\ Silent'
      /\ "DTOG_RX" \in reg' /\ "DTOG_TX" \in reg'
  <2>1. loaded = {}
    BY <1>1, <1>2, NotLoaded DEF Macros
  <2> QED BY <1>1, <1>5, <2>1
          DEF peripheral, others, host, Fresh, Rx, Tx, Begun, Silent
<1>7. /\ asked.packets \in Nat /\ asked.packets > 0
      /\ stages = Stages(asked) /\ toggle = TRUE /\ moved = 0
  BY <1>1, <1>4, StagesAre DEF Begun
<1>8. asked.packets - 0 = asked.packets
  BY <1>7
<1>9. CASE asked.kind = "read"
  <2>1. stages' = ReadLeft(asked'.packets - moved')
    BY <1>4, <1>6, <1>7, <1>8, <1>9, StagesAre
  <2>2. chunk' \in 1 .. asked'.packets /\ moved' <= asked'.packets
        /\ moved' + 1 = chunk'
    BY <1>5, <1>6, <1>7, <1>9
  <2>3. Answering'
    BY <1>1, <1>4, <1>5, <1>6, <1>9, <2>1, <2>2 DEF Answering, Silent
  <2>4. Of(chunk)' = Of(1)
    BY <1>5, <1>6, <1>9 DEF Of
  <2>5. Level'
    BY <1>6, <1>7 DEF Level
  <2> QED BY <1>5, <1>6, <1>9, <2>2, <2>3, <2>4, <2>5 DEF Posting, Silent
<1>10. CASE asked.kind = "write"
  <2>1. stages' = WriteLeft(asked'.packets - moved')
    BY <1>4, <1>6, <1>7, <1>8, <1>10, StagesAre
  <2>2. moved' <= asked'.packets /\ chunk' < asked'.packets /\ chunk' = 0
        /\ asked'.packets - chunk' = asked.packets
    BY <1>5, <1>6, <1>7, <1>10
  <2>3. Storing'
    BY <1>4, <1>5, <1>6, <1>10, <2>1, <2>2 DEF Storing, Silent
  <2>4. Synced(0)'
    BY <1>6, <1>7 DEF Synced
  <2> QED BY <1>5, <1>6, <1>10, <2>2, <2>3, <2>4 DEF Opening, Silent
<1>11. CASE asked.kind \notin {"read", "write"}
  <2>1. stages' = <<"in">>
    BY <1>4, <1>6, <1>7, <1>11, StagesAre
  <2>2. Waits'
    BY <1>4, <1>6, <1>7, <1>11, <2>1 DEF Waits
  <2>3. asked.kind # "unknown" => Serving'
    <3>1. asked.kind \in Kinds
      BY <1>4, RequestFacts
    <3> QED BY <1>5, <1>6, <1>11, <3>1 DEF Serving, Kinds
  <2>4. asked.kind = "unknown" => Refusing'
    BY <1>5, <1>6, <2>1 DEF Refusing
  <2>5. asked.kind = "set_halt" => Halts'
    BY <1>5, <1>6, <2>1, <2>2, <2>3 DEF Halts
  <2>6. asked.kind \in {"clear_halt", "clear_halt_in"} => Unhalts'
    BY <1>5, <1>6, <2>2, <2>3 DEF Unhalts, Unhalting, UnhaltingIn
  <2>7. asked.kind = "plain" => Replying'
    BY <1>5, <1>6, <2>2, <2>3 DEF Replying
  <2>8. asked.kind \in Kinds
    BY <1>4, RequestFacts
  <2> QED BY <1>11, <2>4, <2>5, <2>6, <2>7, <2>8 DEF Kinds
<1> QED BY <1>9, <1>10, <1>11

\* A packet of the answer.
LEMMA PostingGoes ==
  ASSUME CInv, Driver, ~Load, Posting
  PROVE  Posting' \/ Posted'
<1>1. /\ IInv /\ Answering /\ "CTR_TX" \notin reg /\ moved + 1 = chunk /\ Level
      /\ Tx = TX.nak /\ Fresh
  BY DEF CInv, Posting, Answering
<1>2. HostStays
  BY DriverStill
<1>3. ASSUME Rx' = Rx, FlagsStay, TogglesStay, Fresh',
             UNCHANGED <<usb_req, usb_force_nak, usb_fsm_state, chunk>>
      PROVE  /\ Answering' /\ "CTR_TX" \notin reg' /\ moved' + 1 = chunk'
             /\ Level' /\ Of(chunk)' = Of(chunk)
  BY <1>1, <1>2, <1>3
     DEF Answering, HostStays, FlagsStay, TogglesStay, Same, Level, Of
<1>4. CASE todo = <<Put(Of(chunk))>>
  <2>1. TX.nak # TX.valid
    BY Statuses
  <2>2. /\ UNCHANGED <<reg, usb_req, usb_force_nak, usb_fsm_state, chunk>>
        /\ Fresh' /\ todo' = <<Send>> /\ pma_tx' = Of(chunk)
    BY <1>1, <1>4, <2>1, WriteGoes
  <2>3. RegStays
    BY <2>2, RegIsStill
  <2> QED BY <1>1, <1>3, <2>2, <2>3 DEF Posting, RegStays
<1>5. CASE todo = <<Send>> /\ pma_tx = Of(chunk)
  <2>1. Now = "set_tx" /\ Head(todo) = Send /\ Tail(todo) = <<>>
    BY <1>5, Ops DEF Now
  <2>2. Store
    BY <2>1, Acts DEF Macros
  <2>3. /\ todo' = <<>> /\ Fresh' /\ Tx' = TX.valid /\ Rx' = Rx
        /\ FlagsStay /\ TogglesStay
        /\ UNCHANGED <<pma_tx, usb_req, usb_force_nak, usb_fsm_state, chunk>>
    BY <1>1, <2>1, <2>2, FreshStore, Ops
  <2> QED BY <1>3, <1>5, <2>3 DEF Posted
<1> QED BY <1>4, <1>5 DEF Posting

\* While a packet waits to be read, or the receiver to hear, nothing is to do.
LEMMA NothingToDo ==
  ASSUME CInv, Driver, todo = <<>>, Silent, stages # <<>>
  PROVE  FALSE
  BY HostIsHeard, PollGoes DEF CInv

LEMMA TakenGoes ==
  ASSUME CInv, Driver, ~Load, Taken
  PROVE  Taken' \/ Posting' \/ Listening'
<1>1. /\ IInv /\ Answering /\ moved = chunk /\ Level /\ Tx = TX.nak /\ Fresh
      /\ "CTR_RX" \notin reg
  BY DEF CInv, Taken, Answering
<1>2. HostStays
  BY DriverStill
<1>3. ASSUME Rx' = Rx, Same("CTR_RX"), TogglesStay, Fresh',
             UNCHANGED <<usb_req, usb_force_nak, usb_fsm_state, chunk>>
      PROVE  Answering' /\ moved' = chunk' /\ Level'
  BY <1>1, <1>2, <1>3
     DEF Answering, HostStays, TogglesStay, Same, Level
<1>4. CASE todo = <<>> /\ "CTR_TX" \in reg
  <2>1. ~reset_flag
    <3>1. asked \in Requests /\ moved \in Nat /\ moved <= asked.packets
          /\ stages = ReadLeft(asked.packets - moved)
      BY <1>1, Left DEF Answering
    <3>2. asked.packets - moved \in Nat
      BY <1>1, <3>1, Left
    <3>3. stages # <<>>
      BY <3>1, <3>2, LeftFacts
    <3> QED BY <3>3, HostIsHeard DEF CInv
  <2>2. /\ todo' = <<CtrTx, ToIn>> /\ Fresh'
        /\ UNCHANGED <<reg, usb_req, usb_force_nak, usb_fsm_state, chunk>>
    BY <1>1, <1>4, <2>1, PollGoes
  <2>3. RegStays
    BY <2>2, RegIsStill
  <2> QED BY <1>1, <1>3, <1>4, <2>2, <2>3 DEF Taken, RegStays, FlagsStay, Same
<1>5. CASE todo = <<CtrTx, ToIn>>
  <2>1. Now = "clr_tx_ctr" /\ Head(todo) = CtrTx /\ Tail(todo) = <<ToIn>>
    BY <1>5, Ops DEF Now
  <2>2. Store
    BY <2>1, Acts DEF Macros
  <2>3. /\ todo' = <<ToIn>> /\ Fresh' /\ Tx' = Tx /\ Rx' = Rx
        /\ "CTR_TX" \notin reg' /\ Same("CTR_RX") /\ TogglesStay
        /\ UNCHANGED <<usb_req, usb_force_nak, usb_fsm_state, chunk>>
    BY <1>1, <2>1, <2>2, FreshStore
  <2> QED BY <1>1, <1>3, <2>3 DEF Taken
<1>6. CASE todo = <<ToIn>> /\ "CTR_TX" \notin reg
  <2>1. Now = "in"
    BY <1>6, Ops DEF Now
  <2>2. In
    BY <2>1, Acts
  <2>3. UNCHANGED <<peripheral, loaded, usb_req>>
    BY <1>1, <2>2, InGoes
  <2>4. Fresh' /\ RegStays /\ reg' = reg
    BY <1>1, <2>3, RegIsStill DEF Fresh, peripheral
  <2>5. /\ asked.packets \in Nat /\ chunk \in Nat /\ chunk \in 1 .. asked.packets
        /\ asked \in Requests /\ usb_req = asked
    BY <1>1, Left DEF Answering, IInv, Types, DriverTypes
  <2>6. CASE chunk < asked.packets
    <3>1. usb_fsm_state = "DATA_IN"
      BY <1>1, <2>6 DEF Answering
    <3>2. /\ todo' = <<Put([of |-> usb_req, number |-> chunk + 1])>>
          /\ chunk' = chunk + 1 /\ usb_force_nak' = usb_force_nak
          /\ usb_fsm_state' = IF chunk + 1 < usb_req.packets
                              THEN "DATA_IN" ELSE "LAST_DATA_IN"
      BY <1>1, <2>2, <3>1, InGoes
    <3>3. /\ asked' = asked /\ stages' = stages /\ toggle' = toggle /\ moved' = moved
      BY <1>2 DEF HostStays
    <3>4. todo' = <<Put(Of(chunk)')>>
      BY <2>5, <3>2, <3>3 DEF Of
    <3>5. chunk' \in 1 .. asked'.packets /\ moved' + 1 = chunk'
      BY <1>1, <2>5, <2>6, <3>2, <3>3
    <3>6. Answering'
      BY <1>1, <2>3, <2>4, <2>5, <3>2, <3>3, <3>5
         DEF Answering, RegStays
    <3>7. Level' /\ Tx' = TX.nak /\ "CTR_TX" \notin reg'
      BY <1>1, <1>6, <2>4, <3>3 DEF Level, RegStays
    <3> QED BY <3>4, <3>5, <3>6, <3>7 DEF Posting
  <2>7. CASE chunk = asked.packets
    <3>1. usb_fsm_state = "LAST_DATA_IN"
      BY <1>1, <2>5, <2>7 DEF Answering
    <3>2. /\ todo' = <<Open>> /\ usb_fsm_state' = "STATUS_OUT"
          /\ usb_force_nak' = FALSE
      BY <1>1, <2>2, <3>1, InGoes
    <3>3. stages' = <<"out">>
      <4>1. asked.packets - moved = 0 /\ stages = ReadLeft(asked.packets - moved)
        BY <1>1, <2>5, <2>7 DEF Answering
      <4>2. ReadLeft(0) = <<"out">>
        BY LeftFacts
      <4> QED BY <1>2, <4>1, <4>2 DEF HostStays
    <3>4. /\ Silent' /\ "DTOG_RX" \in reg' /\ Tx' = TX.nak /\ Rx' = RX.nak
      BY <1>1, <1>6, <2>4 DEF Silent, RegStays, Answering
    <3> QED BY <2>4, <3>2, <3>3, <3>4 DEF Listening
  <2> QED BY <2>5, <2>6, <2>7
<1> QED BY <1>4, <1>5, <1>6 DEF Taken

\* The receiver is opened for the status stage, or after it.
LEMMA ListeningGoes ==
  ASSUME CInv, Driver, ~Load, Listening
  PROVE  Listening'
<1>1. /\ IInv /\ usb_fsm_state = "STATUS_OUT" /\ ~usb_force_nak
      /\ stages = <<"out">> /\ Silent /\ "DTOG_RX" \in reg /\ Tx = TX.nak /\ Fresh
  BY DEF CInv, Listening
<1>2. todo = <<Open>>
  <2>1. stages # <<>>
    BY <1>1
  <2> QED BY <1>1, <2>1, NothingToDo DEF Listening
<1>3. Now = "set_rx" /\ Head(todo) = Open /\ Tail(todo) = <<>>
  BY <1>2, Ops DEF Now
<1>4. Store
  BY <1>3, Acts DEF Macros
<1>5. /\ todo' = <<>> /\ Fresh' /\ Rx' = RX.valid /\ Tx' = Tx
      /\ FlagsStay /\ TogglesStay /\ UNCHANGED <<usb_fsm_state, usb_force_nak>>
  BY <1>1, <1>3, <1>4, FreshStore, Ops
<1>6. stages' = stages
  BY DriverStill DEF HostStays
<1> QED BY <1>1, <1>5, <1>6 DEF Listening, Silent, FlagsStay, TogglesStay, Same

LEMMA RepeatingGoes ==
  ASSUME CInv, Driver, ~Load, Repeating
  PROVE  Repeating'
<1>1. /\ IInv /\ usb_fsm_state = "IDLE"
      /\ stages = <<"out">> /\ Silent /\ "DTOG_RX" \notin reg /\ Tx = TX.nak
      /\ Fresh
  BY DEF CInv, Repeating
<1>2. todo = <<Open>>
  <2>1. stages # <<>>
    BY <1>1
  <2> QED BY <1>1, <2>1, NothingToDo DEF Repeating
<1>3. Now = "set_rx" /\ Head(todo) = Open /\ Tail(todo) = <<>>
  BY <1>2, Ops DEF Now
<1>4. Store
  BY <1>3, Acts DEF Macros
<1>5. /\ todo' = <<>> /\ Fresh' /\ Rx' = RX.valid /\ Tx' = Tx
      /\ FlagsStay /\ TogglesStay /\ UNCHANGED <<usb_fsm_state, usb_force_nak>>
  BY <1>1, <1>3, <1>4, FreshStore, Ops
<1>6. stages' = stages
  BY DriverStill DEF HostStays
<1> QED BY <1>1, <1>5, <1>6 DEF Repeating, Silent, FlagsStay, TogglesStay, Same

\* The packet of the status stage.
LEMMA HeardGoes ==
  ASSUME CInv, Driver, ~Load, Heard
  PROVE  Heard' \/ Over' \/ Repeating'
<1>1. /\ IInv /\ "CTR_RX" \in reg /\ "SETUP" \notin reg /\ "CTR_TX" \notin reg /\ ef
      /\ Rx = RX.nak /\ Tx = TX.nak /\ "DTOG_RX" \notin reg /\ ~usb_force_nak
      /\ stages \in {<<>>, <<"out">>} /\ Fresh
  BY DEF CInv, Heard
<1>2. stages' = stages
  BY DriverStill DEF HostStays
<1>3. ASSUME UNCHANGED <<reg, ef, usb_force_nak, loaded>>
      PROVE  /\ "CTR_RX" \in reg' /\ "SETUP" \notin reg' /\ "CTR_TX" \notin reg'
             /\ ef' /\ Rx' = RX.nak /\ Tx' = TX.nak /\ "DTOG_RX" \notin reg'
             /\ ~usb_force_nak' /\ stages' \in {<<>>, <<"out">>} /\ Fresh'
  BY <1>1, <1>2, <1>3 DEF Rx, Tx, Fresh
<1>4. CASE todo = <<>> /\ usb_fsm_state = "STATUS_OUT"
  <2>1. ~reset_flag
    BY <1>1, HostIsHeard DEF CInv
  <2>2. /\ UNCHANGED <<reg, ef, usb_force_nak, loaded, usb_fsm_state>>
        /\ todo' = <<Look>>
    BY <1>1, <1>4, <2>1, PollGoes
  <2> QED BY <1>3, <1>4, <2>2 DEF Heard
<1>5. CASE todo = <<Look>> /\ usb_fsm_state = "STATUS_OUT"
  <2>1. Now = "which"
    BY <1>5, Ops DEF Now
  <2>2. Out
    BY <1>1, <2>1, Acts DEF Setup
  <2>3. /\ todo' = <<Fetch>> /\ usb_fsm_state' = "IDLE"
        /\ UNCHANGED <<reg, ef, usb_force_nak, loaded>>
    BY <1>5, <2>2 DEF Out, Fetch, peripheral
  <2> QED BY <1>3, <2>3 DEF Heard
<1>6. CASE todo = <<Fetch>> /\ usb_fsm_state = "IDLE"
  <2>1. Now = "read"
    BY <1>6, Ops DEF Now
  <2>2. Read
    BY <2>1, Acts
  <2>3. RX.nak # RX.valid
    BY Statuses
  <2>4. /\ todo' = <<Ctr, Open>> /\ usb_fsm_state' = usb_fsm_state
    BY <1>1, <1>6, <2>2, <2>3, ReadGoes DEF Rx
  <2>5. UNCHANGED <<reg, ef, usb_force_nak, loaded>>
    BY <2>2 DEF Read, peripheral
  <2> QED BY <1>3, <1>6, <2>4, <2>5 DEF Heard
<1>7. CASE todo = <<Ctr, Open>> /\ usb_fsm_state = "IDLE"
  <2>1. Now = "clr_rx_ctr" /\ Head(todo) = Ctr /\ Tail(todo) = <<Open>>
    BY <1>7, Ops DEF Now
  <2>2. Store
    BY <2>1, Acts DEF Macros
  <2>3. /\ todo' = <<Open>> /\ Fresh' /\ Rx' = Rx /\ Tx' = Tx
        /\ "CTR_RX" \notin reg' /\ Same("CTR_TX") /\ TogglesStay
        /\ UNCHANGED <<ef, usb_fsm_state, usb_force_nak>>
    BY <1>1, <2>1, <2>2, FreshStore
  <2>4. Silent' /\ "DTOG_RX" \notin reg'
    BY <1>1, <2>3 DEF Silent, TogglesStay, Same
  <2>5. CASE stages = <<>>
    BY <1>2, <2>3, <2>4, <2>5 DEF Over, Late
  <2>6. CASE stages = <<"out">>
    BY <1>1, <1>2, <1>7, <2>3, <2>4, <2>6 DEF Repeating
  <2> QED BY <1>1, <2>5, <2>6
<1> QED BY <1>4, <1>5, <1>6, <1>7 DEF Heard

-----------------------------------------------------------------------------
\* A request that writes.
LEMMA StoringStays ==
  ASSUME Storing, Driver, Fresh', Tx' = Tx, Same("CTR_TX"), TogglesStay,
         UNCHANGED <<usb_req, usb_force_nak, usb_fsm_state, chunk>>
  PROVE  /\ Storing' /\ Same("DTOG_RX")
         /\ UNCHANGED <<asked, stages, toggle, moved>>
  BY DriverStill DEF Storing, HostStays, TogglesStay, Same

LEMMA OpeningGoes ==
  ASSUME CInv, Driver, ~Load, Opening
  PROVE  Receiving'
<1>1. IInv /\ Storing /\ "CTR_RX" \notin reg /\ Rx = RX.nak /\ Fresh
  BY DEF CInv, Opening, Storing
<1>2. ASSUME Now = "set_rx", Head(todo) = Open
      PROVE  /\ todo' = Tail(todo) /\ Rx' = RX.valid /\ "CTR_RX" \notin reg'
             /\ Storing' /\ Same("DTOG_RX")
             /\ UNCHANGED <<asked, stages, toggle, moved, buf, chunk>>
  <2>1. Store
    BY <1>2, Acts DEF Macros
  <2>2. /\ todo' = Tail(todo) /\ Fresh' /\ Rx' = RX.valid /\ Tx' = Tx
        /\ FlagsStay /\ TogglesStay
        /\ UNCHANGED <<usb_fsm_state, usb_force_nak, usb_req, buf, chunk>>
    BY <1>1, <1>2, <2>1, FreshStore, Ops
  <2>3. Storing' /\ Same("DTOG_RX") /\ UNCHANGED <<asked, stages, toggle, moved>>
    BY <1>1, <2>2, StoringStays DEF FlagsStay
  <2> QED BY <1>1, <2>2, <2>3 DEF FlagsStay, Same
<1>3. CASE todo = <<Open>> /\ chunk = 0 /\ Synced(0)
  <2>1. Now = "set_rx" /\ Head(todo) = Open /\ Tail(todo) = <<>>
    BY <1>3, Ops DEF Now
  <2> QED BY <1>2, <1>3, <2>1 DEF Receiving, Synced, Same
<1>4. CASE todo = <<Open, ToData>> /\ buf[1] = Of(chunk + 1) /\ Synced(chunk + 1)
  <2>1. Now = "set_rx" /\ Head(todo) = Open /\ Tail(todo) = <<ToData>>
    BY <1>4, Ops DEF Now
  <2> QED BY <1>2, <1>4, <2>1 DEF Receiving, Synced, Same, Of
<1> QED BY <1>3, <1>4 DEF Opening

\* What is left of a data stage is not nothing.
LEMMA StagesLeft ==
  ASSUME IInv, asked \in Requests, moved <= asked.packets,
         \/ stages = WriteLeft(asked.packets - moved)
         \/ stages = ReadLeft(asked.packets - moved)
  PROVE  stages # <<>>
<1>1. asked.packets \in Nat /\ moved \in Nat
  BY Left
<1>2. asked.packets - moved \in Nat
  BY <1>1
<1> QED BY <1>2, LeftFacts

\* The data of a packet is used; it was the last one, or it was not.
LEMMA DataPlace ==
  ASSUME CInv, Driver, Storing, todo = <<ToData>>, Rx' = Rx, reg' = reg
  PROVE  /\ asked.packets \in Nat /\ chunk \in Nat /\ moved \in Nat
         /\ UNCHANGED <<pma_rx, buf, asked, stages, toggle, moved>>
         /\ chunk' = chunk + 1
         /\ \/ /\ chunk + 1 < asked.packets /\ todo' = <<>> /\ Storing'
            \/ /\ chunk + 1 = asked.packets /\ todo' = <<Put(Empty)>>
               /\ usb_fsm_state' = "STATUS_IN" /\ usb_req' = asked
               /\ Fresh' /\ Tx' = TX.nak /\ "CTR_TX" \notin reg'
               /\ "DTOG_TX" \in reg'
<1>1. IInv
  BY DEF CInv
<1>2. Now = "data"
  BY Ops DEF Now
<1>3. Data
  BY <1>2, Acts
<1>4. /\ chunk' = chunk + 1
      /\ UNCHANGED <<peripheral, loaded, usb_force_nak, usb_req, buf, others>>
      /\ usb_fsm_state \in {"DATA_OUT", "LAST_DATA_OUT"}
      /\ usb_fsm_state = "LAST_DATA_OUT" =>
           todo' = <<Put(Empty)>> /\ usb_fsm_state' = "STATUS_IN"
      /\ usb_fsm_state = "DATA_OUT" =>
           /\ todo' = <<>>
           /\ usb_fsm_state' = DataOutState(usb_req.packets - (chunk + 1))
  BY <1>1, <1>3, DataGoes
<1>5. /\ asked \in Requests /\ asked.packets \in Nat /\ chunk \in Nat
      /\ moved \in Nat /\ usb_req = asked /\ asked.kind = "write"
      /\ ~usb_force_nak /\ "CTR_TX" \notin reg /\ Tx = TX.nak
      /\ "DTOG_TX" \in reg /\ moved <= asked.packets
      /\ stages = WriteLeft(asked.packets - moved)
  BY <1>1, Left DEF Storing, IInv, Types, DriverTypes
<1>6. UNCHANGED <<pma_rx, asked, stages, toggle, moved, loaded>>
  BY <1>4 DEF peripheral, others, host
<1>7. Fresh' /\ Tx' = TX.nak
  <2>1. loaded = {}
    BY <1>1, <1>2, NotLoaded DEF Macros
  <2> QED BY <1>5, <1>6, <2>1 DEF Fresh, Tx
<1>8. CASE usb_fsm_state = "DATA_OUT"
  <2>1. chunk + 1 < asked.packets
    BY <1>1, <1>5, <1>8 DEF IInv, Counts
  <2>2. usb_fsm_state' = DataOutState(asked'.packets - chunk')
    BY <1>4, <1>5, <1>6, <1>8
  <2>3. Storing'
    BY <1>4, <1>5, <1>6, <1>7, <2>1, <2>2 DEF Storing
  <2> QED BY <1>4, <1>5, <1>6, <1>8, <2>1, <2>3
<1>9. CASE usb_fsm_state = "LAST_DATA_OUT"
  <2>1. chunk + 1 = asked.packets
    BY <1>1, <1>5, <1>9 DEF IInv, Counts
  <2> QED BY <1>4, <1>5, <1>6, <1>7, <1>9, <2>1
<1> QED BY <1>4, <1>8, <1>9

LEMMA ReceivingGoes ==
  ASSUME CInv, Driver, Receiving
  PROVE  Receiving' \/ Replying'
<1>1. IInv /\ Storing /\ "CTR_RX" \notin reg /\ Rx = RX.valid
  BY DEF CInv, Receiving
<1>2. /\ asked \in Requests /\ moved <= asked.packets /\ asked.kind = "write"
      /\ stages = WriteLeft(asked.packets - moved) /\ "CTR_TX" \notin reg
  BY <1>1 DEF Storing
<1>3. todo = <<ToData>> /\ buf[1] = Of(chunk + 1) /\ Synced(chunk + 1)
  BY <1>1, <1>2, StagesLeft, NothingToDo DEF Receiving, Silent
<1>4. reg' = reg /\ Rx' = Rx
  <2>1. Now = "data"
    BY <1>3, Ops DEF Now
  <2>2. Data
    BY <2>1, Acts
  <2> QED BY <2>2 DEF Data, peripheral, Rx
<1>5. /\ asked.packets \in Nat /\ chunk \in Nat /\ moved \in Nat
      /\ UNCHANGED <<pma_rx, buf, asked, stages, toggle, moved>>
      /\ chunk' = chunk + 1
  BY <1>1, <1>3, <1>4, DataPlace
<1>6. CASE chunk + 1 < asked.packets /\ todo' = <<>> /\ Storing'
  BY <1>1, <1>3, <1>4, <1>5, <1>6 DEF Receiving, Synced
<1>7. CASE /\ chunk + 1 = asked.packets /\ todo' = <<Put(Empty)>>
           /\ usb_fsm_state' = "STATUS_IN" /\ usb_req' = asked
           /\ Fresh' /\ Tx' = TX.nak /\ "CTR_TX" \notin reg' /\ "DTOG_TX" \in reg'
  <2>1. Synced(asked.packets)'
    BY <1>3, <1>4, <1>5, <1>7 DEF Synced
  <2>2. Waits'
    BY <1>1, <1>2, <1>4, <1>5, <2>1 DEF Waits
  <2>3. Serving'
    BY <1>1, <1>4, <1>5, <1>7 DEF Serving, Silent
  <2> QED BY <1>7, <2>2, <2>3 DEF Replying
<1> QED BY <1>1, <1>3, <1>4, <1>6, <1>7, DataPlace

\* A packet of data is copied.
LEMMA ArrivedGoes ==
  ASSUME CInv, Driver, ~Load, Arrived
  PROVE  Arrived' \/ Opening'
<1>1. /\ IInv /\ Storing /\ "CTR_RX" \in reg /\ "SETUP" \notin reg /\ Rx = RX.nak
      /\ Fresh /\ RX.nak # RX.valid
  BY Statuses DEF CInv, Arrived, Storing
<1>2. ASSUME Fresh', UNCHANGED <<reg, usb_req, usb_force_nak, usb_fsm_state, chunk>>
      PROVE  /\ Storing' /\ "CTR_RX" \in reg' /\ "SETUP" \notin reg' /\ Rx' = RX.nak
             /\ UNCHANGED <<asked, stages, toggle, moved>>
  <2>1. RegStays
    BY <1>2, RegIsStill
  <2> QED BY <1>1, <1>2, <2>1, StoringStays DEF RegStays, FlagsStay, Same
<1>3. ASSUME UNCHANGED <<reg, asked, toggle, moved, chunk>>
      PROVE  /\ Synced(chunk + 1)' <=> Synced(chunk + 1)
             /\ Of(chunk + 1)' = Of(chunk + 1)
  BY <1>3 DEF Synced, Of
<1>4. CASE todo = <<>> /\ pma_rx = Of(chunk + 1) /\ Synced(chunk + 1)
  <2>1. ~reset_flag
    <3>1. stages # <<>>
      BY <1>1, StagesLeft DEF Storing
    <3> QED BY <3>1, HostIsHeard DEF CInv
  <2>2. /\ todo' = <<Look>> /\ Fresh'
        /\ UNCHANGED <<reg, pma_rx, usb_req, usb_force_nak, usb_fsm_state, chunk>>
    BY <1>1, <1>4, <2>1, PollGoes
  <2>3. Storing' /\ "CTR_RX" \in reg' /\ "SETUP" \notin reg' /\ Rx' = RX.nak
        /\ UNCHANGED <<asked, stages, toggle, moved>>
    BY <1>2, <2>2
  <2> QED BY <1>3, <1>4, <2>2, <2>3 DEF Arrived
<1>5. CASE todo = <<Look>> /\ pma_rx = Of(chunk + 1) /\ Synced(chunk + 1)
  <2>1. Now = "which"
    BY <1>5, Ops DEF Now
  <2>2. Out
    BY <1>1, <2>1, Acts DEF Setup
  <2>3. usb_fsm_state \in {"DATA_OUT", "LAST_DATA_OUT"}
    BY <1>1 DEF Storing, DataOutState
  <2>4. /\ todo' = <<Fetch, ToData>>
        /\ UNCHANGED <<reg, pma_rx, loaded, usb_req, usb_force_nak,
                       usb_fsm_state, chunk>>
    BY <2>2, <2>3 DEF Out, peripheral, Fetch, ToData
  <2>5. Fresh'
    BY <1>1, <2>4 DEF Fresh
  <2>6. Storing' /\ "CTR_RX" \in reg' /\ "SETUP" \notin reg' /\ Rx' = RX.nak
        /\ UNCHANGED <<asked, stages, toggle, moved>>
    BY <1>2, <2>4, <2>5
  <2> QED BY <1>3, <1>5, <2>4, <2>6 DEF Arrived
<1>6. CASE todo = <<Fetch, ToData>> /\ pma_rx = Of(chunk + 1) /\ Synced(chunk + 1)
  <2>1. Now = "read" /\ todo # <<Fetch>> /\ todo # <<Fetch, ToSetup>>
    <3>1. ToData # ToSetup
      BY Ops
    <3> QED BY <1>6, <3>1, Ops DEF Now
  <2>2. Read
    BY <2>1, Acts
  <2>3. UNCHANGED <<reg, pma_rx, loaded, usb_req, usb_force_nak, chunk>>
    BY <2>2 DEF Read, peripheral
  <2>4. /\ todo' = <<Half1, Half2, Ctr, Open, ToData>>
        /\ usb_fsm_state' = usb_fsm_state
    <3>1. ~usb_force_nak
      BY <1>1 DEF Storing
    <3> QED BY <1>1, <1>6, <2>1, <2>2, <3>1, ReadGoes DEF Rx
  <2>5. Fresh'
    BY <1>1, <2>3 DEF Fresh
  <2>6. Storing' /\ "CTR_RX" \in reg' /\ "SETUP" \notin reg' /\ Rx' = RX.nak
        /\ UNCHANGED <<asked, stages, toggle, moved>>
    BY <1>2, <2>3, <2>4, <2>5
  <2> QED BY <1>3, <1>6, <2>3, <2>4, <2>6 DEF Arrived
<1>7. CASE /\ todo = <<Half1, Half2, Ctr, Open, ToData>>
           /\ pma_rx = Of(chunk + 1) /\ Synced(chunk + 1)
  <2>1. /\ Now = "copy" /\ Head(todo) = Half1
        /\ Tail(todo) = <<Half2, Ctr, Open, ToData>>
    BY <1>7, Ops DEF Now
  <2>2. /\ UNCHANGED <<reg, pma_rx, usb_req, usb_force_nak, usb_fsm_state, chunk>>
        /\ Fresh' /\ todo' = <<Half2, Ctr, Open, ToData>> /\ buf'[1] = pma_rx
    BY <1>1, <2>1, CopyGoes
  <2>3. Storing' /\ "CTR_RX" \in reg' /\ "SETUP" \notin reg' /\ Rx' = RX.nak
        /\ UNCHANGED <<asked, stages, toggle, moved>>
    BY <1>2, <2>2
  <2> QED BY <1>3, <1>7, <2>2, <2>3 DEF Arrived
<1>8. CASE /\ todo = <<Half2, Ctr, Open, ToData>>
           /\ pma_rx = Of(chunk + 1) /\ Synced(chunk + 1) /\ buf[1] = pma_rx
  <2>1. /\ Now = "copy" /\ Head(todo) = Half2
        /\ Tail(todo) = <<Ctr, Open, ToData>>
    BY <1>8, Ops DEF Now
  <2>2. /\ UNCHANGED <<reg, pma_rx, usb_req, usb_force_nak, usb_fsm_state, chunk>>
        /\ Fresh' /\ todo' = <<Ctr, Open, ToData>> /\ buf'[1] = buf[1]
    BY <1>1, <2>1, CopyGoes
  <2>3. Storing' /\ "CTR_RX" \in reg' /\ "SETUP" \notin reg' /\ Rx' = RX.nak
        /\ UNCHANGED <<asked, stages, toggle, moved>>
    BY <1>2, <2>2
  <2> QED BY <1>3, <1>8, <2>2, <2>3 DEF Arrived
<1>9. CASE /\ todo = <<Ctr, Open, ToData>>
           /\ pma_rx = Of(chunk + 1) /\ Synced(chunk + 1) /\ buf[1] = pma_rx
  <2>1. Now = "clr_rx_ctr" /\ Tail(todo) = <<Open, ToData>>
    BY <1>9, Ops DEF Now
  <2>2. Store
    BY <2>1, Acts DEF Macros
  <2>3. /\ todo' = <<Open, ToData>> /\ Fresh' /\ Rx' = Rx /\ Tx' = Tx
        /\ "CTR_RX" \notin reg' /\ Same("CTR_TX") /\ TogglesStay
        /\ UNCHANGED <<usb_req, usb_force_nak, usb_fsm_state, chunk, buf>>
    BY <1>1, <2>1, <2>2, FreshStore
  <2>4. /\ Storing' /\ Same("DTOG_RX") /\ UNCHANGED <<asked, stages, toggle, moved>>
    BY <1>1, <2>3, StoringStays
  <2> QED BY <1>1, <1>9, <2>3, <2>4 DEF Opening, Synced, Same, Of
<1>10. CASE /\ todo = <<ToData>> /\ buf[1] = Of(chunk + 1)
            /\ pma_rx = Of(chunk + 2) /\ Synced(chunk + 2)
            /\ chunk + 1 < asked.packets
  <2>1. reg' = reg /\ Rx' = Rx
    <3>1. Now = "data"
      BY <1>10, Ops DEF Now
    <3>2. Data
      BY <3>1, Acts
    <3> QED BY <3>2 DEF Data, peripheral, Rx
  <2>2. /\ asked.packets \in Nat /\ chunk \in Nat /\ moved \in Nat
        /\ UNCHANGED <<pma_rx, asked, toggle, moved>> /\ chunk' = chunk + 1
    BY <1>1, <1>10, <2>1, DataPlace
  <2>3. todo' = <<>> /\ Storing'
    BY <1>1, <1>10, <2>1, <2>2, DataPlace
  <2>4. chunk' + 1 = chunk + 2
    BY <2>2
  <2>5. pma_rx' = Of(chunk + 1)'
    BY <1>10, <2>2, <2>4 DEF Of
  <2>6. Synced(chunk + 1)'
    BY <1>10, <2>1, <2>2, <2>4 DEF Synced
  <2> QED BY <1>1, <2>1, <2>3, <2>5, <2>6 DEF Arrived
<1> QED BY <1>4, <1>5, <1>6, <1>7, <1>8, <1>9, <1>10 DEF Arrived

-----------------------------------------------------------------------------
\* The answer.  What the host waits for stays while the receiver is left as it
\* is, or was not what it waited for.
LEMMA WaitsStay ==
  ASSUME Waits, Driver, Same("DTOG_RX") \/ asked.kind # "write",
         Rx' = Rx \/ asked.kind # "write"
  PROVE  Waits' /\ UNCHANGED <<asked, stages, toggle, moved>>
<1>1. UNCHANGED <<asked, stages, toggle, moved>>
  BY DriverStill DEF HostStays
<1>2. CASE asked.kind = "write"
  <2>1. Synced(asked.packets)'
    BY <1>1, <1>2 DEF Waits, Synced, Same
  <2> QED BY <1>1, <1>2, <2>1 DEF Waits
<1>3. CASE asked.kind # "write"
  BY <1>1, <1>3 DEF Waits
<1> QED BY <1>1, <1>2, <1>3

\* A macro of the answer that sets a status or resets a toggle.
LEMMA ServingStays ==
  ASSUME CInv, Serving, Store, Now \notin {"clr_rx_ctr", "clr_tx_ctr"},
         Now = "clr_tx_dtog" => asked.kind = "clear_halt_in",
         Now \in {"clr_tx_dtog", "clr_rx_dtog", "set_rx", "set_tx"}
  PROVE  Serving'
<1>1. IInv /\ Fresh /\ Silent
  BY DEF CInv, Serving
<1>2. /\ Fresh' /\ FlagsStay /\ UNCHANGED <<usb_fsm_state, usb_req>>
      /\ Now # "clr_tx_dtog" => Same("DTOG_TX")
  BY <1>1, FreshStore DEF TogglesStay
<1>3. UNCHANGED asked
  BY DriverStill DEF Driver, HostStays
<1> QED BY <1>1, <1>2, <1>3 DEF Serving, Silent, FlagsStay, Same

LEMMA HaltsGoes ==
  ASSUME CInv, Driver, ~Load, Halts
  PROVE  Halts' \/ Replying'
<1>1. IInv /\ Serving /\ asked.kind = "set_halt" /\ Waits /\ Fresh
  BY DEF CInv, Halts, Serving
<1>2. Waits' /\ UNCHANGED <<asked, stages, toggle, moved>>
  BY <1>1, WaitsStay
<1>3. CASE todo = <<StallTx, StallRx, Put(Empty)>> /\ stages = <<"in">>
  <2>1. /\ Now = "set_tx" /\ Head(todo) = StallTx
        /\ Tail(todo) = <<StallRx, Put(Empty)>>
    BY <1>3, Ops DEF Now
  <2>2. Store
    BY <2>1, Acts DEF Macros
  <2>3. todo' = <<StallRx, Put(Empty)>> /\ Tx' = TX.stall
    BY <1>1, <2>1, <2>2, FreshStore, Ops
  <2>4. Serving'
    BY <1>1, <2>1, <2>2, ServingStays
  <2> QED BY <1>1, <1>2, <2>3, <2>4 DEF Halts
<1>4. CASE todo = <<StallRx, Put(Empty)>> /\ Tx = TX.stall
  <2>1. /\ Now = "set_rx" /\ Head(todo) = StallRx /\ Tail(todo) = <<Put(Empty)>>
    BY <1>4, Ops DEF Now
  <2>2. Store
    BY <2>1, Acts DEF Macros
  <2>3. todo' = <<Put(Empty)>> /\ Tx' = TX.stall
    BY <1>1, <1>4, <2>1, <2>2, FreshStore
  <2>4. Serving'
    BY <1>1, <2>1, <2>2, ServingStays
  <2> QED BY <1>1, <1>2, <2>3, <2>4 DEF Replying
<1> QED BY <1>3, <1>4 DEF Halts

LEMMA UnhaltsGoes ==
  ASSUME CInv, Driver, ~Load, Unhalts
  PROVE  Unhalts' \/ Replying'
<1>1. /\ IInv /\ Serving /\ Tx = TX.nak /\ Waits /\ Fresh /\ asked.kind # "write"
  BY DEF CInv, Unhalts, Serving
<1>2. Waits' /\ UNCHANGED <<asked, stages, toggle, moved>>
  BY <1>1, WaitsStay
<1>3. CASE asked.kind = "clear_halt" /\ todo \in Unhalting
  <2>1. CASE /\ todo = <<NakTx, ClrRx, Open, Put(Empty)>>
             /\ Runs("set_tx", NakTx, <<ClrRx, Open, Put(Empty)>>)
    <3>1. /\ Now = "set_tx" /\ Head(todo) = NakTx
          /\ Tail(todo) = <<ClrRx, Open, Put(Empty)>>
      BY <2>1 DEF Runs
    <3>2. Store
      BY <3>1, Acts DEF Macros
    <3>3. todo' = <<ClrRx, Open, Put(Empty)>> /\ Tx' = TX.nak
      BY <1>1, <3>1, <3>2, FreshStore, Ops
    <3>4. Serving'
      BY <1>1, <3>1, <3>2, ServingStays
    <3> QED BY <1>1, <1>2, <1>3, <3>3, <3>4 DEF Unhalts, Unhalting
  <2>2. CASE /\ todo = <<ClrRx, Open, Put(Empty)>>
             /\ Runs("clr_rx_dtog", ClrRx, <<Open, Put(Empty)>>)
    <3>1. /\ Now = "clr_rx_dtog" /\ Tail(todo) = <<Open, Put(Empty)>>
      BY <2>2 DEF Runs
    <3>2. Store
      BY <3>1, Acts DEF Macros
    <3>3. todo' = <<Open, Put(Empty)>> /\ Tx' = TX.nak
      BY <1>1, <3>1, <3>2, FreshStore
    <3>4. Serving'
      BY <1>1, <3>1, <3>2, ServingStays
    <3> QED BY <1>1, <1>2, <1>3, <3>3, <3>4 DEF Unhalts, Unhalting
  <2>3. CASE /\ todo = <<Open, Put(Empty)>>
             /\ Runs("set_rx", Open, <<Put(Empty)>>)
    <3>1. /\ Now = "set_rx" /\ Tail(todo) = <<Put(Empty)>>
      BY <2>3 DEF Runs
    <3>2. Store
      BY <3>1, Acts DEF Macros
    <3>3. todo' = <<Put(Empty)>> /\ Tx' = TX.nak
      BY <1>1, <3>1, <3>2, FreshStore
    <3>4. Serving'
      BY <1>1, <3>1, <3>2, ServingStays
    <3> QED BY <1>1, <1>2, <3>3, <3>4 DEF Replying
  <2> QED BY <1>3, <2>1, <2>2, <2>3, UnhaltingRuns
<1>4. CASE asked.kind = "clear_halt_in" /\ todo \in UnhaltingIn
  <2>1. CASE /\ todo = <<NakTx, ClrTx, Put(Empty)>>
             /\ Runs("set_tx", NakTx, <<ClrTx, Put(Empty)>>)
    <3>1. /\ Now = "set_tx" /\ Head(todo) = NakTx
          /\ Tail(todo) = <<ClrTx, Put(Empty)>>
      BY <2>1 DEF Runs
    <3>2. Store
      BY <3>1, Acts DEF Macros
    <3>3. todo' = <<ClrTx, Put(Empty)>> /\ Tx' = TX.nak
      BY <1>1, <3>1, <3>2, FreshStore, Ops
    <3>4. Serving'
      BY <1>1, <3>1, <3>2, ServingStays
    <3> QED BY <1>1, <1>2, <1>4, <3>3, <3>4 DEF Unhalts, UnhaltingIn
  <2>2. CASE /\ todo = <<ClrTx, Put(Empty)>>
             /\ Runs("clr_tx_dtog", ClrTx, <<Put(Empty)>>)
    <3>1. /\ Now = "clr_tx_dtog" /\ Tail(todo) = <<Put(Empty)>>
      BY <2>2 DEF Runs
    <3>2. Store
      BY <3>1, Acts DEF Macros
    <3>3. todo' = <<Put(Empty)>> /\ Tx' = TX.nak
      BY <1>1, <3>1, <3>2, FreshStore
    <3>4. Serving'
      BY <1>1, <1>4, <3>1, <3>2, ServingStays
    <3> QED BY <1>1, <1>2, <3>3, <3>4 DEF Replying
  <2> QED BY <1>4, <2>1, <2>2, UnhaltingInRuns
<1> QED BY <1>3, <1>4 DEF Unhalts

LEMMA ReplyingGoes ==
  ASSUME CInv, Driver, ~Load, Replying
  PROVE  Replying' \/ Replied'
<1>1. /\ IInv /\ Serving /\ Waits /\ Fresh /\ Silent
      /\ Tx = TX.nak \/ (asked.kind = "set_halt" /\ Tx = TX.stall)
  BY DEF CInv, Replying, Serving
<1>2. CASE todo = <<Put(Empty)>>
  <2>1. Tx # TX.valid
    BY <1>1, Statuses
  <2>2. /\ UNCHANGED <<reg, usb_req, usb_fsm_state>> /\ Fresh' /\ todo' = <<Send>>
    BY <1>1, <1>2, <2>1, WriteGoes
  <2>3. RegStays
    BY <2>2, RegIsStill
  <2>4. Waits' /\ asked' = asked
    BY <1>1, <2>3, WaitsStay DEF RegStays, TogglesStay
  <2>5. Serving'
    BY <1>1, <2>2, <2>4 DEF Serving, Silent
  <2> QED BY <1>1, <2>2, <2>3, <2>4, <2>5 DEF Replying, RegStays
<1>3. CASE todo = <<Send>>
  <2>1. Now = "set_tx" /\ Head(todo) = Send /\ Tail(todo) = <<>>
    BY <1>3, Ops DEF Now
  <2>2. Store
    BY <2>1, Acts DEF Macros
  <2>3. todo' = <<>> /\ Tx' = TX.valid /\ Rx' = Rx /\ TogglesStay
    BY <1>1, <2>1, <2>2, FreshStore, Ops
  <2>4. Serving'
    BY <1>1, <2>1, <2>2, ServingStays
  <2>5. Waits'
    BY <1>1, <2>3, WaitsStay DEF TogglesStay
  <2> QED BY <2>3, <2>4, <2>5 DEF Replied
<1> QED BY <1>2, <1>3 DEF Replying

\* While the answer waits to be read, nothing is to do.
LEMMA RepliedWaits ==
  ASSUME CInv, Driver, Replied
  PROVE  FALSE
<1>1. IInv /\ Waits /\ Silent /\ todo = <<>>
  BY DEF CInv, Replied, Serving
<1>2. stages # <<>>
  <2>1. CASE asked.kind = "write"
    BY <1>1, <2>1, StagesLeft DEF Waits
  <2>2. CASE asked.kind # "write"
    <3>1. <<"in">> # <<>> /\ <<"failed">> # <<>>
      OBVIOUS
    <3> QED BY <1>1, <2>2, <3>1 DEF Waits
  <2> QED BY <2>1, <2>2
<1> QED BY <1>1, <1>2, NothingToDo

LEMMA PostedWaits ==
  ASSUME CInv, Driver, Posted
  PROVE  FALSE
<1>1. /\ IInv /\ Silent /\ todo = <<>> /\ asked \in Requests
      /\ moved <= asked.packets /\ stages = ReadLeft(asked.packets - moved)
  BY DEF CInv, Posted, Answering, Silent
<1>2. stages # <<>>
  BY <1>1, StagesLeft
<1> QED BY <1>1, <1>2, NothingToDo

LEMMA ReplyTakenGoes ==
  ASSUME CInv, Driver, ~Load, ReplyTaken
  PROVE  ReplyTaken' \/ Over' \/ Stuck'
<1>1. /\ IInv /\ "CTR_TX" \in reg /\ "CTR_RX" \notin reg /\ ef /\ Tx = TX.nak
      /\ usb_fsm_state = "STATUS_IN" /\ Fresh
      /\ stages = <<>> \/ (asked.kind = "clear_halt_in" /\ stages = <<"in">>)
  BY DEF CInv, ReplyTaken
<1>2. UNCHANGED <<asked, stages>>
  BY DriverStill DEF HostStays
<1>3. CASE todo = <<>>
  <2>1. ~reset_flag
    BY <1>1, HostIsHeard DEF CInv
  <2>2. /\ todo' = <<CtrTx, ToIn>> /\ Fresh' /\ UNCHANGED <<reg, ef, usb_fsm_state>>
    BY <1>1, <1>3, <2>1, PollGoes
  <2> QED BY <1>1, <1>2, <2>2 DEF ReplyTaken, Tx
<1>4. CASE todo = <<CtrTx, ToIn>>
  <2>1. Now = "clr_tx_ctr" /\ Tail(todo) = <<ToIn>>
    BY <1>4, Ops DEF Now
  <2>2. Store
    BY <2>1, Acts DEF Macros
  <2>3. /\ todo' = <<ToIn>> /\ Fresh' /\ Tx' = Tx /\ "CTR_TX" \notin reg'
        /\ Same("CTR_RX") /\ UNCHANGED <<ef, usb_fsm_state>>
    BY <1>1, <2>1, <2>2, FreshStore
  <2>4. Silent'
    BY <1>1, <2>3 DEF Silent, Same
  <2>5. CASE stages = <<>>
    BY <1>1, <1>2, <2>3, <2>4, <2>5 DEF Over, Late
  <2>6. CASE asked.kind = "clear_halt_in" /\ stages = <<"in">>
    BY <1>1, <1>2, <2>3, <2>4, <2>6 DEF Stuck
  <2> QED BY <1>1, <2>5, <2>6
<1> QED BY <1>3, <1>4 DEF ReplyTaken

LEMMA StuckGoes ==
  ASSUME CInv, Driver, Stuck
  PROVE  Stuck'
<1>1. /\ IInv /\ asked.kind = "clear_halt_in" /\ stages = <<"in">> /\ Silent
      /\ Tx = TX.nak /\ Fresh /\ stages # <<>>
  BY DEF CInv, Stuck
<1>2. todo = <<ToIn>> /\ usb_fsm_state = "STATUS_IN"
  BY <1>1, NothingToDo DEF Stuck
<1>3. Now = "in"
  BY <1>2, Ops DEF Now
<1>4. In
  BY <1>3, Acts
<1>5. /\ todo' = <<>> /\ usb_fsm_state' = "IDLE"
      /\ UNCHANGED <<peripheral, loaded, others>>
  BY <1>1, <1>2, <1>4, InGoes
<1> QED BY <1>1, <1>5 DEF Stuck, Silent, Fresh, Tx, peripheral, others, host

LEMMA RefusingGoes ==
  ASSUME CInv, Driver, ~Load, Refusing
  PROVE  Refusing'
<1>1. /\ IInv /\ asked.kind = "unknown" /\ usb_fsm_state = "IDLE" /\ Silent
      /\ Fresh /\ stages \in {<<"in">>, <<"failed">>} /\ stages # <<>>
  BY DEF CInv, Refusing
<1>2. UNCHANGED <<asked, stages>>
  BY DriverStill DEF HostStays
<1>3. CASE todo = <<StallTx, StallRx>> /\ Tx = TX.nak /\ stages = <<"in">>
  <2>1. Now = "set_tx" /\ Head(todo) = StallTx /\ Tail(todo) = <<StallRx>>
    BY <1>3, Ops DEF Now
  <2>2. Store
    BY <2>1, Acts DEF Macros
  <2>3. /\ todo' = <<StallRx>> /\ Fresh' /\ Tx' = TX.stall
        /\ FlagsStay /\ UNCHANGED usb_fsm_state
    BY <1>1, <2>1, <2>2, FreshStore, Ops
  <2> QED BY <1>1, <1>2, <2>3 DEF Refusing, Silent, FlagsStay, Same
<1>4. CASE todo = <<StallRx>> /\ Tx = TX.stall
  <2>1. Now = "set_rx" /\ Tail(todo) = <<>>
    BY <1>4, Ops DEF Now
  <2>2. Store
    BY <2>1, Acts DEF Macros
  <2>3. /\ todo' = <<>> /\ Fresh' /\ Tx' = Tx
        /\ FlagsStay /\ UNCHANGED usb_fsm_state
    BY <1>1, <2>1, <2>2, FreshStore
  <2> QED BY <1>1, <1>2, <1>4, <2>3 DEF Refusing, Silent, FlagsStay, Same
<1>5. todo # <<>>
  BY <1>1, NothingToDo
<1> QED BY <1>3, <1>4, <1>5 DEF Refusing

-----------------------------------------------------------------------------
LEMMA PlaceInit == Init => Over
<1> SUFFICES ASSUME Init PROVE Over
  OBVIOUS
<1>1. Silent
  BY DEF Init, Ready, Silent, CONTROL, RX, TX, Stat
<1> QED BY <1>1 DEF Init, Over, Late, Fresh

LEMMA DriverPlace ==
  ASSUME CInv, Somewhere, Driver
  PROVE  Somewhere'
<1>1. CASE Load
  BY <1>1, LoadStays DEF CInv
<1>2. CASE ~Load
  <2>1. CASE Over \/ Asked \/ Fetched \/ Known
    BY <1>2, <2>1, OverGoes, AskedGoes, FetchedGoes, KnownGoes DEF Somewhere
  <2>2. CASE Posting \/ Posted \/ Taken \/ Listening \/ Heard \/ Repeating
    BY <1>2, <2>2, PostingGoes, PostedWaits, TakenGoes, ListeningGoes, HeardGoes,
       RepeatingGoes DEF Somewhere
  <2>3. CASE Opening \/ Receiving \/ Arrived
    BY <1>2, <2>3, OpeningGoes, ReceivingGoes, ArrivedGoes DEF Somewhere
  <2>4. CASE Halts \/ Unhalts \/ Replying \/ Replied
    BY <1>2, <2>4, HaltsGoes, UnhaltsGoes, ReplyingGoes, RepliedWaits
       DEF Somewhere
  <2>5. CASE ReplyTaken \/ Stuck \/ Refusing
    BY <1>2, <2>5, ReplyTakenGoes, StuckGoes, RefusingGoes DEF Somewhere
  <2> QED BY <2>1, <2>2, <2>3, <2>4, <2>5 DEF Somewhere
<1> QED BY <1>1, <1>2

LEMMA PlaceStep == CInv /\ Place /\ [Next]_vars => Place'
<1> SUFFICES ASSUME CInv, Place, [Next]_vars, ~overtaken' PROVE Somewhere'
  BY DEF Place
<1>1. ASSUME NEW r \in Requests, HostSetup(r) PROVE Somewhere'
  BY <1>1, SetupPlace DEF Somewhere
<1>2. CASE BusReset
  BY <1>2, ResetPlace DEF Somewhere
<1>3. ASSUME NEW acked \in BOOLEAN, HostReads(acked) PROVE Somewhere'
  <2>1. Somewhere
    BY <1>3, HostReadsGoes DEF Place
  <2> QED BY <1>3, <2>1, ReadPlace
<1>4. ASSUME NEW acked \in BOOLEAN, HostSends(acked) PROVE Somewhere'
  <2>1. Somewhere
    BY <1>4, HostSendsGoes DEF Place
  <2> QED BY <1>4, <2>1, SendPlace
<1>5. CASE HostStalled
  <2>1. Somewhere
    BY <1>5 DEF HostStalled, Place
  <2> QED BY <1>5, <2>1, StalledPlace
<1>6. CASE Driver
  <2>1. Somewhere
    BY <1>6, DriverStill DEF HostStays, Place
  <2> QED BY <1>6, <2>1, DriverPlace
<1>7. CASE UNCHANGED vars
  <2>1. Somewhere
    BY <1>7 DEF vars, Place
  <2>2. /\ UNCHANGED <<reg, ef, reset_flag, pma_rx, pma_tx>>
        /\ UNCHANGED <<todo, loaded, usb_fsm_state, usb_force_nak, usb_req, buf,
                       chunk>>
        /\ UNCHANGED <<asked, stages, toggle, moved>>
    BY <1>7 DEF vars, peripheral, driver, host
  <2> QED BY <2>1, <2>2 DEF Somewhere, Over, Asked, Fetched, Known, Posting,
          Posted, Taken, Listening, Heard, Repeating, Opening, Receiving, Arrived,
          Halts, Unhalts, Replying, Replied, ReplyTaken, Stuck, Refusing, Silent,
          Fresh, Late, Begun, Of, Rx, Tx, Answering, Level, Storing, Synced,
          Waits, Serving
<1> QED BY <1>1, <1>2, <1>3, <1>4, <1>5, <1>6, <1>7 DEF Next, Host

PInv == CInv /\ Place

\* A transfer with a patient host goes from place to place: between any two
\* steps of do_usb_poll, of the handlers it calls (usb.c:265-317, 542-785) and of
\* the peripheral, what the driver has yet to do, the register, the packets and
\* what the host waits for fit together, whatever acknowledgements get lost.
THEOREM TransferIsPlaced == Spec => []PInv
<1>1. Init => PInv
  <2>1. Init => CInv
    BY EndpointInit, ClosedInit, RecoversInit DEF CInv
  <2> QED BY <2>1, PlaceInit DEF PInv, Place, Somewhere
<1>2. PInv /\ [Next]_vars => PInv'
  BY EndpointStep, ClosedStep, DiffersStep, RecoversStep, PlaceStep DEF PInv, CInv
<1> QED BY <1>1, <1>2, PTL DEF Spec

\* With nothing flagged and no handler running, a patient host and the device do
\* not wait for each other, but for an acknowledgement of the last packet of an
\* answer that got lost and for CLEAR_FEATURE(ENDPOINT_HALT) of endpoint 0x80
\* (usb.c:519-541, 655-715).
THEOREM NobodyWaits == Spec => []NoStandoff
<1>1. ASSUME PInv, ~overtaken, ~Flagged, todo = <<>>
      PROVE  /\ Turn("in") => \/ Tx \in {TX.valid, TX.stall}
                              \/ asked.kind = "clear_halt_in"
             /\ Turn("out") => \/ Rx \in {RX.valid, RX.stall}
                               \/ Tx = TX.valid
  <2>1. Somewhere /\ IInv /\ Silent
    BY <1>1 DEF PInv, Place, CInv, IInv, Flagged, Silent, CTRS
  <2>2. CASE Over
    BY <2>1, <2>2, Left DEF Over
  <2>3. ~Asked /\ ~Fetched /\ ~Known /\ ~Posting /\ ~Taken /\ ~Heard
    <3>1. ~Asked /\ ~Fetched
      BY <2>1 DEF Silent, Asked, Fetched
    <3>2. ~Known /\ ~Posting
      BY <1>1 DEF Known, Posting
    <3>3. ~Taken
      BY <1>1, <2>1 DEF Silent, Taken
    <3>4. ~Heard
      BY <2>1 DEF Silent, Heard
    <3> QED BY <3>1, <3>2, <3>3, <3>4
  <2>4. CASE Posted \/ Replied
    BY <2>4 DEF Posted, Replied
  <2>5. CASE Listening \/ Repeating
    <3>1. stages = <<"out">> /\ Rx = RX.valid
      BY <1>1, <2>5 DEF Listening, Repeating
    <3> QED BY <2>1, <3>1, Left
  <2>6. CASE Receiving
    <3> DEFINE k == asked.packets - moved
    <3>1. /\ Rx = RX.valid /\ asked \in Requests /\ stages = WriteLeft(k)
          /\ Synced(chunk) /\ chunk < asked.packets /\ chunk \in Nat
          /\ moved \in Nat /\ asked.packets \in Nat
      BY <1>1, <2>1, <2>6, Left DEF Receiving, Storing, IInv, Types, DriverTypes
    <3>2. k \in Nat /\ k > 0
      BY <3>1 DEF Synced
    <3> HIDE DEF k
    <3> QED BY <3>1, <3>2, LeftToWrite
  <2>7. ~Opening /\ ~Arrived /\ ~Halts /\ ~Unhalts /\ ~Replying /\ ~ReplyTaken
    <3>1. ~Opening
      BY <1>1 DEF Opening
    <3>2. ~Arrived /\ ~ReplyTaken
      BY <2>1 DEF Silent, Arrived, ReplyTaken
    <3>3. ~Halts /\ ~Unhalts /\ ~Replying
      BY <1>1 DEF Halts, Unhalts, Replying, Unhalting, UnhaltingIn
    <3> QED BY <3>1, <3>2, <3>3
  <2>8. CASE Stuck
    BY <2>1, <2>8, Left DEF Stuck
  <2>9. CASE Refusing
    <3>1. Tx = TX.stall /\ stages \in {<<"in">>, <<"failed">>}
      BY <1>1, <2>9 DEF Refusing
    <3> QED BY <2>1, <3>1, Left
  <2> QED BY <2>1, <2>2, <2>3, <2>4, <2>5, <2>6, <2>7, <2>8, <2>9 DEF Somewhere
<1>2. PInv => NoStandoff
  BY <1>1 DEF NoStandoff, Rx, Tx
<1> QED BY <1>2, TransferIsPlaced, PTL

\* Where a packet that was copied is used, it is the next one.
LEMMA DataIsNext ==
  ASSUME CInv, Somewhere, Data
  PROVE  buf[1] = [of |-> usb_req, number |-> chunk']
<1>1. /\ todo = <<ToData>> /\ chunk' = chunk + 1 /\ usb_req' = usb_req
  BY DataGoes DEF CInv, Data
<1>2. /\ todo \notin {<<>>, <<Open>>, <<Look>>, <<ToIn>>, <<ToSetup>>, <<Send>>,
                      <<Fetch>>, <<Enabling>>, <<StallRx>>}
      /\ \A p : todo # <<Put(p)>>
  BY <1>1, Ops
<1>3. ~Over /\ ~Asked
  <2>1. ~Late
    BY <1>2 DEF Late
  <2>2. todo \notin SettingUp
    BY <1>1, <1>2 DEF SettingUp
  <2> QED BY <1>2, <2>1, <2>2 DEF Over, Asked
<1>4. ~Fetched /\ ~Known
  BY <1>1, <1>2 DEF Fetched, Known
<1>5. ~Posting /\ ~Posted /\ ~Taken
  BY <1>1, <1>2 DEF Posting, Posted, Taken
<1>6. ~Listening /\ ~Heard /\ ~Repeating
  BY <1>1, <1>2 DEF Listening, Heard, Repeating
<1>7. ~Halts /\ ~Unhalts /\ ~Replying /\ ~Replied
  BY <1>1, <1>2 DEF Halts, Unhalts, Unhalting, UnhaltingIn, Replying, Replied
<1>8. ~ReplyTaken /\ ~Stuck /\ ~Refusing
  BY <1>1, <1>2 DEF ReplyTaken, Stuck, Refusing
<1>9. CASE Opening \/ Receiving \/ Arrived
  <2>1. usb_req = asked /\ buf[1] = Of(chunk + 1)
    <3>1. Opening => FALSE
      BY <1>1, <1>2 DEF Opening
    <3>2. Receiving => usb_req = asked /\ buf[1] = Of(chunk + 1)
      BY <1>1, <1>2 DEF Receiving, Storing
    <3>3. Arrived => usb_req = asked /\ buf[1] = Of(chunk + 1)
      BY <1>1, <1>2 DEF Arrived, Storing
    <3> QED BY <1>9, <3>1, <3>2, <3>3
  <2> QED BY <1>1, <2>1 DEF Of
<1> QED BY <1>3, <1>4, <1>5, <1>6, <1>7, <1>8, <1>9 DEF Somewhere

\* What the host takes for the next packet is the next one.
LEMMA ReadIsNext ==
  ASSUME CInv, Somewhere, NEW acked \in BOOLEAN, HostReads(acked),
         moved' = moved + 1
  PROVE  pma_tx = [of |-> asked, number |-> moved']
<1>1. IInv /\ moved \in Nat /\ Turn("in")
  BY Left, HostReadsDoes DEF CInv
<1>2. ("DTOG_TX" \in reg) = Toggle /\ InData
  BY <1>1, HostReadsGoes DEF Proceed
<1>3. Toggle = toggle /\ toggle \in BOOLEAN
  BY <1>1, <1>2, Left, Zenon DEF Toggle
<1>4. CASE Posted
  <2>1. Level
    BY <1>2, <1>3 DEF Level
  <2>2. moved' = chunk /\ pma_tx = Of(chunk)
    BY <1>4, <2>1 DEF Posted
  <2> QED BY <2>2 DEF Of
<1>5. CASE Replied
  <2>1. stages = <<"in">>
    BY <1>1, <1>5, AnswerLeft DEF Replied
  <2> QED BY <1>1, <1>2, <2>1, Left
<1> QED BY <1>4, <1>5, ReadingIsPosted, HostReadsDoes

\* With a patient host every packet of data arrives once and in order, in both
\* directions, whatever acknowledgements get lost: the macros of usb.h leave the
\* data toggles alone, and the driver counts its packets as the host counts
\* what it took (usb.c:542-588, 655-715).
THEOREM DataArrivesWhole == Spec => DataIsWhole
<1> DEFINE A == ~overtaken =>
                  /\ moved' = moved + 1 /\ Turn("in") =>
                       pma_tx = [of |-> asked, number |-> moved']
                  /\ Data => buf[1] = [of |-> usb_req, number |-> chunk']
<1>1. ASSUME PInv, [Next]_vars, ~overtaken
      PROVE  [/\ moved' = moved + 1 /\ Turn("in") =>
                   pma_tx = [of |-> asked, number |-> moved']
              /\ Data => buf[1] = [of |-> usb_req, number |-> chunk'] ]_vars
  <2>1. CInv /\ Somewhere /\ IInv /\ moved \in Nat
    BY <1>1, Left DEF PInv, Place, CInv
  <2>2. Data => buf[1] = [of |-> usb_req, number |-> chunk']
    BY <2>1, DataIsNext
  <2>3. ASSUME Next, moved' = moved + 1, Turn("in")
        PROVE  pma_tx = [of |-> asked, number |-> moved']
    <3>1. ASSUME NEW r \in Requests, HostSetup(r) PROVE FALSE
      BY <2>1, <2>3, <3>1 DEF HostSetup
    <3>2. ASSUME NEW acked \in BOOLEAN, HostReads(acked)
          PROVE  pma_tx = [of |-> asked, number |-> moved']
      BY <2>1, <2>3, <3>2, ReadIsNext
    <3>3. ASSUME NEW acked \in BOOLEAN, HostSends(acked) PROVE FALSE
      BY <2>3, <3>3 DEF HostSends, Turn
    <3>4. CASE HostStalled \/ BusReset \/ Driver
      <4>1. moved' = moved
        BY <3>4, DriverStill DEF HostStalled, BusReset, HostStays
      <4> QED BY <2>1, <2>3, <4>1
    <3> QED BY <2>3, <3>1, <3>2, <3>3, <3>4 DEF Next, Host
  <2> QED BY <1>1, <2>2, <2>3
<1>2. PInv /\ [Next]_vars => [A]_vars
  BY <1>1
<1> QED BY <1>2, TransferIsPlaced, PTL DEF Spec, DataIsWhole

-----------------------------------------------------------------------------
\* With a patient host, CLEAR_FEATURE is not overtaken.
LEMMA HaltIsPlaced ==
  ASSUME Somewhere, todo \in {<<ClrRx, Open, Put(Empty)>>, <<ClrTx, Put(Empty)>>}
  PROVE  Fresh
<1>1. /\ ClrRx \notin {Nak, Fetch, Half1, Half2, Ctr, Open, StallTx, StallRx}
      /\ ClrTx \notin {CtrTx, Nak, Fetch, Half1, Half2, Ctr, Open, StallTx,
                        StallRx, NakTx, ClrRx}
      /\ Put(Empty) \notin {Enabling, ToIn, ToSetup, ToData}
  BY Ops
<1>2. ~Over
  <2>1. ~Late
    BY DEF Late
  <2>2. todo \notin SettingUp
    BY <1>1 DEF SettingUp
  <2> QED BY <2>1, <2>2 DEF Over
<1>3. ~Asked /\ ~Known
  BY DEF Asked, Known, Late
<1>4. Fetched => Fresh
  BY DEF Fetched
<1>5. Posting \/ Posted \/ Taken => Fresh
  BY DEF Posting, Posted, Taken, Answering
<1>6. Listening \/ Heard \/ Repeating => Fresh
  BY DEF Listening, Heard, Repeating
<1>7. Opening \/ Receiving \/ Arrived => Fresh
  BY DEF Opening, Receiving, Arrived, Storing
<1>8. Halts \/ Unhalts \/ Replying \/ Replied => Fresh
  BY DEF Halts, Unhalts, Replying, Replied, Serving
<1>9. ReplyTaken \/ Stuck \/ Refusing => Fresh
  BY DEF ReplyTaken, Stuck, Refusing
<1> QED BY <1>2, <1>3, <1>4, <1>5, <1>6, <1>7, <1>8, <1>9 DEF Somewhere

\* A toggle is reset, the type or the address stored, only of a register that
\* was read just now, unless a setup packet overtakes CLEAR_FEATURE.
LEMMA ResetsAreFresh ==
  ASSUME PInv, Now \in {"clr_rx_dtog", "clr_tx_dtog", "set_type", "set_addr"}
  PROVE  \/ Fresh
         \/ /\ overtaken /\ usb_req.kind \in {"clear_halt", "clear_halt_in"}
            /\ Now \in {"clr_rx_dtog", "clr_tx_dtog"}
<1>1. CInv /\ IInv /\ Closed /\ Shape /\ Place
  BY DEF PInv, CInv, IInv
<1>2. CASE todo \in SettingUp
  <2>1. Last = Enabling
    BY <1>2, Ends DEF EndForms, SettingUp
  <2> QED BY <1>1, <2>1 DEF Closed, Fresh
<1>3. CASE todo = <<ClrRx, Open, Put(Empty)>>
  <2>1. Prev = Open /\ Last = Put(Empty)
    BY <1>3, Ends DEF EndForms
  <2>2. usb_req.kind = "clear_halt" /\ Now = "clr_rx_dtog"
    BY <1>1, <1>3, <2>1, Ops DEF Closed, Now
  <2> QED BY <1>1, <1>3, <2>2, HaltIsPlaced DEF Place
<1>4. CASE todo = <<ClrTx, Put(Empty)>>
  <2>1. Prev = ClrTx
    BY <1>4, Ends DEF EndForms
  <2>2. usb_req.kind = "clear_halt_in" /\ Now = "clr_tx_dtog"
    BY <1>1, <1>4, <2>1, Ops DEF Closed, Now
  <2> QED BY <1>1, <1>4, <2>2, HaltIsPlaced DEF Place
<1>5. CASE todo \in Plain \ SettingUp
  <2>1. ~(todo \in Finishing \cup Stalling \cup Writing \cup Halting)
    BY FinishingRuns, StallingRuns, WritingRuns, HaltingRuns DEF Runs
  <2>2. todo \in Unhalting \cup UnhaltingIn
    BY <1>5, <2>1 DEF Plain
  <2> QED BY <1>3, <1>4, <2>2, UnhaltingRuns, UnhaltingInRuns DEF Runs
<1>6. ~(todo \in Looking \cup Copying \cup HalfCopied \cup Copied)
  BY LookingRuns, CopyingRuns, HalfCopiedRuns, CopiedRuns DEF Runs
<1> QED BY <1>1, <1>2, <1>5, <1>6 DEF Shape

LEMMA HostDropsNothing ==
  ASSUME Host, NEW ctr \in CTRS, ctr \in reg
  PROVE  ctr \in reg'
<1>1. ASSUME NEW r \in Requests, HostSetup(r) PROVE ctr \in reg'
  BY <1>1 DEF HostSetup
<1>2. ASSUME NEW acked \in BOOLEAN, HostReads(acked) PROVE ctr \in reg'
  <2>1. Same("CTR_RX") /\ ("CTR_TX" \in reg => "CTR_TX" \in reg')
    BY <1>2, HostReadsDoes
  <2> QED BY <2>1 DEF Same, CTRS
<1>3. ASSUME NEW acked \in BOOLEAN, HostSends(acked) PROVE ctr \in reg'
  <2>1. Same("CTR_TX") /\ "CTR_RX" \notin reg
    BY <1>3, HostSendsDoes
  <2> QED BY <2>1 DEF Same, CTRS
<1>4. CASE HostStalled
  BY <1>4 DEF HostStalled, peripheral
<1>5. CASE BusReset
  BY <1>5, BusResetDoes DEF Same, CTRS
<1> QED BY <1>1, <1>2, <1>3, <1>4, <1>5 DEF Host

\* A flag the peripheral raises between the read and the store of a macro is
\* not lost (usb.h, EXTRA_BITS): what clears a flag is the macro made for it,
\* or a setup packet overtakes CLEAR_FEATURE(ENDPOINT_HALT), whose macros store
\* the flags as they were read (usb.c:519-541).
THEOREM FlagsAreNotLost == Spec => EventsAreNotDropped
<1> DEFINE A == \A ctr \in CTRS : ctr \in reg /\ ctr \notin reg' =>
                  \/ Head(todo)[1] = Clears(ctr)
                  \/ /\ overtaken /\ usb_req.kind \in {"clear_halt", "clear_halt_in"}
                     /\ Head(todo)[1] \in {"clr_rx_dtog", "clr_tx_dtog"}
<1>1. ASSUME PInv, Next PROVE A
  <2> SUFFICES ASSUME NEW ctr \in CTRS, ctr \in reg, ctr \notin reg'
               PROVE  \/ Head(todo)[1] = Clears(ctr)
                      \/ /\ overtaken
                         /\ usb_req.kind \in {"clear_halt", "clear_halt_in"}
                         /\ Head(todo)[1] \in {"clr_rx_dtog", "clr_tx_dtog"}
    OBVIOUS
  <2>1. IInv
    BY <1>1 DEF PInv, CInv
  <2>2. Store
    <3>1. Driver
      BY <1>1, HostDropsNothing DEF Next
    <3>2. Store \/ UNCHANGED reg
      BY <3>1 DEF Driver, PollReset, Enable, PollReceived, PollSent, Setup, Out,
         In, Dispatch, Data, Read, Copy, Write, Load, peripheral
    <3> QED BY <3>2
  <2>3. todo # <<>> /\ Now \in Macros /\ Now = Head(todo)[1]
    BY <2>1, <2>2, StoreGoes DEF Now
  <2>4. ctr = "CTR_RX" \/ ctr = "CTR_TX"
    BY DEF CTRS
  <2>5. PICK old \in SUBSET Bits :
          /\ loaded = {old}
          /\ Now \in {"set_rx", "set_tx"} => Same("CTR_RX") /\ Same("CTR_TX")
          /\ Now = "clr_rx_ctr" => Same("CTR_TX")
          /\ Now = "clr_tx_ctr" => Same("CTR_RX")
          /\ Now \in {"clr_rx_dtog", "clr_tx_dtog", "set_type", "set_addr"} =>
               \A c \in CTRS : c \in reg' <=> c \in reg /\ c \in old
    BY <2>1, <2>2, StoreDoes
  <2>6. CASE Now \in {"set_rx", "set_tx", "clr_rx_ctr", "clr_tx_ctr"}
    BY <2>3, <2>4, <2>5, <2>6 DEF Same, Clears
  <2>7. CASE Now \in {"clr_rx_dtog", "clr_tx_dtog", "set_type", "set_addr"}
    <3>1. ~Fresh
      BY <2>5, <2>7 DEF Fresh
    <3> QED BY <1>1, <2>3, <2>7, <3>1, ResetsAreFresh
  <2> QED BY <2>3, <2>6, <2>7 DEF Macros
<1>2. PInv /\ [Next]_vars => [A]_vars
  BY <1>1
<1> QED BY <1>2, TransferIsPlaced, PTL DEF Spec, EventsAreNotDropped

-----------------------------------------------------------------------------
(***************************************************************************)
(* Packet memory.  The loops of usb.c:167-249 are recursive functions      *)
(* here, so what they leave behind is shown by induction over the pairs of *)
(* words they have moved: a set of numbers that has 0, and n + 1 with n,   *)
(* has every number.                                                       *)
(***************************************************************************)
\* The numbers in order, as a relation.
Before == OpToRel(<, Nat)

LEMMA BeforeIsLess == \A x, y \in Nat : <<x, y>> \in Before <=> x < y
  BY DEF Before, OpToRel

\* A set with 0 that has n + 1 with n has every number.
LEMMA Counted ==
  ASSUME NEW S, 0 \in S, \A n \in Nat : n \in S => n + 1 \in S
  PROVE  Nat \subseteq S
<1> SUFFICES ASSUME Nat \ S # {} PROVE FALSE
  OBVIOUS
<1>1. IsWellFoundedOn(Before, Nat)
  BY NatLessThanWellFounded DEF Before
<1>2. PICK x \in Nat \ S : \A y \in Nat \ S : ~ (<<y, x>> \in Before)
  BY <1>1, WFMin
<1>3. x # 0 /\ x - 1 \in Nat
  OBVIOUS
<1>4. <<x - 1, x>> \in Before
  BY <1>3, BeforeIsLess
<1>5. x - 1 \in S
  BY <1>2, <1>3, <1>4
<1> QED BY <1>3, <1>5

\* The loops of both copies, and one turn of each.
PairsTo(pm, src, m) ==
  LET pairs[k \in 0 .. m] ==
        IF k = 0 THEN pm
        ELSE [pairs[k - 1] EXCEPT ![2 * k - 2] = WordAt(src, 4 * k - 4),
                                  ![2 * k - 1] = WordAt(src, 4 * k - 2)]
  IN pairs

PairsFrom(pm, m) ==
  LET pairs[k \in 0 .. m] ==
        IF k = 0 THEN <<>> ELSE pairs[k - 1] \o pm[2 * k - 2] \o pm[2 * k - 1]
  IN pairs

Pair(f, src, k) == [f EXCEPT ![2 * k - 2] = WordAt(src, 4 * k - 4),
                             ![2 * k - 1] = WordAt(src, 4 * k - 2)]

ToSteps(g, pm, src, m) ==
  g = [k \in 0 .. m |-> IF k = 0 THEN pm ELSE Pair(g[k - 1], src, k)]

Joined(s, pm, k) == s \o pm[2 * k - 2] \o pm[2 * k - 1]

FromSteps(g, pm, m) ==
  g = [k \in 0 .. m |-> IF k = 0 THEN <<>> ELSE Joined(g[k - 1], pm, k)]

\* Each turn of the loop works on what the turn before it left.
LEMMA PairsToSteps ==
  ASSUME NEW pm, NEW src, NEW m \in Nat
  PROVE  ToSteps(PairsTo(pm, src, m), pm, src, m)
<1> DEFINE S == {n \in Nat : \E g : ToSteps(g, pm, src, n)}
<1>1. 0 \in S
  <2>1. ToSteps([k \in 0 .. 0 |-> pm], pm, src, 0)
    BY DEF ToSteps
  <2> QED BY <2>1
<1>2. ASSUME NEW n \in Nat, n \in S PROVE n + 1 \in S
  <2>1. PICK g : ToSteps(g, pm, src, n)
    BY <1>2
  <2> DEFINE h == [k \in 0 .. n + 1 |->
                     IF k = n + 1 THEN Pair(g[n], src, k) ELSE g[k]]
  <2>2. \A k \in 0 .. n : h[k] = g[k]
    OBVIOUS
  <2>3. h[n + 1] = Pair(h[n], src, n + 1)
    BY <2>2
  <2>4. \A k \in 0 .. n : h[k] = IF k = 0 THEN pm ELSE Pair(h[k - 1], src, k)
    <3> HIDE DEF h
    <3> TAKE k \in 0 .. n
    <3>1. g[k] = IF k = 0 THEN pm ELSE Pair(g[k - 1], src, k)
      BY <2>1, Zenon DEF ToSteps
    <3>2. k # 0 => k - 1 \in 0 .. n
      OBVIOUS
    <3> QED BY <2>2, <3>1, <3>2
  <2>5. ToSteps(h, pm, src, n + 1)
    <3>1. h = [k \in 0 .. n + 1 |-> h[k]]
      OBVIOUS
    <3> HIDE DEF h
    <3>2. \A k \in 0 .. n + 1 : h[k] = IF k = 0 THEN pm ELSE Pair(h[k - 1], src, k)
      <4> TAKE k \in 0 .. n + 1
      <4>1. CASE k = n + 1
        BY <2>3, <4>1
      <4>2. CASE k # n + 1
        BY <2>4, <4>2
      <4> QED BY <4>1, <4>2
    <3> QED BY <3>1, <3>2, Zenon DEF ToSteps
  <2> QED BY <2>5
<1>3. m \in S
  <2> HIDE DEF S
  <2> QED BY <1>1, <1>2, Counted
<1>4. \E g : ToSteps(g, pm, src, m)
  BY <1>3
<1> QED BY <1>4, Zenon DEF PairsTo, ToSteps, Pair

\* A memory of N words.
IsMemory(f, N) == f = [w \in 0 .. N - 1 |-> f[w]]

\* After m turns the first 2 * m words hold what src has, the others what they
\* held.
LEMMA PairsToHolds ==
  ASSUME NEW pm, NEW src, NEW m \in Nat, NEW N \in Nat, 2 * m <= N,
         IsMemory(pm, N)
  PROVE  LET new == PairsTo(pm, src, m)[m]
         IN /\ IsMemory(new, N)
            /\ \A w \in 0 .. N - 1 :
                 new[w] = IF w < 2 * m THEN WordAt(src, 2 * w) ELSE pm[w]
<1> DEFINE g == PairsTo(pm, src, m)
           Good(k) == /\ IsMemory(g[k], N)
                      /\ \A w \in 0 .. N - 1 : g[k][w] =
                           IF w < 2 * k THEN WordAt(src, 2 * w) ELSE pm[w]
           S == {n \in Nat : n <= m => Good(n)}
<1>1. \A k \in 0 .. m : g[k] = IF k = 0 THEN pm ELSE Pair(g[k - 1], src, k)
  <2>1. ToSteps(g, pm, src, m)
    BY PairsToSteps
  <2> HIDE DEF g
  <2> QED BY <2>1, Zenon DEF ToSteps
<1> HIDE DEF g
<1>2. 0 \in S
  <2>1. g[0] = pm
    BY <1>1
  <2> QED BY <2>1
<1>3. ASSUME NEW n \in Nat, n \in S PROVE n + 1 \in S
  <2> SUFFICES ASSUME n + 1 <= m PROVE Good(n + 1)
    OBVIOUS
  <2>0. Good(n)
    BY <1>3
  <2>1. g[n + 1] = Pair(g[n], src, n + 1)
    <3>1. n + 1 \in 0 .. m /\ n + 1 # 0 /\ (n + 1) - 1 = n
      OBVIOUS
    <3> QED BY <1>1, <3>1
  <2>2. Pair(g[n], src, n + 1) = [g[n] EXCEPT ![2 * n] = WordAt(src, 4 * n),
                                        ![2 * n + 1] = WordAt(src, 4 * n + 2)]
    <3>1. /\ 2 * (n + 1) - 2 = 2 * n /\ 2 * (n + 1) - 1 = 2 * n + 1
          /\ 4 * (n + 1) - 4 = 4 * n /\ 4 * (n + 1) - 2 = 4 * n + 2
      OBVIOUS
    <3> QED BY <3>1 DEF Pair
  <2> DEFINE new == [g[n] EXCEPT ![2 * n] = WordAt(src, 4 * n),
                                 ![2 * n + 1] = WordAt(src, 4 * n + 2)]
  <2>3. /\ IsMemory(new, N)
        /\ \A w \in 0 .. N - 1 : new[w] =
             IF w = 2 * n + 1 THEN WordAt(src, 4 * n + 2)
             ELSE IF w = 2 * n THEN WordAt(src, 4 * n) ELSE g[n][w]
    BY <2>0 DEF IsMemory
  <2>4. g[n + 1] = new
    BY <2>1, <2>2
  <2> HIDE DEF new
  <2>5. ASSUME NEW w \in 0 .. N - 1
        PROVE  new[w] =
                 IF w < 2 * (n + 1) THEN WordAt(src, 2 * w) ELSE pm[w]
    <3>1. CASE w = 2 * n + 1
      <4>1. 4 * n + 2 = 2 * w /\ w < 2 * (n + 1)
        BY <3>1
      <4> QED BY <2>3, <3>1, <4>1
    <3>2. CASE w = 2 * n
      <4>1. 4 * n = 2 * w /\ w < 2 * (n + 1) /\ w # 2 * n + 1
        BY <3>2
      <4> QED BY <2>3, <3>2, <4>1
    <3>3. CASE w # 2 * n /\ w # 2 * n + 1
      <4>1. w < 2 * n <=> w < 2 * (n + 1)
        BY <3>3
      <4> QED BY <2>0, <2>3, <3>3, <4>1
    <3> QED BY <3>1, <3>2, <3>3
  <2> QED BY <2>3, <2>4, <2>5
<1>4. m \in S
  <2> HIDE DEF S
  <2> QED BY <1>2, <1>3, Counted
<1> QED BY <1>4 DEF g

\* The loop, and the word that is left of an odd number of them.
ToWhole(pm, src, len) ==
  LET words == len \div 2
      pairs == PairsTo(pm, src, words \div 2)
  IN IF words % 2 = 0 THEN pairs[words \div 2]
     ELSE [pairs[words \div 2] EXCEPT
                       ![words - 1] = WordAt(src, 2 * words - 2)]

LEMMA ToPmIs ==
  ASSUME NEW pm, NEW src, NEW len \in Nat
  PROVE  st_usbfs_copy_to_pm(pm, src, len) =
           IF len % 2 = 0 THEN ToWhole(pm, src, len)
           ELSE [ToWhole(pm, src, len) EXCEPT ![len \div 2] = <<src[len], 0>>]
  BY Zenon DEF st_usbfs_copy_to_pm, ToWhole, PairsTo

\* new is pm with len bytes of src in front, and a byte 0 behind an odd one.
Holds(new, pm, src, len, N) ==
  /\ IsMemory(new, N)
  /\ \A w \in 0 .. N - 1 : new[w] =
       IF 2 * w + 1 < len THEN WordAt(src, 2 * w)
       ELSE IF 2 * w < len THEN <<src[len], 0>> ELSE pm[w]

LEMMA ToPmHolds ==
  ASSUME NEW pm, NEW src, NEW len \in Nat, NEW N \in Nat, len <= 2 * N,
         IsMemory(pm, N)
  PROVE  Holds(st_usbfs_copy_to_pm(pm, src, len), pm, src, len, N)
<1> DEFINE new == st_usbfs_copy_to_pm(pm, src, len)
           whole == ToWhole(pm, src, len)
<1>0. PICK words \in Nat : words = len \div 2
  OBVIOUS
<1>1. PICK m \in Nat : m = words \div 2
  OBVIOUS
<1>2. PICK half : half = PairsTo(pm, src, m)[m]
  OBVIOUS
<1>3. /\ len % 2 = 0 => len = 2 * words
      /\ len % 2 # 0 => len = 2 * words + 1
      /\ words % 2 = 0 => words = 2 * m
      /\ words % 2 # 0 => words = 2 * m + 1
      /\ 2 * m <= N /\ words <= N
  BY <1>0, <1>1
<1>4. /\ IsMemory(half, N)
      /\ \A w \in 0 .. N - 1 :
           half[w] = IF w < 2 * m THEN WordAt(src, 2 * w) ELSE pm[w]
  BY <1>2, <1>3, PairsToHolds
<1>5. whole = IF words % 2 = 0 THEN half
              ELSE [half EXCEPT ![words - 1] = WordAt(src, 2 * words - 2)]
  BY <1>0, <1>1, <1>2, Zenon DEF ToWhole
<1>6. new = IF len % 2 = 0 THEN whole
            ELSE [whole EXCEPT ![words] = <<src[len], 0>>]
  <2> HIDE DEF new, whole
  <2>1. st_usbfs_copy_to_pm(pm, src, len) =
          IF len % 2 = 0 THEN ToWhole(pm, src, len)
          ELSE [ToWhole(pm, src, len) EXCEPT ![words] = <<src[len], 0>>]
    BY <1>0, ToPmIs
  <2> QED BY <2>1 DEF new, whole
<1> HIDE DEF new, whole
<1>7. /\ IsMemory(whole, N)
      /\ \A w \in 0 .. N - 1 :
           whole[w] = IF w < words THEN WordAt(src, 2 * w) ELSE pm[w]
  <2>1. CASE words % 2 = 0
    BY <1>3, <1>4, <1>5, <2>1
  <2>2. CASE words % 2 # 0
    <3>1. /\ words - 1 = 2 * m /\ 2 * words - 2 = 2 * (2 * m)
      BY <1>3, <2>2
    <3>2. whole = [half EXCEPT ![2 * m] = WordAt(src, 2 * (2 * m))]
      BY <1>5, <2>2, <3>1
    <3>3. /\ IsMemory(whole, N)
          /\ \A w \in 0 .. N - 1 : whole[w] =
               IF w = 2 * m THEN WordAt(src, 2 * (2 * m)) ELSE half[w]
      BY <1>4, <3>2 DEF IsMemory
    <3>4. \A w \in 0 .. N - 1 : w < words <=> w < 2 * m \/ w = 2 * m
      BY <3>1
    <3>5. ASSUME NEW w \in 0 .. N - 1
          PROVE  whole[w] = IF w < words THEN WordAt(src, 2 * w) ELSE pm[w]
      <4>1. CASE w = 2 * m
        BY <3>3, <3>4, <4>1, Zenon
      <4>2. CASE w # 2 * m
        BY <1>4, <3>3, <3>4, <4>2, Zenon
      <4> QED BY <4>1, <4>2
    <3> QED BY <3>3, <3>5
  <2> QED BY <2>1, <2>2
<1>8. CASE len % 2 = 0
  <2>1. len = 2 * words /\ new = whole
    BY <1>3, <1>6, <1>8
  <2>2. \A w \in 0 .. N - 1 : /\ 2 * w + 1 < len <=> w < words
                              /\ 2 * w < len <=> w < words
    BY <2>1
  <2> QED BY <1>7, <2>1, <2>2 DEF new, Holds
<1>9. CASE len % 2 # 0
  <2>1. len = 2 * words + 1 /\ new = [whole EXCEPT ![words] = <<src[len], 0>>]
    BY <1>3, <1>6, <1>9
  <2>2. \A w \in 0 .. N - 1 : /\ 2 * w + 1 < len <=> w < words
                              /\ 2 * w < len <=> w < words \/ w = words
    BY <2>1
  <2>3. /\ IsMemory(new, N)
        /\ \A w \in 0 .. N - 1 : new[w] =
             IF w = words THEN <<src[len], 0>> ELSE whole[w]
    BY <1>7, <2>1 DEF IsMemory
  <2>4. \A w \in 0 .. N - 1 : w = words => ~ (w < words)
    OBVIOUS
  <2>5. ASSUME NEW w \in 0 .. N - 1
        PROVE  new[w] = IF 2 * w + 1 < len THEN WordAt(src, 2 * w)
                        ELSE IF 2 * w < len THEN <<src[len], 0>> ELSE pm[w]
    <3>1. CASE w = words
      BY <2>2, <2>3, <2>4, <3>1, Zenon
    <3>2. CASE w # words
      BY <1>7, <2>2, <2>3, <3>2, Zenon
    <3> QED BY <3>1, <3>2
  <2> QED BY <2>3, <2>5 DEF new, Holds
<1> QED BY <1>8, <1>9

-----------------------------------------------------------------------------
LEMMA PairsFromSteps ==
  ASSUME NEW pm, NEW m \in Nat
  PROVE  FromSteps(PairsFrom(pm, m), pm, m)
<1> DEFINE S == {n \in Nat : \E g : FromSteps(g, pm, n)}
<1>1. 0 \in S
  <2>1. FromSteps([k \in 0 .. 0 |-> <<>>], pm, 0)
    BY DEF FromSteps
  <2> QED BY <2>1
<1>2. ASSUME NEW n \in Nat, n \in S PROVE n + 1 \in S
  <2>1. PICK g : FromSteps(g, pm, n)
    BY <1>2
  <2> DEFINE h == [k \in 0 .. n + 1 |->
                     IF k = n + 1 THEN Joined(g[n], pm, k) ELSE g[k]]
  <2>2. \A k \in 0 .. n : h[k] = g[k]
    OBVIOUS
  <2>3. h[n + 1] = Joined(h[n], pm, n + 1)
    BY <2>2
  <2>4. \A k \in 0 .. n : h[k] = IF k = 0 THEN <<>> ELSE Joined(h[k - 1], pm, k)
    <3> HIDE DEF h
    <3> TAKE k \in 0 .. n
    <3>1. g[k] = IF k = 0 THEN <<>> ELSE Joined(g[k - 1], pm, k)
      BY <2>1, Zenon DEF FromSteps
    <3>2. k # 0 => k - 1 \in 0 .. n
      OBVIOUS
    <3> QED BY <2>2, <3>1, <3>2
  <2>5. FromSteps(h, pm, n + 1)
    <3>1. h = [k \in 0 .. n + 1 |-> h[k]]
      OBVIOUS
    <3> HIDE DEF h
    <3>2. \A k \in 0 .. n + 1 : h[k] = IF k = 0 THEN <<>> ELSE Joined(h[k - 1], pm, k)
      <4> TAKE k \in 0 .. n + 1
      <4>1. CASE k = n + 1
        BY <2>3, <4>1
      <4>2. CASE k # n + 1
        BY <2>4, <4>2
      <4> QED BY <4>1, <4>2
    <3> QED BY <3>1, <3>2, Zenon DEF FromSteps
  <2> QED BY <2>5
<1>3. m \in S
  <2> HIDE DEF S
  <2> QED BY <1>1, <1>2, Counted
<1>4. \E g : FromSteps(g, pm, m)
  BY <1>3
<1> QED BY <1>4, Zenon DEF PairsFrom, FromSteps, Joined

LEMMA OneMore ==
  ASSUME NEW T, NEW src \in Seq(T), NEW n \in Nat, n + 1 <= Len(src)
  PROVE  Append(SubSeq(src, 1, n), src[n + 1]) = SubSeq(src, 1, n + 1)
  OBVIOUS

LEMMA TwoMore ==
  ASSUME NEW T, NEW src \in Seq(T), NEW n \in Nat, n + 2 <= Len(src)
  PROVE  SubSeq(src, 1, n) \o WordAt(src, n) = SubSeq(src, 1, n + 2)
  BY DEF WordAt

\* After m turns what was copied is the first 4 * m bytes.
LEMMA PairsFromHolds ==
  ASSUME NEW T, NEW src \in Seq(T), NEW pm, NEW m \in Nat, 4 * m <= Len(src),
         \A w \in 0 .. 2 * m - 1 : pm[w] = WordAt(src, 2 * w)
  PROVE  PairsFrom(pm, m)[m] = SubSeq(src, 1, 4 * m)
<1> DEFINE g == PairsFrom(pm, m)
           S == {n \in Nat : n <= m => g[n] = SubSeq(src, 1, 4 * n)}
<1>1. \A k \in 0 .. m : g[k] = IF k = 0 THEN <<>> ELSE Joined(g[k - 1], pm, k)
  <2>1. FromSteps(g, pm, m)
    BY PairsFromSteps
  <2> HIDE DEF g
  <2> QED BY <2>1, Zenon DEF FromSteps
<1> HIDE DEF g
<1>2. 0 \in S
  <2>1. g[0] = <<>>
    BY <1>1
  <2>2. SubSeq(src, 1, 4 * 0) = <<>>
    OBVIOUS
  <2> QED BY <2>1, <2>2
<1>3. ASSUME NEW n \in Nat, n \in S PROVE n + 1 \in S
  <2> SUFFICES ASSUME n + 1 <= m PROVE g[n + 1] = SubSeq(src, 1, 4 * (n + 1))
    OBVIOUS
  <2>1. g[n] = SubSeq(src, 1, 4 * n)
    BY <1>3
  <2>2. g[n + 1] = Joined(g[n], pm, n + 1)
    <3>1. n + 1 \in 0 .. m /\ n + 1 # 0 /\ (n + 1) - 1 = n
      OBVIOUS
    <3> QED BY <1>1, <3>1
  <2>3. Joined(g[n], pm, n + 1) =
          (g[n] \o WordAt(src, 4 * n)) \o WordAt(src, 4 * n + 2)
    <3>1. /\ 2 * (n + 1) - 2 = 2 * n /\ 2 * (n + 1) - 1 = 2 * n + 1
          /\ 2 * n \in 0 .. 2 * m - 1 /\ 2 * n + 1 \in 0 .. 2 * m - 1
          /\ 2 * (2 * n) = 4 * n /\ 2 * (2 * n + 1) = 4 * n + 2
      OBVIOUS
    <3>2. pm[2 * n] = WordAt(src, 4 * n) /\ pm[2 * n + 1] = WordAt(src, 4 * n + 2)
      BY <3>1
    <3> QED BY <3>1, <3>2, Zenon DEF Joined
  <2>4. SubSeq(src, 1, 4 * n) \o WordAt(src, 4 * n) = SubSeq(src, 1, 4 * n + 2)
    BY TwoMore
  <2>5. SubSeq(src, 1, 4 * n + 2) \o WordAt(src, 4 * n + 2)
          = SubSeq(src, 1, 4 * n + 4)
    <3>1. 4 * n + 2 \in Nat /\ (4 * n + 2) + 2 = 4 * n + 4 /\ 4 * n + 4 <= Len(src)
      OBVIOUS
    <3> QED BY <3>1, TwoMore
  <2>6. 4 * (n + 1) = 4 * n + 4
    OBVIOUS
  <2> QED BY <2>1, <2>2, <2>3, <2>4, <2>5, <2>6, Zenon
<1>4. m \in S
  <2> HIDE DEF S
  <2> QED BY <1>2, <1>3, Counted
<1> QED BY <1>4 DEF g

FromWhole(pm, len) ==
  LET words == len \div 2
      pairs == PairsFrom(pm, words \div 2)
  IN IF words % 2 = 0 THEN pairs[words \div 2]
     ELSE pairs[words \div 2] \o pm[words - 1]

LEMMA FromPmIs ==
  ASSUME NEW pm, NEW len \in Nat
  PROVE  st_usbfs_copy_from_pm(pm, len) =
           IF len % 2 = 0 THEN FromWhole(pm, len)
           ELSE Append(FromWhole(pm, len), pm[len \div 2][1])
  BY Zenon DEF st_usbfs_copy_from_pm, FromWhole, PairsFrom

LEMMA FromPmHolds ==
  ASSUME NEW T, NEW src \in Seq(T), NEW pm, NEW len \in Nat, len <= Len(src),
         \A w \in Nat : 2 * w + 1 < len => pm[w] = WordAt(src, 2 * w),
         len % 2 # 0 => pm[len \div 2][1] = src[len]
  PROVE  st_usbfs_copy_from_pm(pm, len) = SubSeq(src, 1, len)
<1> DEFINE new == st_usbfs_copy_from_pm(pm, len)
           whole == FromWhole(pm, len)
<1>0. PICK words \in Nat : words = len \div 2
  OBVIOUS
<1>1. PICK m \in Nat : m = words \div 2
  OBVIOUS
<1>2. PICK half : half = PairsFrom(pm, m)[m]
  OBVIOUS
<1>3. /\ len % 2 = 0 => len = 2 * words
      /\ len % 2 # 0 => len = 2 * words + 1
      /\ words % 2 = 0 => words = 2 * m
      /\ words % 2 # 0 => words = 2 * m + 1
      /\ 4 * m <= Len(src) /\ 2 * words <= len /\ 4 * m <= len
  BY <1>0, <1>1
<1>4. half = SubSeq(src, 1, 4 * m)
  <2>1. ASSUME NEW w \in 0 .. 2 * m - 1 PROVE pm[w] = WordAt(src, 2 * w)
    <3>1. w \in Nat /\ 2 * w + 1 < len
      BY <1>3
    <3> QED BY <3>1
  <2> QED BY <1>2, <1>3, <2>1, PairsFromHolds
<1>5. whole = IF words % 2 = 0 THEN half ELSE half \o pm[words - 1]
  BY <1>0, <1>1, <1>2, Zenon DEF FromWhole
<1>6. new = IF len % 2 = 0 THEN whole ELSE Append(whole, pm[words][1])
  BY <1>0, FromPmIs
<1> HIDE DEF new, whole
<1>7. whole = SubSeq(src, 1, 2 * words)
  <2>1. CASE words % 2 = 0
    <3>1. 4 * m = 2 * words
      BY <1>3, <2>1
    <3> QED BY <1>4, <1>5, <2>1, <3>1
  <2>2. CASE words % 2 # 0
    <3>1. /\ words - 1 \in Nat /\ 2 * (words - 1) = 4 * m
          /\ 2 * (words - 1) + 1 < len /\ 4 * m + 2 = 2 * words
          /\ 4 * m \in Nat /\ 4 * m + 2 <= Len(src)
      BY <1>3, <2>2
    <3>2. pm[words - 1] = WordAt(src, 4 * m)
      BY <3>1
    <3>3. SubSeq(src, 1, 4 * m) \o WordAt(src, 4 * m) = SubSeq(src, 1, 4 * m + 2)
      BY <3>1, TwoMore
    <3> QED BY <1>4, <1>5, <2>2, <3>1, <3>2, <3>3, Zenon
  <2> QED BY <2>1, <2>2
<1>8. CASE len % 2 = 0
  BY <1>3, <1>6, <1>7, <1>8 DEF new
<1>9. CASE len % 2 # 0
  <2>1. /\ len = 2 * words + 1 /\ 2 * words \in Nat
    BY <1>3, <1>9
  <2>2. new = Append(SubSeq(src, 1, 2 * words), src[2 * words + 1])
    BY <1>0, <1>6, <1>7, <1>9, <2>1
  <2> QED BY <2>1, <2>2, OneMore DEF new
<1> QED BY <1>8, <1>9

\* What comes back from new is src, and behind it new is old.
Returns(new, old, src, len, N) ==
  /\ st_usbfs_copy_from_pm(new, len) = SubSeq(src, 1, len)
  /\ \A w \in 0 .. N - 1 : 2 * w >= len => new[w] = old[w]

\* Copying to packet memory and back loses no byte, and touches nothing behind
\* the packet, for every packet, length and content of the memory
\* (st_usbfs_copy_to_pm and st_usbfs_copy_from_pm, usb.c:167-249).
THEOREM PacketsSurviveCopying ==
  ASSUME NEW T, NEW src \in Seq(T), NEW len \in 0 .. Len(src),
         NEW N \in Nat, len <= 2 * N, NEW old, IsMemory(old, N)
  PROVE  Returns(st_usbfs_copy_to_pm(old, src, len), old, src, len, N)
<1> DEFINE new == st_usbfs_copy_to_pm(old, src, len)
<1>1. Holds(new, old, src, len, N)
  BY ToPmHolds
<1> HIDE DEF new
<1>2. /\ IsMemory(new, N)
      /\ \A w \in 0 .. N - 1 : new[w] =
           IF 2 * w + 1 < len THEN WordAt(src, 2 * w)
           ELSE IF 2 * w < len THEN <<src[len], 0>> ELSE old[w]
  BY <1>1, Zenon DEF Holds
<1>3. ASSUME NEW w \in Nat, 2 * w + 1 < len PROVE new[w] = WordAt(src, 2 * w)
  <2>1. w \in 0 .. N - 1
    BY <1>3
  <2> QED BY <1>2, <1>3, <2>1
<1>4. ASSUME len % 2 # 0 PROVE new[len \div 2][1] = src[len]
  <2>1. PICK w : w = len \div 2
    OBVIOUS
  <2>2. /\ w \in 0 .. N - 1 /\ ~ (2 * w + 1 < len) /\ 2 * w < len
    BY <1>4, <2>1
  <2>3. new[w] = <<src[len], 0>>
    BY <1>2, <2>2
  <2> QED BY <2>1, <2>3
<1>5. st_usbfs_copy_from_pm(new, len) = SubSeq(src, 1, len)
  BY <1>3, <1>4, FromPmHolds
<1>6. ASSUME NEW w \in 0 .. N - 1, 2 * w >= len PROVE new[w] = old[w]
  BY <1>2, <1>6
<1> QED BY <1>5, <1>6 DEF Returns, new

LEMMA CopiesDo == CopiesReturn
<1> DEFINE src == [i \in 1 .. 13 |-> i]
           old == [w \in 0 .. 7 |-> <<0, 99>>]
<1>1. PICK T : src \in Seq(T) /\ Len(src) = 13
  <2>1. src \in Seq(Nat) /\ Len(src) = 13
    OBVIOUS
  <2> HIDE DEF src
  <2> QED BY <2>1
<1>2. PICK N \in Nat : N = 8
  OBVIOUS
<1>3. 0 .. N - 1 = 0 .. 7 /\ IsMemory(old, N)
  BY <1>2 DEF IsMemory
<1> HIDE DEF src, old
<1>4. ASSUME NEW len \in 0 .. 13
      PROVE  LET new == st_usbfs_copy_to_pm(old, src, len)
             IN /\ st_usbfs_copy_from_pm(new, len) = SubSeq(src, 1, len)
                /\ \A w \in 0 .. 7 : 2 * w >= len => new[w] = old[w]
  <2> DEFINE new == st_usbfs_copy_to_pm(old, src, len)
  <2>1. len \in 0 .. Len(src) /\ len <= 2 * N
    BY <1>1, <1>2
  <2>2. Returns(new, old, src, len, N)
    BY <1>1, <1>3, <2>1, PacketsSurviveCopying
  <2> HIDE DEF new
  <2>3. /\ st_usbfs_copy_from_pm(new, len) = SubSeq(src, 1, len)
        /\ \A w \in 0 .. N - 1 : 2 * w >= len => new[w] = old[w]
    BY <2>2, Zenon DEF Returns
  <2> QED BY <1>3, <2>3 DEF new
<1> QED BY <1>4 DEF CopiesReturn, src, old

\* Whatever the length, a copy is exact (usb.c:167-249).
THEOREM CopiesExact == Spec => []CopiesAreExact
<1>1. CopiesAreExact
  BY CopiesDo DEF CopiesAreExact
<1> QED BY <1>1, PTL
=============================================================================
