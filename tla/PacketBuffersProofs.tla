------------------------- MODULE PacketBuffersProofs -------------------------
(***************************************************************************)
(* Packets survive in packet memory, for every size of endpoint 0 that USB *)
(* allows and packets of every length.                                     *)
(***************************************************************************)
EXTENDS PacketBuffers, TLAPS

\* The buffers lie one behind the other, from USBD_PM_TOP on.
LaidOut ==
  btable = [tx |-> USBD_PM_TOP, rx |-> USBD_PM_TOP + bMaxPacketSize0,
            count |-> _set_ep_rx_bufsize(bMaxPacketSize0)]

\* The layout is what it was while a bus reset makes it anew, and packets move
\* only in buffers that were laid out: the pointer stands at its start when a
\* bus reset is served, wherever the last one left it.
IInv ==
  /\ BuffersTypeOK
  /\ at = "tx" => usb_pm_top = USBD_PM_TOP
  /\ at = "rx" => /\ usb_pm_top = USBD_PM_TOP + bMaxPacketSize0
                  /\ btable.tx = USBD_PM_TOP
  /\ at = "enable" => LaidOut
  /\ ef \/ posted # {} \/ received # {} => LaidOut
  /\ \A n \in posted : n <= bMaxPacketSize0
  /\ PacketsSurvive

-----------------------------------------------------------------------------
\* What the receive count of each size makes of packet memory.
LEMMA Room ==
  ASSUME NEW size \in {8, 16, 32, 64}
  PROVE  /\ _set_ep_rx_bufsize(size) \in UInt16
         /\ Allocated(_set_ep_rx_bufsize(size)) \in size .. 96
<1>1. CASE size = 8
  BY <1>1 DEF _set_ep_rx_bufsize, Allocated, UInt16
<1>2. CASE size = 16
  BY <1>2 DEF _set_ep_rx_bufsize, Allocated, UInt16
<1>3. CASE size = 32
  BY <1>3 DEF _set_ep_rx_bufsize, Allocated, UInt16
<1>4. CASE size = 64
  BY <1>4 DEF _set_ep_rx_bufsize, Allocated, UInt16
<1> QED BY <1>1, <1>2, <1>3, <1>4

LEMMA SizeIs == BuffersTypeOK => bMaxPacketSize0 \in {8, 16, 32, 64}
  BY BuffersAssumption DEF BuffersTypeOK

\* A packet in a buffer that starts at a.
LEMMA FilledOwns ==
  ASSUME NEW a \in Nat, NEW n \in Nat, NEW m \in Nat, m <= n,
         a + m <= PMA_BYTES, NEW w \in Owners, pma' = Filled(a, n, w),
         DOMAIN pma = 0 .. PMA_BYTES - 1
  PROVE  /\ \A b \in a .. a + m - 1 : b \in DOMAIN pma' /\ pma'[b] = w
         /\ \A b \in DOMAIN pma : (b < a \/ b >= a + n) => pma'[b] = pma[b]
<1>1. pma' = [b \in 0 .. 511 |-> IF b \in a .. a + n - 1 THEN w ELSE pma[b]]
  BY DEF Filled, PMA_BYTES
<1>2. ASSUME NEW b \in a .. a + m - 1
      PROVE  b \in DOMAIN pma' /\ pma'[b] = w
  <2>1. b \in 0 .. 511 /\ b \in a .. a + n - 1
    BY DEF PMA_BYTES
  <2> QED BY <1>1, <2>1
<1>3. ASSUME NEW b \in DOMAIN pma, b < a \/ b >= a + n
      PROVE  pma'[b] = pma[b]
  <2>1. b \in 0 .. 511
    BY DEF PMA_BYTES
  <2>2. b \notin a .. a + n - 1
    BY <1>3, <2>1
  <2> QED BY <1>1, <2>1, <2>2
<1> QED BY <1>2, <1>3

-----------------------------------------------------------------------------
LEMMA InitIInv == BuffersInit => IInv
<1> SUFFICES ASSUME BuffersInit PROVE IInv
  OBVIOUS
<1>1. pma \in [0 .. PMA_BYTES - 1 -> Owners]
  BY DEF BuffersInit, Owners
<1>2. \A b \in DESCRIPTORS : pma[b] = "descriptor"
  BY DEF BuffersInit, DESCRIPTORS, PMA_BYTES
<1>3. BuffersTypeOK
  <2>1. 0 \in UInt16 /\ btable \in [tx : UInt16, rx : UInt16, count : UInt16]
    BY DEF UInt16, BuffersInit
  <2> QED BY <1>1, <2>1 DEF BuffersInit, BuffersTypeOK
<1> QED BY <1>2, <1>3 DEF BuffersInit, IInv, PacketsSurvive

\* A step that moves no packet, and no buffer that holds one.
LEMMA SameSurvive ==
  ASSUME PacketsSurvive, UNCHANGED packets, UNCHANGED bMaxPacketSize0,
         posted # {} \/ received # {} => UNCHANGED btable
  PROVE  PacketsSurvive'
<1>1. \A b \in DESCRIPTORS : pma'[b] = "descriptor"
  BY DEF PacketsSurvive, packets
<1>2. \A n \in posted : Own(btable.tx, n, "sent")'
  BY DEF PacketsSurvive, packets, Own
<1>3. \A n \in received :
        Own(btable.rx, Least(n, bMaxPacketSize0), "received")'
  BY DEF PacketsSurvive, packets, Own
<1> QED BY <1>1, <1>2, <1>3 DEF PacketsSurvive, packets

\* A bus reset, and the steps that serve it.
LEMMA ResetIInv ==
  ASSUME IInv, BusReset \/ PollReset \/ SetUpTx \/ SetUpRx \/ Enable
  PROVE  IInv'
<1> USE DEF USBD_PM_TOP
<1>1. CASE BusReset
  <2>1. PacketsSurvive'
    BY <1>1 DEF IInv, BusReset, PacketsSurvive, Own
  <2> QED BY <1>1, <2>1 DEF IInv, BusReset, BuffersTypeOK, LaidOut
<1>2. CASE PollReset
  <2>1. UNCHANGED packets /\ UNCHANGED <<btable, bMaxPacketSize0>>
    BY <1>2 DEF PollReset
  <2>2. PacketsSurvive'
    BY <2>1, SameSurvive DEF IInv
  <2>3. BuffersTypeOK'
    <3>1. usb_pm_top' \in UInt16
      BY <1>2 DEF UInt16, PollReset
    <3> QED BY <1>2, <2>1, <3>1 DEF IInv, PollReset, packets, BuffersTypeOK
  <2> QED BY <1>2, <2>2, <2>3 DEF IInv, PollReset, packets, LaidOut
<1>3. CASE SetUpTx
  <2>1. Advanced = 64 + bMaxPacketSize0 /\ Advanced \in UInt16
    <3>1. bMaxPacketSize0 \in {8, 16, 32, 64} /\ usb_pm_top = 64
      BY <1>3, SizeIs DEF IInv, SetUpTx
    <3>2. 64 + bMaxPacketSize0 \in 0 .. 65535
      BY <3>1
    <3>3. Advanced = 64 + bMaxPacketSize0
      BY <3>1, <3>2 DEF Advanced
    <3> QED BY <3>1, <3>3 DEF UInt16
  <2>2. btable' = [btable EXCEPT !.tx = 64] /\ UNCHANGED packets
    BY <1>3 DEF IInv, SetUpTx
  <2>3. LaidOut => btable' = btable
    BY <2>2 DEF LaidOut
  <2>4. PacketsSurvive'
    BY <1>3, <2>2, <2>3, SameSurvive DEF IInv, SetUpTx
  <2>5. BuffersTypeOK' /\ btable'.tx = 64
    <3>1. 64 \in UInt16
      BY DEF UInt16
    <3>2. /\ btable' \in [tx : UInt16, rx : UInt16, count : UInt16]
          /\ btable'.tx = 64
      BY <2>2, <3>1 DEF IInv, BuffersTypeOK
    <3> QED BY <1>3, <2>1, <2>2, <3>2 DEF IInv, SetUpTx, packets, BuffersTypeOK
  <2> QED BY <1>3, <2>1, <2>2, <2>3, <2>4, <2>5
          DEF IInv, SetUpTx, packets, LaidOut
<1>4. CASE SetUpRx
  <2>1. Advanced \in UInt16
    <3>1. bMaxPacketSize0 \in {8, 16, 32, 64}
      BY SizeIs DEF IInv
    <3>2. usb_pm_top = 64 + bMaxPacketSize0
      BY <1>4 DEF IInv, SetUpRx
    <3>3. Advanced = 64 + 2 * bMaxPacketSize0
      BY <3>1, <3>2 DEF Advanced
    <3> QED BY <3>1, <3>3 DEF UInt16
  <2>2. LaidOut'
    BY <1>4 DEF IInv, SetUpRx, LaidOut, BuffersTypeOK
  <2>3. UNCHANGED packets /\ (LaidOut => btable' = btable)
    BY <1>4, <2>2 DEF SetUpRx, LaidOut
  <2>4. btable' \in [tx : UInt16, rx : UInt16, count : UInt16]
    <3>1. _set_ep_rx_bufsize(bMaxPacketSize0) \in UInt16
      BY SizeIs, Room DEF IInv
    <3> QED BY <1>4, <3>1 DEF IInv, SetUpRx, BuffersTypeOK
  <2>5. PacketsSurvive'
    BY <1>4, <2>3, SameSurvive DEF IInv, SetUpRx
  <2> QED BY <1>4, <2>1, <2>2, <2>3, <2>4, <2>5
          DEF IInv, SetUpRx, packets, BuffersTypeOK
<1>5. CASE Enable
  <2>1. PacketsSurvive'
    BY <1>5, SameSurvive DEF IInv, Enable
  <2> QED BY <1>5, <2>1 DEF IInv, Enable, packets, BuffersTypeOK, LaidOut
<1> QED BY <1>1, <1>2, <1>3, <1>4, <1>5

LEMMA WriteIInv ==
  ASSUME IInv, NEW n \in Lens, WritePacket(n)
  PROVE  IInv'
<1> USE DEF USBD_PM_TOP
<1> DEFINE bytes == 2 * ((n + 1) \div 2)
           size  == bMaxPacketSize0
<1>1. size \in {8, 16, 32, 64} /\ LaidOut /\ n \in Nat /\ n <= size
  BY SizeIs, BuffersAssumption DEF IInv, WritePacket
<1>2. bytes \in Nat /\ n <= bytes /\ bytes <= size
  BY <1>1
<1>3. btable.tx = 64 /\ btable.rx = 64 + size /\ pma' = Filled(64, bytes, "sent")
  BY <1>1 DEF LaidOut, WritePacket
<1> HIDE DEF bytes
<1>4. /\ \A b \in 64 .. 64 + n - 1 : b \in DOMAIN pma' /\ pma'[b] = "sent"
      /\ \A b \in DOMAIN pma : (b < 64 \/ b >= 64 + bytes) => pma'[b] = pma[b]
  <2>1. 64 + n <= PMA_BYTES /\ DOMAIN pma = 0 .. PMA_BYTES - 1
    BY <1>1 DEF IInv, BuffersTypeOK, PMA_BYTES
  <2>2. "sent" \in Owners
    BY DEF Owners
  <2>3. pma' = Filled(64, bytes, "sent")
    BY <1>3
  <2> QED BY <1>1, <1>2, <2>1, <2>2, <2>3, FilledOwns
<1>5. pma' \in [0 .. PMA_BYTES - 1 -> Owners] /\ DOMAIN pma = 0 .. PMA_BYTES - 1
  BY <1>3 DEF IInv, BuffersTypeOK, Filled, Owners
<1>6. \A m \in received : m \in Nat
  BY DEF IInv, BuffersTypeOK
<1>7. PacketsSurvive'
  <2>1. \A b \in DESCRIPTORS : pma'[b] = "descriptor"
    BY <1>4, <1>5 DEF IInv, PacketsSurvive, DESCRIPTORS, PMA_BYTES
  <2>2. \A b \in 64 .. 64 + n - 1 : b \in DOMAIN pma' /\ pma'[b] = "sent"
    BY <1>4
  <2>3. ASSUME NEW m \in received,
               NEW b \in (64 + size) .. (64 + size) + Least(m, size) - 1
        PROVE  b \in DOMAIN pma' /\ pma'[b] = "received"
    <3>1. b \in DOMAIN pma /\ pma[b] = "received"
      BY <1>3 DEF IInv, PacketsSurvive, Own
    <3> QED BY <1>1, <1>2, <1>4, <1>5, <1>6, <3>1 DEF Least
  <2> QED BY <1>3, <2>1, <2>2, <2>3 DEF PacketsSurvive, Own, WritePacket
<1> QED BY <1>1, <1>5, <1>7 DEF IInv, WritePacket, BuffersTypeOK, LaidOut

LEMMA SendIInv ==
  ASSUME IInv, NEW n \in Lens, HostSends(n)
  PROVE  IInv'
<1> USE DEF USBD_PM_TOP
<1> DEFINE size  == bMaxPacketSize0
           room  == Allocated(btable.count)
           bytes == Least(n, room)
<1>1. size \in {8, 16, 32, 64} /\ LaidOut /\ n \in Nat
  BY SizeIs, BuffersAssumption DEF IInv, HostSends
<1>2. /\ btable.tx = 64 /\ btable.rx = 64 + size
      /\ pma' = Filled(64 + size, bytes, "received")
  BY <1>1 DEF LaidOut, HostSends
<1>3. room \in size .. 96
  BY <1>1, Room DEF LaidOut
<1> HIDE DEF room
<1>4. /\ bytes \in Nat /\ Least(n, size) \in Nat /\ Least(n, size) <= bytes
      /\ Least(n, size) <= size
  BY <1>1, <1>3 DEF Least
<1> HIDE DEF bytes
<1>5. /\ \A b \in (64 + size) .. (64 + size) + Least(n, size) - 1 :
           b \in DOMAIN pma' /\ pma'[b] = "received"
      /\ \A b \in DOMAIN pma : b < 64 + size => pma'[b] = pma[b]
  <2>1. /\ 64 + size \in Nat /\ (64 + size) + Least(n, size) <= PMA_BYTES
        /\ DOMAIN pma = 0 .. PMA_BYTES - 1
    BY <1>1, <1>4 DEF IInv, BuffersTypeOK, PMA_BYTES
  <2>2. /\ \A b \in 64 + size .. (64 + size) + Least(n, size) - 1 :
             b \in DOMAIN pma' /\ pma'[b] = "received"
        /\ \A b \in DOMAIN pma :
             (b < 64 + size \/ b >= 64 + size + bytes) => pma'[b] = pma[b]
    BY <1>2, <1>4, <2>1, FilledOwns DEF Owners
  <2> QED BY <2>2
<1>6. pma' \in [0 .. PMA_BYTES - 1 -> Owners] /\ DOMAIN pma = 0 .. PMA_BYTES - 1
  BY <1>2 DEF IInv, BuffersTypeOK, Filled, Owners
<1>7. PacketsSurvive'
  <2>1. \A b \in DESCRIPTORS : pma'[b] = "descriptor"
    BY <1>1, <1>5, <1>6 DEF IInv, PacketsSurvive, DESCRIPTORS, PMA_BYTES
  <2>2. ASSUME NEW m \in posted, NEW b \in 64 .. 64 + m - 1
        PROVE  b \in DOMAIN pma' /\ pma'[b] = "sent"
    <3>1. b \in DOMAIN pma /\ pma[b] = "sent"
      BY <1>2 DEF IInv, PacketsSurvive, Own
    <3>2. m \in Nat /\ m <= size
      BY DEF IInv, BuffersTypeOK
    <3> QED BY <1>1, <1>5, <1>6, <3>1, <3>2
  <2> QED BY <1>2, <1>5, <2>1, <2>2 DEF PacketsSurvive, Own, HostSends
<1> QED BY <1>1, <1>6, <1>7 DEF IInv, HostSends, BuffersTypeOK, LaidOut

LEMMA ReadIInv ==
  ASSUME IInv, HostReads \/ ReadPacket
  PROVE  IInv'
<1>1. CASE HostReads
  BY <1>1 DEF IInv, HostReads, BuffersTypeOK, LaidOut, PacketsSurvive, Own
<1>2. CASE ReadPacket
  <2>1. USBD_PM_TOP + 2 * bMaxPacketSize0 \in UInt16
    BY SizeIs DEF IInv, USBD_PM_TOP, UInt16
  <2> QED BY <1>2, <2>1
          DEF IInv, ReadPacket, BuffersTypeOK, LaidOut, PacketsSurvive, Own
<1> QED BY <1>1, <1>2

\* Packets survive bus resets, configurations and each other, because the
\* pointer is set back before each set-up of endpoint 0 (usb.c:781).
THEOREM PacketsDoSurvive == BuffersSpec => []PacketsSurvive
<1>1. IInv /\ [BuffersNext]_buffers => IInv'
  <2>1. IInv /\ UNCHANGED buffers => IInv'
    BY DEF IInv, buffers, packets, BuffersTypeOK, LaidOut, PacketsSurvive, Own
  <2> QED BY <2>1, ResetIInv, WriteIInv, SendIInv, ReadIInv DEF BuffersNext
<1>2. IInv => PacketsSurvive
  BY DEF IInv
<1> QED BY <1>1, <1>2, InitIInv, PTL DEF BuffersSpec
=============================================================================
