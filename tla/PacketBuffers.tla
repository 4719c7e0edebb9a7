---------------------------- MODULE PacketBuffers ----------------------------
(***************************************************************************)
(* Where Core/Src/usb.c puts the buffers of endpoint 0 in packet memory,   *)
(* and what becomes of the packets in them.  The driver takes both buffers *)
(* from a pointer, usb_pm_top, that every bus reset starts afresh and a    *)
(* configuration moves on; the peripheral looks them up in the descriptors *)
(* at the start of the same memory.                                        *)
(*                                                                         *)
(* Of a byte in packet memory only its owner matters, of a packet only its *)
(* length.  What packets say is UsbControl's matter, the register that     *)
(* decides who may send is Endpoint's: here both sides move packets        *)
(* whenever a buffer is free.                                              *)
(***************************************************************************)
EXTENDS Integers

CONSTANTS
  Sizes,      \* what bMaxPacketSize0 may be
  Lens        \* the lengths of the packets that driver and host send

USBD_PM_TOP == 64         \* 0x40: behind the buffer descriptors
PMA_BYTES   == 512        \* the memory there is
DESCRIPTORS == 0 .. 7     \* those of endpoint 0

ASSUME BuffersAssumption ==
  /\ Sizes \subseteq {8, 16, 32, 64}
  /\ Lens \subseteq Nat

UInt16 == 0 .. 65535
Owners == {"free", "descriptor", "sent", "received"}

VARIABLES
  bMaxPacketSize0,
  usb_pm_top,
  btable,     \* the descriptors: where to send from and to receive to, and
              \* the room to receive as _set_ep_rx_bufsize encodes it
  pma,        \* packet memory: whose each byte is
  posted,     \* the length of the packet that waits to be sent, if any
  received,   \* the length of the packet that was received, if any
  ef,         \* whether the peripheral answers the host
  istr_reset, \* whether a bus reset is flagged
  at          \* where do_usb_poll is: "poll", or serving a reset about to set
              \* up the buffer to send from ("tx") or to receive to ("rx"), or
              \* to answer the host again ("enable")

packets == <<pma, posted, received>>
buffers == <<bMaxPacketSize0, usb_pm_top, btable, packets, ef, istr_reset, at>>

BuffersTypeOK ==
  /\ bMaxPacketSize0 \in Sizes
  /\ usb_pm_top \in UInt16
  /\ btable \in [tx : UInt16, rx : UInt16, count : UInt16]
  /\ pma \in [0 .. PMA_BYTES - 1 -> Owners]
  /\ posted \subseteq Nat /\ received \subseteq Nat
  /\ ef \in BOOLEAN /\ istr_reset \in BOOLEAN
  /\ at \in {"poll", "tx", "rx", "enable"}

\* The device is attached: no bus reset yet, and the descriptors hold nothing
\* that anyone looks at.
BuffersInit ==
  /\ bMaxPacketSize0 \in Sizes
  /\ usb_pm_top = 0
  /\ btable = [tx |-> 0, rx |-> 0, count |-> 0]
  /\ pma = [b \in 0 .. PMA_BYTES - 1 |->
              IF b \in DESCRIPTORS THEN "descriptor" ELSE "free"]
  /\ posted = {} /\ received = {}
  /\ ef = FALSE /\ istr_reset = FALSE /\ at = "poll"

-----------------------------------------------------------------------------
(***************************************************************************)
(* Bus resets.                                                             *)
(***************************************************************************)
\* The host resets the bus.  What was to be sent is not sent any more; what
\* was received stays flagged.
BusReset ==
  /\ istr_reset' = TRUE /\ ef' = FALSE
  /\ posted' = {}
  /\ UNCHANGED <<bMaxPacketSize0, usb_pm_top, btable, pma, received, at>>

\* Mutant: the pointer goes on from where it was.
BugPollReset ==
  /\ at = "poll" /\ istr_reset
  /\ istr_reset' = FALSE
  /\ at' = "tx"
  /\ UNCHANGED <<bMaxPacketSize0, usb_pm_top, btable, packets, ef>>

PollReset ==
  /\ at = "poll" /\ istr_reset
  /\ istr_reset' = FALSE
  /\ usb_pm_top' = USBD_PM_TOP
  /\ at' = "tx"
  /\ UNCHANGED <<bMaxPacketSize0, btable, packets, ef>>

Advanced == (usb_pm_top + bMaxPacketSize0) % 65536

\* _usbd_ep_setup for endpoint 0, which has both directions.
SetUpTx ==
  /\ at = "tx"
  /\ btable' = [btable EXCEPT !.tx = usb_pm_top]
  /\ usb_pm_top' = Advanced
  /\ at' = "rx"
  /\ UNCHANGED <<bMaxPacketSize0, packets, ef, istr_reset>>

\* What is stored in the 16 bits of the receive count.
_set_ep_rx_bufsize(size) ==
  IF size > 62
  THEN ((IF size % 32 # 0 THEN size - 32 ELSE size) * 2^5 + 2^15) % 65536
  ELSE ((IF size % 2 # 0 THEN size + 1 ELSE size) * 2^10) % 65536

SetUpRx ==
  /\ at = "rx"
  /\ btable' = [btable EXCEPT !.rx = usb_pm_top,
                              !.count = _set_ep_rx_bufsize(bMaxPacketSize0)]
  /\ usb_pm_top' = Advanced
  /\ at' = "enable"
  /\ UNCHANGED <<bMaxPacketSize0, packets, ef, istr_reset>>

Enable ==
  /\ at = "enable"
  /\ ef' = TRUE
  /\ at' = "poll"
  /\ UNCHANGED <<bMaxPacketSize0, usb_pm_top, btable, packets, istr_reset>>

-----------------------------------------------------------------------------
(***************************************************************************)
(* Packets.                                                                *)
(***************************************************************************)
\* The n bytes from a on are now w's, as far as there is memory.
Filled(a, n, w) == [b \in 0 .. PMA_BYTES - 1 |->
                      IF b \in a .. a + n - 1 THEN w ELSE pma[b]]

Least(m, n) == IF m < n THEN m ELSE n

\* _usbd_ep_write_packet: at most a full packet, in whole words.  A packet that
\* is written while the bus is reset is withdrawn before the host asks for it.
WritePacket(n) ==
  /\ ef /\ at = "poll" /\ posted = {} /\ n <= bMaxPacketSize0
  /\ pma' = Filled(btable.tx, 2 * ((n + 1) \div 2), "sent")
  /\ posted' = {n}
  /\ UNCHANGED <<bMaxPacketSize0, usb_pm_top, btable, received, ef, istr_reset,
                 at>>

\* The host reads the packet.
HostReads ==
  /\ ef /\ posted # {}
  /\ posted' = {}
  /\ UNCHANGED <<bMaxPacketSize0, usb_pm_top, btable, pma, received, ef,
                 istr_reset, at>>

\* The room the peripheral takes the count for: blocks of 32 bytes, less one,
\* or of 2.  Of a size over 62 that makes 32 bytes more than asked for.
Allocated(count) ==
  LET blocks == (count \div 2^10) % 2^5
  IN IF count >= 2^15 THEN 32 * (blocks + 1) ELSE 2 * blocks

\* The host sends a packet, of any length; a setup packet also withdraws what
\* was to be sent.
HostSends(n) ==
  /\ ef /\ received = {}
  /\ pma' = Filled(btable.rx, Least(n, Allocated(btable.count)), "received")
  /\ received' = {n}
  /\ posted' \in {posted, {}}
  /\ UNCHANGED <<bMaxPacketSize0, usb_pm_top, btable, ef, istr_reset, at>>

\* _usbd_ep_read_packet.  If the packet is a SET_CONFIGURATION the pointer is
\* moved behind both buffers.
ReadPacket ==
  /\ at = "poll" /\ received # {}
  /\ received' = {}
  /\ usb_pm_top' \in {usb_pm_top, USBD_PM_TOP + 2 * bMaxPacketSize0}
  /\ UNCHANGED <<bMaxPacketSize0, btable, pma, posted, ef, istr_reset, at>>

-----------------------------------------------------------------------------
BuffersNext ==
  \/ BusReset
  \/ PollReset
  \/ SetUpTx
  \/ SetUpRx
  \/ Enable
  \/ \E n \in Lens : WritePacket(n)
  \/ HostReads
  \/ \E n \in Lens : HostSends(n)
  \/ ReadPacket

BuffersSpec == BuffersInit /\ [][BuffersNext]_buffers

-----------------------------------------------------------------------------
Own(a, n, w) == \A b \in a .. a + n - 1 : b \in DOMAIN pma /\ pma[b] = w

\* Whatever bus resets and configurations come between, and whenever: the
\* packet that waits to be sent and the one that was received are still whole
\* in the buffers the peripheral has been told of, which take a full packet,
\* and neither has run into the descriptors (usb.c:462, 758-770, 781).
PacketsSurvive ==
  /\ \A b \in DESCRIPTORS : pma[b] = "descriptor"
  /\ \A n \in posted : Own(btable.tx, n, "sent")
  /\ \A n \in received : Own(btable.rx, Least(n, bMaxPacketSize0), "received")
=============================================================================
