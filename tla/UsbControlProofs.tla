-------------------------- MODULE UsbControlProofs --------------------------
(***************************************************************************)
(* Theorems about control transfers on endpoint 0, for every packet size,  *)
(* buffer size and set of requests.                                        *)
(*                                                                         *)
(* The first half holds for a host that may overtake the driver: types and *)
(* bounds, and that a download is whole.  The second is about one that     *)
(* does not.  Then host and driver are always at one of a few places of    *)
(* the transfer together, and every step leads from one of them to the     *)
(* next; that they implement ControlTransfer follows from it.              *)
(***************************************************************************)
EXTENDS UsbControl, SequenceTheorems, TLAPS

-----------------------------------------------------------------------------
Downloading == usb_fsm_state \in {"DATA_OUT", "LAST_DATA_OUT"}

\* What is left of an answer is in the buffer, and a host that has data to
\* send has some left.
Sizes ==
  /\ usb_fsm_state = "DATA_IN" => dataoff + datasize <= DFU_TRANSFER_SIZE
  /\ host.phase = "data" =>
       /\ host.req \in Requests /\ HasData(host.req)
       /\ ~host.req.in => host.sent < host.req.wLength

\* A setup packet that waits is that of the host's transfer, which has not
\* got anywhere if it is a download, unless a bus reset came after it.
SetupPending ==
  ctr_rx /\ is_setup =>
    /\ rx.packet = <<>> /\ rx.request \in Requests
    /\ host.phase # "none" =>
         /\ host.req = rx.request
         /\ ~SetupIn(host.req) =>
              host.phase \in {"data", "failed"} /\ host.sent = 0

\* The transfer of the host, if it has one, is the driver's, and the host has
\* sent n bytes of it.
Together(n) ==
  host.phase # "none" =>
    host.req = usb_req /\ (host.phase = "data" => host.sent = n)

\* What the driver has of a download is its beginning, and a packet that waits
\* is what follows, or less.
Progress ==
  Downloading =>
    /\ usb_req \in Requests /\ ~SetupIn(usb_req)
    /\ usb_req.wLength <= DFU_TRANSFER_SIZE
    /\ datasize < usb_req.wLength
    /\ (usb_fsm_state = "DATA_OUT") <=>
         (usb_req.wLength - datasize > bMaxPacketSize0)
    /\ \A i \in 1 .. datasize : buffer[i] = <<usb_req, i>>
    /\ ~ctr_rx => Together(datasize)
    /\ ctr_rx /\ ~is_setup =>
         /\ Len(rx.packet) <= Expected
         /\ \A i \in 1 .. Len(rx.packet) :
              rx.packet[i] = <<usb_req, datasize + i>>
         /\ Together(datasize + Len(rx.packet))

IInv == TypeOK /\ Sizes /\ SetupPending /\ Progress

LEMMA Constants ==
  /\ bMaxPacketSize0 \in Nat /\ bMaxPacketSize0 > 0
  /\ DFU_TRANSFER_SIZE \in Nat /\ DFU_TRANSFER_SIZE > 0
  /\ \A r \in Requests : /\ r.what \in Kinds /\ r.in \in BOOLEAN
                         /\ r.wLength \in Nat /\ r.size \in Nat
                         /\ r.size <= DFU_TRANSFER_SIZE
  BY UsbAssumption DEF Request

LEMMA Bytes ==
  /\ Blank \in Byte
  /\ \A r \in Requests \cup {NoRequest}, n \in Nat : <<r, n>> \in Byte
  BY DEF Byte

\* The type invariant, component by component.
TypeDriver ==
  /\ usb_fsm_state \in {"IDLE", "DATA_IN", "LAST_DATA_IN", "STATUS_IN",
                        "DATA_OUT", "LAST_DATA_OUT", "STATUS_OUT"}
  /\ usb_req \in Requests \cup {NoRequest}
  /\ datasize \in Nat
  /\ usb_fsm_state # "IDLE" => datasize <= DFU_TRANSFER_SIZE
  /\ dataoff \in 0 .. DFU_TRANSFER_SIZE
  /\ usb_needs_zlp \in BOOLEAN /\ usb_force_nak \in BOOLEAN
  /\ armed \in BOOLEAN /\ calling \in BOOLEAN
  /\ buffer \in [1 .. DFU_TRANSFER_SIZE -> Byte]

TypePeripheral ==
  /\ tx \in [stat : Status, packet : Seq(Byte)]
  /\ rx \in [stat : Status, packet : Seq(Byte),
             request : Requests \cup {NoRequest}]
  /\ ctr_tx \in BOOLEAN /\ ctr_rx \in BOOLEAN
  /\ is_setup \in BOOLEAN /\ bus_reset \in BOOLEAN
  /\ daddr \in Address

TypeHost ==
  /\ host \in [phase : {"none", "data", "status", "done", "failed"},
               req : Requests \cup {NoRequest}, got : Seq(Byte),
               sent : Nat, short : BOOLEAN]
  /\ haddr \in Address /\ ran \in Nat

LEMMA Types ==
  /\ TypeOK <=> TypeDriver /\ TypePeripheral /\ TypeHost
  /\ TypeOK' <=> TypeDriver' /\ TypePeripheral' /\ TypeHost'
  BY DEF TypeOK, TypeDriver, TypePeripheral, TypeHost

LEMMA Abandoned ==
  /\ NoTransfer \in [phase : {"none", "data", "status", "done", "failed"},
                     req : Requests \cup {NoRequest}, got : Seq(Byte),
                     sent : Nat, short : BOOLEAN]
  /\ NoTransfer.phase = "none" /\ NoTransfer.req = NoRequest
  /\ NoTransfer.got = <<>> /\ NoTransfer.sent = 0
  /\ NoTransfer.short = FALSE
  BY DEF NoTransfer

LEMMA UsbInit == Init => IInv
<1> SUFFICES ASSUME Init PROVE IInv
  OBVIOUS
<1> USE DEF Init
<1>1. TypeDriver
  <2>1. buffer \in [1 .. DFU_TRANSFER_SIZE -> Byte]
    BY Bytes
  <2>2. /\ usb_fsm_state \in {"IDLE", "DATA_IN", "LAST_DATA_IN", "STATUS_IN",
                              "DATA_OUT", "LAST_DATA_OUT", "STATUS_OUT"}
        /\ usb_req \in Requests \cup {NoRequest}
    OBVIOUS
  <2>3. dataoff \in 0 .. DFU_TRANSFER_SIZE
    BY Constants
  <2> QED BY <2>1, <2>2, <2>3 DEF TypeDriver
<1>2. TypePeripheral
  <2>1. tx \in [stat : Status, packet : Seq(Byte)]
    BY DEF Status
  <2>2. rx \in [stat : Status, packet : Seq(Byte),
                request : Requests \cup {NoRequest}]
    BY DEF Status
  <2> QED BY <2>1, <2>2 DEF TypePeripheral, Address
<1>3. TypeHost
  BY Abandoned DEF TypeHost, Address
<1>4. Sizes /\ SetupPending /\ Progress
  BY Abandoned DEF Sizes, SetupPending, Progress, Downloading
<1> QED BY <1>1, <1>2, <1>3, <1>4, Types DEF IInv

-----------------------------------------------------------------------------
(***************************************************************************)
(* Steps of the host.                                                      *)
(***************************************************************************)
LEMMA HostSetupKeeps == ASSUME IInv, NEW r \in Requests, HostSetup(r)
                        PROVE  IInv'
<1> USE DEF IInv, HostSetup, driver
<1>0. TypeDriver /\ TypePeripheral /\ TypeHost
  BY Types
<1>1. TypeDriver'
  BY <1>0 DEF TypeDriver
<1>2. TypePeripheral'
  BY <1>0 DEF TypePeripheral, Status
<1>3. TypeHost'
  BY <1>0, Abandoned DEF TypeHost
<1>4. Sizes'
  BY Constants, Abandoned DEF Sizes, HasData
<1>5. SetupPending'
  BY Abandoned DEF SetupPending, SetupIn
<1>6. Progress'
  BY DEF Progress, Downloading
<1> QED BY <1>1, <1>2, <1>3, <1>4, <1>5, <1>6, Types

LEMMA HostReadsKeeps == ASSUME IInv, HostReads PROVE IInv'
<1> USE DEF IInv, HostReads, driver
<1>0. TypeDriver /\ TypePeripheral /\ TypeHost
  BY Types
<1>1. TypeDriver'
  BY <1>0 DEF TypeDriver
<1>2. TypePeripheral'
  BY <1>0 DEF TypePeripheral, Status
<1>3. TypeHost'
  <2>1. host.got \o tx.packet \in Seq(Byte)
    BY <1>0 DEF TypeHost, TypePeripheral
  <2> QED BY <1>0, <2>1 DEF TypeHost
<1>4. Sizes'
  BY <1>0, Constants DEF Sizes, HasData, TypeHost
<1>5. SetupPending'
  BY <1>0 DEF SetupPending, SetupIn, TypeHost
<1>6. Progress'
  BY <1>0 DEF Progress, Downloading, Together, Expected, TypeHost, SetupIn
<1> QED BY <1>1, <1>2, <1>3, <1>4, <1>5, <1>6, Types

\* The length of the packet the host sends next.
LEMMA PacketLength ==
  ASSUME IInv, NEW short \in BOOLEAN, HostSends(short),
         NEW left, left = host.req.wLength - host.sent,
         NEW len, len = Least(left, bMaxPacketSize0)
                          - (IF short THEN 1 ELSE 0)
  PROVE  /\ host.req \in Requests /\ host.sent \in Nat
         /\ left \in Nat /\ left > 0
         /\ len \in Nat /\ len <= left /\ len <= bMaxPacketSize0
  BY Constants DEF IInv, HostSends, Sizes, TypeOK, Least, HasData

LEMMA HostSendsKeeps ==
  ASSUME IInv, NEW short \in BOOLEAN, HostSends(short) PROVE IInv'
<1> DEFINE left == host.req.wLength - host.sent
           len  == Least(left, bMaxPacketSize0) - (IF short THEN 1 ELSE 0)
<1>1. /\ host.req \in Requests /\ host.sent \in Nat
      /\ left \in Nat /\ left > 0
      /\ len \in Nat /\ len <= left /\ len <= bMaxPacketSize0
  BY PacketLength
<1>2. /\ host.phase = "data" /\ ~host.req.in /\ ~ctr_rx
      /\ rx' = [stat |-> "nak", request |-> NoRequest,
                packet |-> [i \in 1 .. len |-> <<host.req, host.sent + i>>]]
      /\ host' = [host EXCEPT !.sent = @ + len, !.short = short,
                    !.phase = IF short \/ len = left THEN "status" ELSE @]
      /\ ctr_rx' = TRUE /\ is_setup' = FALSE
      /\ UNCHANGED <<driver, tx, ctr_tx, bus_reset, daddr, haddr, ran>>
  BY DEF HostSends
<1> HIDE DEF len
<1>3. [i \in 1 .. len |-> <<host.req, host.sent + i>>] \in Seq(Byte)
  BY <1>1, Bytes
<1>4. TypeOK'
  <2>0. TypeDriver /\ TypePeripheral /\ TypeHost
    BY Types DEF IInv
  <2>1. TypeDriver'
    BY <1>2, <2>0 DEF TypeDriver, driver
  <2>2. TypePeripheral'
    BY <1>2, <1>3, <2>0 DEF TypePeripheral, Status
  <2>3. TypeHost'
    <3>1. host.sent + len \in Nat
      BY <1>1
    <3>2. host' = [host EXCEPT !.sent = host.sent + len, !.short = short,
                     !.phase = IF short \/ len = left THEN "status"
                               ELSE host.phase]
      BY <1>2
    <3> QED BY <1>2, <2>0, <3>1, <3>2 DEF TypeHost
  <2> QED BY <2>1, <2>2, <2>3, Types
<1>5. Sizes'
  BY <1>1, <1>2, Constants DEF IInv, Sizes, HasData, TypeOK, driver
<1>6. SetupPending'
  BY <1>2 DEF SetupPending
<1>7. Progress'
  <2>1. Len([i \in 1 .. len |-> <<host.req, host.sent + i>>]) = len
    BY <1>1
  <2>2. CASE ~Downloading
    BY <2>2, <1>2 DEF Progress, Downloading, driver
  <2>3. CASE Downloading
    <3>1. /\ host.req = usb_req /\ host.sent = datasize
          /\ usb_req' = usb_req /\ datasize' = datasize /\ buffer' = buffer
          /\ usb_fsm_state' = usb_fsm_state
      BY <1>2, <2>3 DEF IInv, Progress, Together, driver
    <3>2. len <= Expected'
      BY <1>1, <3>1, Constants DEF len, Expected, Least
    <3>3. Len(rx'.packet) = len /\ datasize' + Len(rx'.packet) = datasize + len
      BY <1>2, <2>1, <3>1
    <3>4. Together(datasize + Len(rx.packet))'
      BY <1>1, <1>2, <3>1, <3>3 DEF Together, IInv, TypeOK
    <3>5. \A i \in 1 .. len : rx'.packet[i] = <<usb_req, datasize + i>>
      BY <1>2, <3>1
    <3>6. \A i \in 1 .. datasize : buffer[i] = <<usb_req, i>>
      BY <2>3 DEF IInv, Progress
    <3> QED BY <1>1, <1>2, <2>3, <3>1, <3>2, <3>3, <3>4, <3>5, <3>6
            DEF IInv, Progress, Downloading
  <2> QED BY <2>2, <2>3
<1> QED BY <1>4, <1>5, <1>6, <1>7 DEF IInv

LEMMA HostStatusKeeps ==
  ASSUME IInv, HostStatusIn \/ HostStatusOut \/ HostStalled PROVE IInv'
<1> USE DEF IInv, HostStatusIn, HostStatusOut, HostStalled, driver, peripheral
<1>0. TypeDriver /\ TypePeripheral /\ TypeHost
  BY Types
<1>1. TypeDriver'
  BY <1>0 DEF TypeDriver
<1>2. TypePeripheral'
  <2>1. CASE HostStatusIn
    BY <1>0, <2>1 DEF TypePeripheral, Status
  <2>2. CASE HostStatusOut
    <3>1. [stat |-> "nak", packet |-> <<>>, request |-> NoRequest]
            \in [stat : Status, packet : Seq(Byte),
                 request : Requests \cup {NoRequest}]
      BY DEF Status
    <3> QED BY <1>0, <2>2, <3>1 DEF TypePeripheral
  <2>3. CASE HostStalled
    BY <1>0, <2>3 DEF TypePeripheral, Status
  <2> QED BY <2>1, <2>2, <2>3
<1>3. TypeHost'
  BY <1>0 DEF TypeHost, Address
<1>4. Sizes'
  BY <1>0 DEF Sizes, TypeHost
<1>5. SetupPending'
  BY <1>0 DEF SetupPending, TypeHost, SetupIn, StatusByIn
<1>6. Progress'
  BY <1>0 DEF Progress, Downloading, Together, Expected, TypeHost, SetupIn,
              StatusByIn
<1> QED BY <1>1, <1>2, <1>3, <1>4, <1>5, <1>6, Types

LEMMA BusResetKeeps == ASSUME IInv, BusReset PROVE IInv'
<1> USE DEF IInv, BusReset, driver
<1>0. TypeDriver /\ TypePeripheral /\ TypeHost
  BY Types
<1>1. TypeDriver'
  BY <1>0 DEF TypeDriver
<1>2. TypePeripheral'
  BY <1>0 DEF TypePeripheral, Status, Address
<1>3. TypeHost'
  BY Abandoned DEF TypeHost, Address
<1>4. Sizes'
  BY Abandoned DEF Sizes
<1>5. is_setup' => is_setup
  OBVIOUS
<1>6. /\ host'.phase = "none" /\ ctr_rx' = ctr_rx
      /\ rx'.packet = rx.packet /\ rx'.request = rx.request
  BY <1>0, Abandoned DEF TypePeripheral
<1>7. SetupPending'
  BY <1>5, <1>6 DEF SetupPending
<1>8. Progress'
  <2>1. CASE ~Downloading
    BY <2>1 DEF Progress, Downloading
  <2>2. CASE Downloading
    <3>1. Together(datasize)' /\ Together(datasize + Len(rx.packet))'
      BY <1>6 DEF Together
    <3>2. ctr_rx' /\ ~is_setup' =>
            /\ Len(rx.packet) <= Expected
            /\ \A i \in 1 .. Len(rx.packet) :
                 rx.packet[i] = <<usb_req, datasize + i>>
      <4>1. CASE is_setup
        <5>1. Expected \in Nat
          BY <1>0, <2>2, Constants DEF Progress, Expected, Least, TypeDriver
        <5> QED BY <1>6, <4>1, <5>1 DEF SetupPending
      <4>2. CASE ~is_setup
        BY <1>6, <2>2, <4>2 DEF Progress
      <4> QED BY <4>1, <4>2
    <3> QED BY <1>6, <2>2, <3>1, <3>2 DEF Progress, Downloading, Expected
  <2> QED BY <2>1, <2>2
<1> QED BY <1>1, <1>2, <1>3, <1>4, <1>7, <1>8, Types

-----------------------------------------------------------------------------
(***************************************************************************)
(* Steps of the driver.                                                    *)
(***************************************************************************)
\* What _usbd_ep_write_packet may leave.
LEMMA WrittenType ==
  ASSUME NEW t \in [stat : Status, packet : Seq(Byte)], NEW q \in Seq(Byte)
  PROVE  Written(t, q) \in [stat : Status, packet : Seq(Byte)]
  BY DEF Written, Status

\* A chunk is taken from within the buffer.
LEMMA SendChunkType ==
  ASSUME NEW buf \in [1 .. DFU_TRANSFER_SIZE -> Byte],
         NEW off \in Nat, NEW size \in Nat, off + size <= DFU_TRANSFER_SIZE,
         NEW zlp \in BOOLEAN, SendChunk(buf, off, size, zlp),
         tx \in [stat : Status, packet : Seq(Byte)]
  PROVE  /\ tx' \in [stat : Status, packet : Seq(Byte)]
         /\ usb_fsm_state' \in {"DATA_IN", "LAST_DATA_IN"}
         /\ dataoff' \in 0 .. DFU_TRANSFER_SIZE
         /\ datasize' \in Nat /\ datasize' <= DFU_TRANSFER_SIZE
         /\ dataoff' + datasize' <= DFU_TRANSFER_SIZE
         /\ usb_needs_zlp' \in BOOLEAN
<1> DEFINE len == Least(size, bMaxPacketSize0)
<1>1. /\ len \in Nat /\ len <= size
      /\ bMaxPacketSize0 < size => len = bMaxPacketSize0
      /\ ~(bMaxPacketSize0 < size) => len = size
  BY Constants DEF Least
<1> HIDE DEF len
<1>2. /\ tx' = Written(tx, SubSeq(buf, off + 1, off + len))
      /\ usb_fsm_state' = IF bMaxPacketSize0 < size \/ zlp THEN "DATA_IN"
                          ELSE "LAST_DATA_IN"
      /\ dataoff' = IF bMaxPacketSize0 < size THEN off + len ELSE off
      /\ datasize' = size - len
      /\ usb_needs_zlp' = (bMaxPacketSize0 < size /\ zlp)
  BY DEF SendChunk, len
<1>3. SubSeq(buf, off + 1, off + len) \in Seq(Byte)
  <2>1. buf \in Seq(Byte) /\ Len(buf) = DFU_TRANSFER_SIZE
    BY Constants
  <2> QED BY <1>1, <2>1, Constants
<1>4. tx' \in [stat : Status, packet : Seq(Byte)]
  BY <1>2, <1>3, WrittenType
<1>5. /\ usb_needs_zlp' \in BOOLEAN
      /\ usb_fsm_state' \in {"DATA_IN", "LAST_DATA_IN"}
  BY <1>2
<1>6. /\ dataoff' \in 0 .. DFU_TRANSFER_SIZE
      /\ datasize' \in Nat /\ datasize' <= DFU_TRANSFER_SIZE
      /\ dataoff' + datasize' <= DFU_TRANSFER_SIZE
  BY <1>1, <1>2, Constants
<1> QED BY <1>4, <1>5, <1>6

\* What a stall of endpoint 0 leaves, whatever it interrupts.
LEMMA StallType ==
  ASSUME TypePeripheral, Stall
  PROVE  /\ tx' \in [stat : Status, packet : Seq(Byte)]
         /\ rx' \in [stat : Status, packet : Seq(Byte),
                     request : Requests \cup {NoRequest}]
         /\ usb_fsm_state' = "IDLE"
  BY DEF TypePeripheral, Stall, Status

LEMMA PreparedType ==
  ASSUME NEW r \in Requests, TypeDriver
  PROVE  Prepared(r) \in [1 .. DFU_TRANSFER_SIZE -> Byte]
<1>1. CASE Supported(r)
  <2>1. \A i \in 1 .. DFU_TRANSFER_SIZE :
          (IF i <= r.size THEN <<r, i>> ELSE buffer[i]) \in Byte
    BY Bytes DEF TypeDriver
  <2> QED BY <1>1, <2>1 DEF Prepared
<1>2. CASE ~Supported(r)
  BY <1>2 DEF Prepared, TypeDriver
<1> QED BY <1>1, <1>2

LEMMA ResetKeeps == ASSUME IInv, Reset PROVE IInv'
<1> USE DEF IInv, Reset, driver
<1>0. TypeDriver /\ TypePeripheral /\ TypeHost
  BY Types
<1>1. TypeDriver'
  BY <1>0 DEF TypeDriver
<1>2. TypePeripheral'
  BY <1>0 DEF TypePeripheral, Status, Address
<1>3. TypeHost'
  BY <1>0 DEF TypeHost
<1>4. Sizes'
  BY DEF Sizes
<1>5. rx'.packet = rx.packet /\ rx'.request = rx.request
  BY <1>0 DEF TypePeripheral
<1>6. SetupPending'
  BY <1>5 DEF SetupPending
<1>7. Progress'
  BY <1>5 DEF Progress, Downloading, Together, Expected
<1> QED BY <1>1, <1>2, <1>3, <1>4, <1>6, <1>7, Types

LEMMA CallbackReturnsKeeps == ASSUME IInv, CallbackReturns PROVE IInv'
<1> USE DEF IInv, CallbackReturns, peripheral
<1>0. TypeDriver /\ TypePeripheral /\ TypeHost
  BY Types
<1>1. TypeDriver'
  BY <1>0 DEF TypeDriver
<1>2. TypePeripheral'
  BY <1>0 DEF TypePeripheral
<1>3. TypeHost'
  BY <1>0 DEF TypeHost
<1>4. Sizes' /\ SetupPending' /\ Progress'
  BY DEF Sizes, SetupPending, Progress, Downloading, Together, Expected
<1> QED BY <1>1, <1>2, <1>3, <1>4, Types

\* The four answers to a setup packet.
LEMMA RefusedKeeps == ASSUME IInv, NEW r \in Requests, Refused(r) PROVE IInv'
<1> USE DEF IInv, Refused, SetupRead
<1>0. TypeDriver /\ TypePeripheral /\ TypeHost
  BY Types
<1>1. usb_fsm_state' = "IDLE" /\ TypePeripheral'
  BY <1>0, StallType DEF TypePeripheral
<1>2. datasize' \in Nat /\ dataoff' \in 0 .. DFU_TRANSFER_SIZE
  BY <1>0, Constants DEF TypeDriver
<1>3. TypeDriver'
  BY <1>0, <1>1, <1>2 DEF TypeDriver
<1>4. TypeHost'
  BY <1>0 DEF TypeHost
<1>5. Sizes' /\ SetupPending' /\ Progress'
  BY <1>1 DEF Sizes, SetupPending, Progress, Downloading
<1> QED BY <1>1, <1>3, <1>4, <1>5, Types

LEMMA AnsweredKeeps == ASSUME IInv, NEW r \in Requests, Answered(r) PROVE IInv'
<1> DEFINE zlp == needs_zlp(AnswerSize(r), r.wLength)
<1> USE DEF IInv
<1>0. TypeDriver /\ TypePeripheral /\ TypeHost
  BY Types
<1>1. /\ armed' = Callback(r) /\ usb_force_nak' = TRUE /\ usb_req' = r
      /\ ctr_rx' = FALSE /\ rx' = [rx EXCEPT !.stat = "nak"]
      /\ buffer' = Prepared(r)
      /\ SendChunk(buffer', 0, AnswerSize(r), zlp)
      /\ UNCHANGED <<calling, ctr_tx, is_setup, bus_reset, daddr, host, haddr,
                     ran>>
  BY DEF Answered, SetupRead
<1>2. buffer' \in [1 .. DFU_TRANSFER_SIZE -> Byte]
  BY <1>0, <1>1, PreparedType
<1>3. AnswerSize(r) \in Nat /\ 0 + AnswerSize(r) <= DFU_TRANSFER_SIZE
  BY Constants DEF AnswerSize, Least
<1>4. zlp \in BOOLEAN
  BY DEF needs_zlp
<1> HIDE DEF zlp
<1>5. /\ tx' \in [stat : Status, packet : Seq(Byte)]
      /\ usb_fsm_state' \in {"DATA_IN", "LAST_DATA_IN"}
      /\ dataoff' \in 0 .. DFU_TRANSFER_SIZE
      /\ datasize' \in Nat /\ datasize' <= DFU_TRANSFER_SIZE
      /\ dataoff' + datasize' <= DFU_TRANSFER_SIZE
      /\ usb_needs_zlp' \in BOOLEAN
  <2>1. tx \in [stat : Status, packet : Seq(Byte)]
    BY <1>0 DEF TypePeripheral
  <2>2. 0 \in Nat
    OBVIOUS
  <2> QED BY <1>1, <1>2, <1>3, <1>4, <2>1, <2>2, SendChunkType
<1>6. TypeDriver'
  <2>1. armed' \in BOOLEAN
    BY <1>1 DEF Callback
  <2> QED BY <1>0, <1>1, <1>2, <1>5, <2>1 DEF TypeDriver
<1>7. TypePeripheral'
  BY <1>0, <1>1, <1>5 DEF TypePeripheral, Status
<1>8. TypeHost'
  BY <1>0, <1>1 DEF TypeHost
<1>9. Sizes' /\ SetupPending' /\ Progress'
  BY <1>1, <1>5 DEF Sizes, SetupPending, Progress, Downloading
<1> QED BY <1>6, <1>7, <1>8, <1>9, Types

LEMMA DoneKeeps == ASSUME IInv, NEW r \in Requests, Done(r) PROVE IInv'
<1> USE DEF IInv
<1>0. TypeDriver /\ TypePeripheral /\ TypeHost
  BY Types
<1>1. /\ armed' = Callback(r) /\ usb_force_nak' = TRUE /\ usb_req' = r
      /\ ctr_rx' = FALSE /\ buffer' = Prepared(r)
      /\ dataoff' = 0 /\ datasize' = 0 /\ usb_fsm_state' = "STATUS_IN"
      /\ UNCHANGED <<usb_needs_zlp, calling, ctr_tx, is_setup, bus_reset,
                     daddr, host, haddr, ran>>
  BY DEF Done, SetupRead
<1>2. buffer' \in [1 .. DFU_TRANSFER_SIZE -> Byte]
  BY <1>0, <1>1, PreparedType
<1>3. TypeDriver'
  <2>1. armed' \in BOOLEAN
    BY <1>1 DEF Callback
  <2> QED BY <1>0, <1>1, <1>2, <2>1, Constants DEF TypeDriver
<1>4. tx' \in [stat : Status, packet : Seq(Byte)]
  <2>1. [tx EXCEPT !.stat = "nak"] \in [stat : Status, packet : Seq(Byte)]
    BY <1>0 DEF TypePeripheral, Status
  <2>2. <<>> \in Seq(Byte)
    OBVIOUS
  <2>3. tx \in [stat : Status, packet : Seq(Byte)]
    BY <1>0 DEF TypePeripheral
  <2> QED BY <2>1, <2>2, <2>3, WrittenType DEF Done
<1>5. rx' \in [stat : Status, packet : Seq(Byte),
               request : Requests \cup {NoRequest}]
  <2>1. PICK s \in Status : rx' = [rx EXCEPT !.stat = s]
    <3>1. {"stall", "valid", "nak"} \subseteq Status
      BY DEF Status
    <3> QED BY <3>1 DEF Done
  <2> QED BY <1>0, <2>1 DEF TypePeripheral
<1>6. TypePeripheral'
  BY <1>0, <1>1, <1>4, <1>5 DEF TypePeripheral
<1>7. TypeHost'
  BY <1>0, <1>1 DEF TypeHost
<1>8. Sizes' /\ SetupPending' /\ Progress'
  BY <1>1 DEF Sizes, SetupPending, Progress, Downloading
<1> QED BY <1>3, <1>6, <1>7, <1>8, Types

LEMMA SetupOutKeeps == ASSUME IInv, NEW r \in Requests, SetupOut(r) PROVE IInv'
<1> USE DEF IInv
<1>0. TypeDriver /\ TypePeripheral /\ TypeHost
  BY Types
<1>1. /\ Received /\ is_setup /\ rx.request = r /\ ~SetupIn(r)
      /\ usb_req' = r /\ ctr_rx' = FALSE /\ armed' = FALSE
      /\ UNCHANGED <<dataoff, usb_needs_zlp, buffer, calling, ctr_tx, is_setup,
                     bus_reset, daddr, host, haddr, ran>>
  BY DEF SetupOut, SetupRead
<1>2. TypeHost'
  BY <1>0, <1>1 DEF TypeHost
<1>3. CASE r.wLength > DFU_TRANSFER_SIZE
  <2>1. Stall /\ usb_force_nak' = TRUE /\ datasize' = datasize
    BY <1>3 DEF SetupOut
  <2>2. usb_fsm_state' = "IDLE" /\ TypePeripheral'
    BY <1>0, <1>1, <2>1, StallType DEF TypePeripheral
  <2>3. TypeDriver'
    BY <1>0, <1>1, <2>1, <2>2 DEF TypeDriver
  <2>4. Sizes' /\ SetupPending' /\ Progress'
    BY <1>1, <2>2 DEF Sizes, SetupPending, Progress, Downloading
  <2> QED BY <1>2, <2>2, <2>3, <2>4, Types
<1>4. CASE ~(r.wLength > DFU_TRANSFER_SIZE)
  <2>1. /\ usb_fsm_state' = IF r.wLength > bMaxPacketSize0
                            THEN "DATA_OUT" ELSE "LAST_DATA_OUT"
        /\ usb_force_nak' = FALSE /\ datasize' = 0
        /\ rx' = [rx EXCEPT !.stat = "valid"] /\ UNCHANGED tx
    BY <1>4 DEF SetupOut
  <2>2. TypePeripheral'
    BY <1>0, <1>1, <2>1 DEF TypePeripheral, Status
  <2>3. TypeDriver'
    <3>1. /\ usb_fsm_state' \in {"DATA_OUT", "LAST_DATA_OUT"}
          /\ datasize' \in Nat /\ datasize' <= DFU_TRANSFER_SIZE
      BY <2>1, Constants
    <3> QED BY <1>0, <1>1, <2>1, <3>1 DEF TypeDriver
  <2>4. Sizes' /\ SetupPending'
    BY <1>1, <2>1 DEF Sizes, SetupPending
  <2>5. Together(0)'
    BY <1>1 DEF Together, SetupPending, Received
  <2>6. Progress'
    BY <1>1, <1>4, <2>1, <2>5, Constants
       DEF Progress, Downloading, SetupIn, HasData
  <2> QED BY <1>2, <2>2, <2>3, <2>4, <2>6, Types
<1> QED BY <1>3, <1>4

LEMMA DataOutFailsKeeps == ASSUME IInv, DataOutFails PROVE IInv'
<1> USE DEF IInv, DataOutFails
<1>0. TypeDriver /\ TypePeripheral /\ TypeHost
  BY Types
<1>1. /\ ctr_rx' \in BOOLEAN /\ ~is_setup'
      /\ UNCHANGED <<ctr_tx, is_setup, bus_reset, daddr>>
  BY DEF Read, ReceivedOut
<1>2. usb_fsm_state' = "IDLE" /\ TypePeripheral'
  BY <1>0, <1>1, StallType DEF TypePeripheral
<1>3. TypeDriver'
  BY <1>0, <1>2 DEF TypeDriver
<1>4. TypeHost'
  BY <1>0 DEF TypeHost
<1>5. Sizes' /\ SetupPending' /\ Progress'
  BY <1>1, <1>2 DEF Sizes, SetupPending, Progress, Downloading
<1> QED BY <1>2, <1>3, <1>4, <1>5, Types

\* A packet that fits is exactly what the driver expects, and continues what
\* it has of the download.
LEMMA ChunkReceived ==
  ASSUME IInv, ReceivedOut, Downloading, RecvChunk
  PROVE  /\ ctr_rx' = FALSE
         /\ Expected \in Nat /\ Expected > 0 /\ Expected <= bMaxPacketSize0
         /\ Expected <= usb_req.wLength - datasize
         /\ Len(rx.packet) = Expected
         /\ datasize' = datasize + Expected /\ datasize' \in Nat
         /\ datasize' <= usb_req.wLength
         /\ buffer' \in [1 .. DFU_TRANSFER_SIZE -> Byte]
         /\ \A i \in 1 .. datasize' : buffer'[i] = <<usb_req, i>>
         /\ Together(datasize')
<1>0. TypeDriver /\ TypePeripheral /\ TypeHost
  BY Types DEF IInv
<1>1. /\ usb_req \in Requests /\ usb_req.wLength <= DFU_TRANSFER_SIZE
      /\ datasize < usb_req.wLength /\ datasize \in Nat
      /\ \A i \in 1 .. datasize : buffer[i] = <<usb_req, i>>
      /\ Len(rx.packet) <= Expected
      /\ \A i \in 1 .. Len(rx.packet) :
           rx.packet[i] = <<usb_req, datasize + i>>
      /\ Together(datasize + Len(rx.packet))
  BY <1>0 DEF IInv, Progress, ReceivedOut, Received, TypeDriver
<1>2. /\ ctr_rx' = FALSE /\ Len(rx.packet) >= Expected
      /\ datasize' = datasize + Expected
      /\ buffer' = [i \in DOMAIN buffer |->
                      IF i \in datasize + 1 .. datasize + Expected
                      THEN rx.packet[i - datasize] ELSE buffer[i]]
  BY DEF RecvChunk, ChunkFits, Read
<1>3. /\ Expected \in Nat /\ Expected > 0 /\ Expected <= bMaxPacketSize0
      /\ Expected <= usb_req.wLength - datasize
  BY <1>1, Constants DEF Expected, Least
<1>4. Len(rx.packet) \in Nat
  BY <1>0 DEF TypePeripheral
<1>5. Len(rx.packet) = Expected
  BY <1>1, <1>2, <1>3, <1>4
<1> HIDE DEF Expected
<1>6. \A i \in 1 .. Expected : rx.packet[i] = <<usb_req, datasize + i>>
  BY <1>1, <1>5
<1>7. \A i \in datasize + 1 .. datasize + Expected :
        rx.packet[i - datasize] = <<usb_req, i>>
  <2> SUFFICES ASSUME NEW i \in datasize + 1 .. datasize + Expected
               PROVE  rx.packet[i - datasize] = <<usb_req, i>>
    OBVIOUS
  <2>1. i - datasize \in 1 .. Expected /\ datasize + (i - datasize) = i
    BY <1>1, <1>3
  <2> QED BY <1>6, <2>1
<1>8. DOMAIN buffer = 1 .. DFU_TRANSFER_SIZE
  BY <1>0 DEF TypeDriver
<1>9. buffer' \in [1 .. DFU_TRANSFER_SIZE -> Byte]
  <2>1. \A i \in datasize + 1 .. datasize + Expected :
          rx.packet[i - datasize] \in Byte
    <3>1. \A i \in datasize + 1 .. datasize + Expected : i \in Nat
      BY <1>1, <1>3
    <3>2. \A i \in Nat : <<usb_req, i>> \in Byte
      BY <1>1, Bytes
    <3> QED BY <1>7, <3>1, <3>2
  <2>2. \A i \in 1 .. DFU_TRANSFER_SIZE : buffer[i] \in Byte
    BY <1>0 DEF TypeDriver
  <2> QED BY <1>2, <1>8, <2>1, <2>2
<1>10. \A i \in 1 .. datasize + Expected : buffer'[i] = <<usb_req, i>>
  <2> SUFFICES ASSUME NEW i \in 1 .. datasize + Expected
               PROVE  buffer'[i] = <<usb_req, i>>
    OBVIOUS
  <2>1. i \in DOMAIN buffer
    BY <1>1, <1>3, <1>8, Constants
  <2>2. \/ i \in 1 .. datasize /\ i \notin datasize + 1 .. datasize + Expected
        \/ i \in datasize + 1 .. datasize + Expected
    BY <1>1, <1>3
  <2> QED BY <1>1, <1>2, <1>7, <2>1, <2>2
<1>11. datasize' \in Nat /\ datasize' <= usb_req.wLength
  BY <1>1, <1>2, <1>3, Constants
<1> QED BY <1>1, <1>2, <1>3, <1>5, <1>9, <1>10, <1>11

\* The receiver stays closed or opens, the packet is kept.
LEMMA ReopenedType ==
  ASSUME TypePeripheral
  PROVE  Reopened \in [stat : Status, packet : Seq(Byte),
                       request : Requests \cup {NoRequest}]
<1>1. PICK s \in Status : Reopened = [rx EXCEPT !.stat = s]
  BY DEF Reopened, Status, TypePeripheral
<1> QED BY <1>1 DEF TypePeripheral

LEMMA DataOutKeeps == ASSUME IInv, DataOut PROVE IInv'
<1>0. TypeDriver /\ TypePeripheral /\ TypeHost
  BY Types DEF IInv
<1>1. /\ ReceivedOut /\ usb_fsm_state = "DATA_OUT" /\ RecvChunk
      /\ usb_fsm_state' = IF usb_req.wLength - datasize' <= bMaxPacketSize0
                          THEN "LAST_DATA_OUT" ELSE "DATA_OUT"
      /\ rx' = Reopened
      /\ UNCHANGED <<usb_req, dataoff, usb_needs_zlp, usb_force_nak, armed,
                     calling, tx, ctr_tx, is_setup, bus_reset, daddr, host,
                     haddr, ran>>
  BY DEF DataOut
<1>2. Downloading
  BY <1>1 DEF Downloading
<1>3. /\ usb_req \in Requests /\ ~SetupIn(usb_req)
      /\ usb_req.wLength <= DFU_TRANSFER_SIZE
      /\ usb_req.wLength - datasize > bMaxPacketSize0
      /\ usb_req.wLength \in Nat /\ datasize \in Nat
  BY <1>0, <1>1, <1>2, Constants DEF IInv, Progress, TypeDriver
<1>4. /\ ctr_rx' = FALSE
      /\ Expected <= bMaxPacketSize0 /\ Expected \in Nat
      /\ datasize' = datasize + Expected /\ datasize' \in Nat
      /\ datasize' <= usb_req.wLength
      /\ buffer' \in [1 .. DFU_TRANSFER_SIZE -> Byte]
      /\ \A i \in 1 .. datasize' : buffer'[i] = <<usb_req, i>>
      /\ Together(datasize')
  BY <1>1, <1>2, ChunkReceived
<1>5. datasize' < usb_req.wLength
  BY <1>3, <1>4, Constants
<1>6. TypeDriver'
  BY <1>0, <1>1, <1>3, <1>4, <1>5, Constants DEF TypeDriver
<1>7. TypePeripheral'
  BY <1>0, <1>1, <1>4, ReopenedType DEF TypePeripheral
<1>8. TypeHost'
  BY <1>0, <1>1 DEF TypeHost
<1>9. Sizes' /\ SetupPending'
  BY <1>1, <1>4 DEF IInv, Sizes, SetupPending
<1>10. Together(datasize)'
  BY <1>1, <1>4 DEF Together
<1>11. Progress'
  <2>1. (usb_fsm_state' = "DATA_OUT") <=>
          (usb_req.wLength - datasize' > bMaxPacketSize0)
    BY <1>1, <1>3, <1>4, Constants
  <2>2. usb_req' = usb_req /\ ~ctr_rx'
    BY <1>1, <1>4
  <2> QED BY <1>3, <1>4, <1>5, <1>10, <2>1, <2>2 DEF Progress, Downloading
<1> QED BY <1>6, <1>7, <1>8, <1>9, <1>11, Types DEF IInv

LEMMA LastDataOutKeeps == ASSUME IInv, LastDataOut PROVE IInv'
<1>0. TypeDriver /\ TypePeripheral /\ TypeHost
  BY Types DEF IInv
<1>1. /\ ReceivedOut /\ usb_fsm_state = "LAST_DATA_OUT" /\ RecvChunk
      /\ IF Supported(usb_req)
         THEN /\ tx' = Written(tx, <<>>) /\ rx' = Reopened
              /\ usb_fsm_state' = "STATUS_IN"
              /\ armed' = (armed \/ Callback(usb_req))
         ELSE Stall /\ UNCHANGED armed
      /\ UNCHANGED <<usb_req, dataoff, usb_needs_zlp, usb_force_nak, calling,
                     ctr_tx, is_setup, bus_reset, daddr, host, haddr, ran>>
  BY DEF LastDataOut
<1>2. Downloading
  BY <1>1 DEF Downloading
<1>3. usb_req.wLength <= DFU_TRANSFER_SIZE /\ usb_req.wLength \in Nat
  BY <1>2, Constants DEF IInv, Progress
<1>4. /\ ctr_rx' = FALSE
      /\ datasize' \in Nat /\ datasize' <= usb_req.wLength
      /\ buffer' \in [1 .. DFU_TRANSFER_SIZE -> Byte]
  BY <1>1, <1>2, ChunkReceived
<1>5. usb_fsm_state' \in {"STATUS_IN", "IDLE"} /\ armed' \in BOOLEAN
  BY <1>0, <1>1 DEF Stall, TypeDriver, Callback
<1>6. TypeDriver'
  BY <1>0, <1>1, <1>3, <1>4, <1>5, Constants DEF TypeDriver
<1>7. /\ tx' \in [stat : Status, packet : Seq(Byte)]
      /\ rx' \in [stat : Status, packet : Seq(Byte),
                  request : Requests \cup {NoRequest}]
  <2>1. CASE Supported(usb_req)
    <3>1. tx \in [stat : Status, packet : Seq(Byte)] /\ <<>> \in Seq(Byte)
      BY <1>0 DEF TypePeripheral
    <3> QED BY <1>0, <1>1, <2>1, <3>1, WrittenType, ReopenedType
  <2>2. CASE ~Supported(usb_req)
    BY <1>0, <1>1, <2>2, StallType
  <2> QED BY <2>1, <2>2
<1>8. TypePeripheral'
  BY <1>0, <1>1, <1>4, <1>7 DEF TypePeripheral
<1>9. TypeHost'
  BY <1>0, <1>1 DEF TypeHost
<1>10. Sizes' /\ SetupPending' /\ Progress'
  BY <1>1, <1>4, <1>5 DEF IInv, Sizes, SetupPending, Progress, Downloading
<1> QED BY <1>6, <1>8, <1>9, <1>10, Types DEF IInv

LEMMA StatusOutKeeps == ASSUME IInv, StatusOut PROVE IInv'
<1> USE DEF IInv, StatusOut
<1>0. TypeDriver /\ TypePeripheral /\ TypeHost
  BY Types
<1>1. TypeDriver'
  BY <1>0 DEF TypeDriver
<1>2. TypePeripheral'
  BY <1>0, ReopenedType DEF TypePeripheral, Read
<1>3. TypeHost'
  BY <1>0 DEF TypeHost
<1>4. Sizes' /\ SetupPending' /\ Progress'
  BY DEF Sizes, SetupPending, Progress, Downloading, ReceivedOut
<1> QED BY <1>1, <1>2, <1>3, <1>4, Types

LEMMA UnexpectedOutKeeps == ASSUME IInv, UnexpectedOut PROVE IInv'
<1> USE DEF IInv, UnexpectedOut
<1>0. TypeDriver /\ TypePeripheral /\ TypeHost
  BY Types
<1>1. usb_fsm_state' = "IDLE" /\ TypePeripheral'
  BY <1>0, StallType DEF TypePeripheral
<1>2. TypeDriver'
  BY <1>0, <1>1 DEF TypeDriver
<1>3. TypeHost'
  BY <1>0 DEF TypeHost
<1>4. Sizes' /\ SetupPending' /\ Progress'
  BY <1>1 DEF Sizes, SetupPending, Progress, Downloading, ReceivedOut
<1> QED BY <1>1, <1>2, <1>3, <1>4, Types

\* After a packet was sent.
LEMMA DataInKeeps == ASSUME IInv, DataIn PROVE IInv'
<1> USE DEF IInv
<1>0. TypeDriver /\ TypePeripheral /\ TypeHost
  BY Types
<1>1. /\ ~ctr_rx' /\ ctr_tx' = FALSE /\ usb_fsm_state = "DATA_IN"
      /\ SendChunk(buffer, dataoff, datasize, usb_needs_zlp)
      /\ UNCHANGED <<usb_req, armed, buffer, calling, ctr_rx, is_setup,
                     bus_reset, host, haddr, usb_force_nak, rx, daddr, ran>>
  BY DEF DataIn, ControlIn, Sent
<1>2. /\ tx' \in [stat : Status, packet : Seq(Byte)]
      /\ usb_fsm_state' \in {"DATA_IN", "LAST_DATA_IN"}
      /\ dataoff' \in 0 .. DFU_TRANSFER_SIZE
      /\ datasize' \in Nat /\ datasize' <= DFU_TRANSFER_SIZE
      /\ dataoff' + datasize' <= DFU_TRANSFER_SIZE
      /\ usb_needs_zlp' \in BOOLEAN
  <2>1. /\ buffer \in [1 .. DFU_TRANSFER_SIZE -> Byte]
        /\ dataoff \in Nat /\ datasize \in Nat /\ usb_needs_zlp \in BOOLEAN
        /\ dataoff + datasize <= DFU_TRANSFER_SIZE
    BY <1>0, <1>1, Constants DEF TypeDriver, Sizes
  <2>2. tx \in [stat : Status, packet : Seq(Byte)]
    BY <1>0 DEF TypePeripheral
  <2> QED BY <1>1, <2>1, <2>2, SendChunkType
<1>3. TypeDriver'
  BY <1>0, <1>1, <1>2 DEF TypeDriver
<1>4. TypePeripheral'
  BY <1>0, <1>1, <1>2 DEF TypePeripheral
<1>5. TypeHost'
  BY <1>0, <1>1 DEF TypeHost
<1>6. Sizes' /\ SetupPending' /\ Progress'
  BY <1>1, <1>2 DEF Sizes, SetupPending, Progress, Downloading
<1> QED BY <1>3, <1>4, <1>5, <1>6, Types

LEMMA LastInKeeps ==
  ASSUME IInv, LastDataIn \/ StatusIn \/ UnexpectedIn PROVE IInv'
<1> USE DEF IInv
<1>0. TypeDriver /\ TypePeripheral /\ TypeHost
  BY Types
<1>1. /\ ~ctr_rx' /\ ctr_tx' = FALSE
      /\ UNCHANGED <<usb_req, armed, buffer, calling, ctr_rx, is_setup,
                     bus_reset, host, haddr, datasize, dataoff,
                     usb_needs_zlp>>
  BY DEF LastDataIn, StatusIn, UnexpectedIn, ControlIn, Sent
<1>2. /\ usb_fsm_state' \in {"STATUS_OUT", "IDLE"}
      /\ usb_fsm_state' = "IDLE" \/ usb_fsm_state # "IDLE"
      /\ usb_force_nak' \in BOOLEAN
  BY <1>0 DEF LastDataIn, StatusIn, UnexpectedIn, Stall, TypeDriver
<1>3. TypeDriver'
  BY <1>0, <1>1, <1>2 DEF TypeDriver
<1>4. daddr' \in Address /\ ran' \in Nat
  BY <1>0 DEF LastDataIn, StatusIn, UnexpectedIn, TypePeripheral, TypeHost,
              Address
<1>5. /\ tx' \in [stat : Status, packet : Seq(Byte)]
      /\ rx' \in [stat : Status, packet : Seq(Byte),
                  request : Requests \cup {NoRequest}]
  <2>1. CASE LastDataIn
    BY <1>0, <2>1 DEF LastDataIn, TypePeripheral, Status
  <2>2. CASE StatusIn
    BY <1>0, <2>2 DEF StatusIn, TypePeripheral
  <2>3. CASE UnexpectedIn
    BY <1>0, <2>3, StallType DEF UnexpectedIn
  <2> QED BY <2>1, <2>2, <2>3 DEF LastDataIn, StatusIn, UnexpectedIn
<1>6. TypePeripheral'
  BY <1>0, <1>1, <1>4, <1>5 DEF TypePeripheral
<1>7. TypeHost'
  BY <1>0, <1>1, <1>4 DEF TypeHost
<1>8. Sizes' /\ SetupPending' /\ Progress'
  BY <1>1, <1>2 DEF Sizes, SetupPending, Progress, Downloading
<1> QED BY <1>3, <1>6, <1>7, <1>8, Types

LEMMA Stutters == ASSUME IInv, UNCHANGED vars PROVE IInv'
<1> USE DEF IInv, vars, driver, peripheral
<1>1. TypeOK'
  BY DEF TypeOK
<1>2. Sizes' /\ SetupPending' /\ Progress'
  BY DEF Sizes, SetupPending, Progress, Downloading, Together, Expected
<1> QED BY <1>1, <1>2

LEMMA UsbStep == IInv /\ [Next]_vars => IInv'
<1> SUFFICES ASSUME IInv, [Next]_vars PROVE IInv'
  OBVIOUS
<1>1. CASE Host
  BY <1>1, HostSetupKeeps, HostReadsKeeps, HostSendsKeeps, HostStatusKeeps,
     BusResetKeeps DEF Host
<1>2. CASE Driver
  BY <1>2, ResetKeeps, RefusedKeeps, AnsweredKeeps, DoneKeeps, SetupOutKeeps,
     DataOutFailsKeeps, DataOutKeeps, LastDataOutKeeps, StatusOutKeeps,
     CallbackReturnsKeeps, UnexpectedOutKeeps, DataInKeeps, LastInKeeps
     DEF Driver
<1>3. CASE UNCHANGED vars
  BY <1>3, Stutters
<1> QED BY <1>1, <1>2, <1>3 DEF Next

\* The driver's variables and the peripheral's keep their types, whatever the
\* host does and when: no offset leaves usbd_control_buffer and no length its
\* bounds, though it may abandon any transfer at any point (usb.c:342-377).
THEOREM UsbTypeCorrect == Spec => []TypeOK
<1>1. IInv => TypeOK
  BY DEF IInv
<1> QED BY <1>1, UsbInit, UsbStep, PTL DEF Spec

\* A download is dispatched with all its bytes, in order and of one transfer,
\* even if the host overtakes the driver (usb.c:661-679).
THEOREM NoDownloadMixes == Spec => DownloadsAreWhole
<1>1. IInv /\ [Next]_vars =>
        (LastDataOut /\ usb_fsm_state' = "STATUS_IN" =>
           \A i \in 1 .. usb_req.wLength : buffer'[i] = <<usb_req, i>>)
  <2> SUFFICES ASSUME IInv, LastDataOut
               PROVE  \A i \in 1 .. usb_req.wLength :
                        buffer'[i] = <<usb_req, i>>
    OBVIOUS
  <2>1. ReceivedOut /\ RecvChunk /\ usb_fsm_state = "LAST_DATA_OUT"
    BY DEF LastDataOut
  <2>2. Downloading
    BY <2>1 DEF Downloading
  <2>3. /\ usb_req \in Requests
        /\ usb_req.wLength \in Nat /\ datasize \in Nat
        /\ datasize < usb_req.wLength
        /\ ~(usb_req.wLength - datasize > bMaxPacketSize0)
    BY <2>1, <2>2, Constants DEF IInv, Progress, TypeOK
  <2>4. Expected = usb_req.wLength - datasize
    BY <2>3, Constants DEF Expected, Least
  <2>5. /\ datasize' = datasize + Expected
        /\ \A i \in 1 .. datasize' : buffer'[i] = <<usb_req, i>>
    BY <2>1, <2>2, ChunkReceived
  <2> QED BY <2>3, <2>4, <2>5
<1>2. IInv /\ [Next]_vars =>
        [LastDataOut /\ usb_fsm_state' = "STATUS_IN" =>
           \A i \in 1 .. usb_req.wLength : buffer'[i] = <<usb_req, i>>]_vars
  BY <1>1
<1> QED BY <1>2, UsbInit, UsbStep, PTL DEF Spec, DownloadsAreWhole

-----------------------------------------------------------------------------
(***************************************************************************)
(* The places of a transfer, when the host does not overtake the driver.   *)
(***************************************************************************)
\* The driver has taken the data of the request it serves.
Taken == /\ Download(host.req) <= DFU_TRANSFER_SIZE
         /\ \A i \in 1 .. Download(host.req) : buffer[i] = <<host.req, i>>

\* The host has read nothing or n bytes.
HasRead(n) == n \in Nat /\ host.got = Content(host.req, n)

\* No transfer, and no event but perhaps a bus reset.
Idle == host = NoTransfer /\ ~ctr_rx /\ ~ctr_tx

\* A setup packet waits.
Asked ==
  /\ host.req \in Requests /\ ~bus_reset /\ ctr_rx /\ is_setup /\ ~ctr_tx
  /\ rx.stat = "nak" /\ tx.stat = "nak" /\ rx.request = host.req
  /\ host.phase = IF HasData(host.req) THEN "data" ELSE "status"
  /\ HasRead(0) /\ host.sent = 0 /\ ~host.short /\ ran = 0

\* The driver has read it, and no callback runs.
Heard == /\ host.req \in Requests /\ usb_req = host.req
         /\ ~bus_reset /\ ~calling /\ ran = 0

Reading == host.req.in /\ HasData(host.req) /\ Supported(host.req)

Total == AnswerSize(host.req)

Multiple(n) == \E k \in Nat : n = k * bMaxPacketSize0

\* datasize bytes of the answer have not been sent yet.
Remaining ==
  /\ \A i \in 1 .. host.req.size : buffer[i] = <<host.req, i>>
  /\ datasize <= Total
  /\ datasize > 0 =>
       /\ usb_fsm_state = "DATA_IN"
       /\ dataoff = Total - datasize /\ Multiple(dataoff)
       /\ usb_needs_zlp = needs_zlp(Total, host.req.wLength)
  /\ usb_fsm_state = "DATA_IN" /\ datasize = 0 =>
       Total < host.req.wLength /\ ~usb_needs_zlp

Sending ==
  /\ Heard /\ Reading /\ ~ctr_rx /\ rx.stat = "nak"
  /\ armed = Callback(host.req)
  /\ usb_fsm_state \in {"DATA_IN", "LAST_DATA_IN"}
  /\ Remaining

\* The len bytes of a request that follow the first n.
Packet(r, n, len) == [i \in 1 .. len |-> <<r, n + i>>]

\* The buffer holds bytes a to b of a request.
Holds(buf, r, a, b) == \A i \in a .. b : buf[i] = <<r, i>>

\* The packet that waits follows what the host has read, and is what the
\* host takes for the last one if it is.
NextPacket ==
  LET len == Len(tx.packet)
  IN \E n \in Nat :
       /\ HasRead(n) /\ n + len = Total - datasize
       /\ tx.packet = Packet(host.req, n, len)
       /\ len <= bMaxPacketSize0
       /\ IF usb_fsm_state = "DATA_IN" THEN len = bMaxPacketSize0
          ELSE len < bMaxPacketSize0 \/ Total >= host.req.wLength

Posted  == /\ Sending /\ ~ctr_tx /\ tx.stat = "valid" /\ host.phase = "data"
           /\ NextPacket
Fetched == /\ Sending /\ ctr_tx /\ tx.stat = "nak"
           /\ host.phase = IF usb_fsm_state = "DATA_IN" THEN "data"
                           ELSE "status"
           /\ HasRead(Total - datasize)

\* The status stage of an answer: before and after the host's packet.
Closing == /\ Heard /\ Reading /\ ~ctr_tx /\ armed = Callback(host.req)
           /\ usb_fsm_state = "STATUS_OUT" /\ HasRead(Total)
Opened  == Closing /\ ~ctr_rx /\ rx.stat = "valid" /\ host.phase = "status"
Closed  == /\ Closing /\ ctr_rx /\ ~is_setup /\ rx.stat = "nak"
           /\ host.phase = "done"

\* The status stage of another request: before and after the driver's.
Acking  == /\ Heard /\ ~Reading /\ Supported(host.req) /\ ~ctr_rx
           /\ armed = Callback(host.req)
           /\ usb_fsm_state = "STATUS_IN" /\ HasRead(0) /\ Taken
Offered == Acking /\ ~ctr_tx /\ tx.stat = "valid" /\ host.phase = "status"
Acked   == Acking /\ ctr_tx /\ tx.stat = "nak" /\ host.phase = "done"

\* The data stage of a download: before and after a packet.
Receiving == /\ Heard /\ Downloading /\ ~ctr_tx /\ tx.stat = "nak"
             /\ ~armed /\ ~usb_force_nak /\ HasRead(0)
Ready     == /\ Receiving /\ ~ctr_rx /\ rx.stat = "valid"
             /\ host.phase = "data" /\ ~host.short
Arrived   ==
  /\ Receiving /\ ctr_rx /\ ~is_setup /\ rx.stat = "nak"
  /\ IF host.short
     THEN Len(rx.packet) < Expected /\ host.phase = "status"
     ELSE /\ Len(rx.packet) = Expected
          /\ host.phase = IF usb_fsm_state = "DATA_OUT" THEN "data"
                          ELSE "status"

\* The transfer is over, its callback runs or has run.
Over ==
  /\ host.phase = "done" /\ host.req \in Requests
  /\ ~bus_reset /\ ~ctr_rx /\ ~ctr_tx /\ usb_fsm_state = "IDLE"
  /\ ran = IF Callback(host.req) THEN 1 ELSE 0
  /\ HasRead(Answer(host.req)) /\ Taken

\* The driver has refused it.
Stalled ==
  /\ Heard /\ ~ctr_rx /\ ~ctr_tx /\ usb_fsm_state = "IDLE"
  /\ tx.stat = "stall" /\ rx.stat = "stall"
  /\ host.phase \in {"data", "status", "failed"} /\ HasRead(0)
  /\ host.phase = "status" => StatusByIn(host.req)
  /\ Refusable(host.req) \/ host.short

Place == \/ Idle \/ Asked \/ Posted \/ Fetched \/ Opened \/ Closed
         \/ Offered \/ Acked \/ Ready \/ Arrived \/ Over \/ Stalled

TInv == Place /\ (bus_reset => daddr = 0)

-----------------------------------------------------------------------------
(***************************************************************************)
(* Whole packets, and what a chunk takes from the buffer.                  *)
(***************************************************************************)
LEMMA ProductGrows ==
  ASSUME NEW p \in Nat, NEW j \in Nat, j >= 1
  PROVE  j * p >= p /\ j * p \in Nat
OBVIOUS

LEMMA MultipleMod ==
  ASSUME NEW n \in Nat, Multiple(n) PROVE n % bMaxPacketSize0 = 0
<1>1. PICK k \in Nat : n = k * bMaxPacketSize0
  BY DEF Multiple
<1> DEFINE m == n % bMaxPacketSize0
           q == n \div bMaxPacketSize0
<1>2. /\ m \in Nat /\ m < bMaxPacketSize0 /\ q \in Nat
      /\ n = q * bMaxPacketSize0 + m
  BY Constants
<1> HIDE DEF m, q
<1>3. (k - q) * bMaxPacketSize0 = m
  BY <1>1, <1>2, Constants
<1>4. CASE k - q >= 1
  <2>1. (k - q) * bMaxPacketSize0 >= bMaxPacketSize0
    BY <1>4, <1>2, ProductGrows, Constants
  <2> QED BY <2>1, <1>2, <1>3, Constants
<1>5. CASE k = q
  BY <1>3, <1>5, Constants DEF m
<1>6. CASE q - k >= 1
  <2>1. (q - k) * bMaxPacketSize0 >= bMaxPacketSize0
    BY <1>6, <1>2, ProductGrows, Constants
  <2>2. (q - k) * bMaxPacketSize0 + m = 0
    BY <1>3, <1>2, Constants
  <2> QED BY <2>1, <2>2, <1>2, Constants
<1> QED BY <1>2, <1>4, <1>5, <1>6

LEMMA ModMultiple ==
  ASSUME NEW n \in Nat, n % bMaxPacketSize0 = 0 PROVE Multiple(n)
<1>1. /\ n \div bMaxPacketSize0 \in Nat
      /\ n = (n \div bMaxPacketSize0) * bMaxPacketSize0
  BY Constants
<1> QED BY <1>1 DEF Multiple

LEMMA MultipleNext ==
  ASSUME NEW n \in Nat, Multiple(n) PROVE Multiple(n + bMaxPacketSize0)
<1>1. PICK k \in Nat : n = k * bMaxPacketSize0
  BY DEF Multiple
<1>2. n + bMaxPacketSize0 = (k + 1) * bMaxPacketSize0 /\ k + 1 \in Nat
  BY <1>1, Constants
<1> QED BY <1>2 DEF Multiple

LEMMA MultipleGap ==
  ASSUME NEW a \in Nat, NEW b \in Nat, Multiple(a), Multiple(b),
         a < b, b <= a + bMaxPacketSize0
  PROVE  b = a + bMaxPacketSize0
<1>1. PICK k \in Nat : a = k * bMaxPacketSize0
  BY DEF Multiple
<1>2. PICK m \in Nat : b = m * bMaxPacketSize0
  BY DEF Multiple
<1>3. CASE m <= k
  <2>1. k - m \in Nat /\ (k - m) * bMaxPacketSize0 \in Nat
    BY <1>3, Constants
  <2>2. a = b + (k - m) * bMaxPacketSize0
    BY <1>1, <1>2, Constants
  <2> QED BY <2>1, <2>2
<1>4. CASE m > k
  <2>1. (m - k) * bMaxPacketSize0 >= bMaxPacketSize0
    BY <1>4, ProductGrows, Constants
  <2>2. b = a + (m - k) * bMaxPacketSize0
    BY <1>1, <1>2, Constants
  <2> QED BY <2>1, <2>2, Constants
<1> QED BY <1>3, <1>4

LEMMA NoContent == \A r : Content(r, 0) = <<>>
  BY DEF Content

LEMMA ContentJoins ==
  ASSUME NEW r, NEW n \in Nat, NEW len \in Nat
  PROVE  Content(r, n) \o Packet(r, n, len) = Content(r, n + len)
<1> USE DEF Packet
<1> DEFINE s == Content(r, n)
           t == [i \in 1 .. len |-> <<r, n + i>>]
           u == Content(r, n + len)
           B == {<<r, i>> : i \in Nat}
<1>1. s \in Seq(B) /\ t \in Seq(B) /\ u \in Seq(B)
  BY DEF Content
<1>2. Len(s) = n /\ Len(t) = len /\ Len(u) = n + len
  BY DEF Content
<1>3. \A i \in 1 .. n : s[i] = u[i]
  BY DEF Content
<1>4. \A i \in 1 .. len : t[i] = u[n + i]
  BY DEF Content
<1> HIDE DEF s, t, u, B
<1> DEFINE c == s \o t
<1>5. c \in Seq(B) /\ Len(c) = n + len
  BY <1>1, <1>2
<1>6. \A i \in 1 .. n + len : c[i] = IF i <= n THEN s[i] ELSE t[i - n]
  BY <1>1, <1>2, ConcatProperties
<1> HIDE DEF c
<1>7. \A i \in 1 .. n + len : c[i] = u[i]
  <2> SUFFICES ASSUME NEW i \in 1 .. n + len PROVE c[i] = u[i]
    OBVIOUS
  <2>1. CASE i <= n
    BY <1>3, <1>6, <2>1
  <2>2. CASE i > n
    <3>1. i - n \in 1 .. len /\ n + (i - n) = i
      BY <2>2
    <3> QED BY <1>4, <1>6, <2>2, <3>1
  <2> QED BY <2>1, <2>2
<1>8. c = u
  BY <1>1, <1>2, <1>5, <1>7, SeqEqual
<1> QED BY <1>8 DEF c, s, t, u

\* The packet taken from a buffer that holds the answer to r.
LEMMA PacketOf ==
  ASSUME NEW r \in Requests, NEW n \in Nat, NEW len \in Nat,
         NEW buf, Holds(buf, r, n + 1, n + len)
  PROVE  SubSeq(buf, n + 1, n + len) = Packet(r, n, len)
<1> USE DEF Packet, Holds
<1> DEFINE s == SubSeq(buf, n + 1, n + len)
           t == [i \in 1 .. len |-> <<r, n + i>>]
<1>1. \A i \in n + 1 .. n + len : buf[i] \in {<<r, j>> : j \in Nat}
  OBVIOUS
<1>2. /\ s \in Seq({<<r, j>> : j \in Nat})
      /\ Len(s) = len
      /\ \A i \in 1 .. len : s[i] = buf[n + i]
  <2>1. n + 1 \in Int /\ n + len \in Int /\ (n + len) - (n + 1) + 1 = len
    OBVIOUS
  <2>2. \A i \in 1 .. len : (n + 1) + i - 1 = n + i
    OBVIOUS
  <2> QED BY <1>1, <2>1, <2>2, SubSeqProperties
<1>3. /\ t \in Seq({<<r, j>> : j \in Nat})
      /\ Len(t) = len
  OBVIOUS
<1>4. \A i \in 1 .. len : s[i] = t[i]
  <2> SUFFICES ASSUME NEW i \in 1 .. len PROVE s[i] = t[i]
    OBVIOUS
  <2>1. n + i \in n + 1 .. n + len
    OBVIOUS
  <2> QED BY <1>2, <2>1
<1> HIDE DEF s, t
<1>5. s = t
  BY <1>2, <1>3, <1>4, SeqEqual
<1> QED BY <1>5 DEF s, t

\* What usb_control_send_chunk leaves of an answer with size bytes to go.
LEMMA ChunkSent ==
  ASSUME NEW r \in Requests, NEW total, total = AnswerSize(r),
         NEW buf, \A i \in 1 .. r.size : buf[i] = <<r, i>>,
         NEW off \in Nat, NEW size \in Nat, size <= total, NEW zlp \in BOOLEAN,
         size > 0 => /\ off = total - size /\ Multiple(off)
                     /\ zlp = needs_zlp(total, r.wLength),
         size = 0 => ~zlp,
         tx.stat # "valid", SendChunk(buf, off, size, zlp),
         NEW len, len = Least(size, bMaxPacketSize0)
  PROVE  /\ len \in Nat /\ len <= size /\ len <= bMaxPacketSize0
         /\ tx' = [stat |-> "valid",
                   packet |-> Packet(r, total - size, len)]
         /\ usb_fsm_state' \in {"DATA_IN", "LAST_DATA_IN"}
         /\ datasize' = size - len /\ datasize' <= total
         /\ datasize' > 0 =>
              /\ usb_fsm_state' = "DATA_IN"
              /\ dataoff' = total - datasize' /\ Multiple(dataoff')
              /\ usb_needs_zlp' = needs_zlp(total, r.wLength)
         /\ usb_fsm_state' = "DATA_IN" /\ datasize' = 0 =>
              total < r.wLength /\ ~usb_needs_zlp'
         /\ IF usb_fsm_state' = "DATA_IN" THEN len = bMaxPacketSize0
            ELSE len < bMaxPacketSize0 \/ total >= r.wLength
<1>1. /\ total \in Nat /\ total <= r.size /\ total <= r.wLength
      /\ r.wLength \in Nat /\ r.size \in Nat
  BY Constants DEF AnswerSize, Least
<1>2. /\ len \in Nat /\ len <= size /\ len <= bMaxPacketSize0
      /\ bMaxPacketSize0 < size => len = bMaxPacketSize0
      /\ ~(bMaxPacketSize0 < size) => len = size
  BY Constants DEF Least
<1>3. /\ tx' = [stat |-> "valid", packet |-> SubSeq(buf, off + 1, off + len)]
      /\ usb_fsm_state' = IF bMaxPacketSize0 < size \/ zlp THEN "DATA_IN"
                          ELSE "LAST_DATA_IN"
      /\ dataoff' = IF bMaxPacketSize0 < size THEN off + len ELSE off
      /\ datasize' = size - len
      /\ usb_needs_zlp' = (bMaxPacketSize0 < size /\ zlp)
  BY DEF SendChunk, Written
<1>4. tx' = [stat |-> "valid",
             packet |-> Packet(r, total - size, len)]
  <2>1. CASE size > 0
    <3>1. Holds(buf, r, off + 1, off + len)
      <4> SUFFICES ASSUME NEW i \in off + 1 .. off + len
                   PROVE  buf[i] = <<r, i>>
        BY DEF Holds
      <4>1. i \in 1 .. r.size
        BY <1>1, <1>2, <2>1
      <4> QED BY <4>1
    <3>2. SubSeq(buf, off + 1, off + len) = Packet(r, off, len)
      <4>1. off \in Nat /\ len \in Nat /\ r \in Requests
        BY <1>2
      <4> QED BY <3>1, <4>1, PacketOf
    <3> QED BY <1>3, <2>1, <3>2
  <2>2. CASE size = 0
    <3>1. len = 0
      BY <1>2, <2>2
    <3>2. SubSeq(buf, off + 1, off + 0) = <<>>
      BY SubSeqEmpty
    <3>3. Packet(r, total - size, len) = <<>>
      BY <3>1 DEF Packet
    <3> QED BY <1>3, <3>1, <3>2, <3>3
  <2> QED BY <2>1, <2>2
<1>5. ASSUME size > 0, ~(bMaxPacketSize0 < size)
      PROVE  /\ zlp => size = bMaxPacketSize0 /\ total < r.wLength
             /\ ~zlp /\ size = bMaxPacketSize0 => total >= r.wLength
  <2>0. /\ off = total - size /\ Multiple(off) /\ off < total
        /\ zlp = needs_zlp(total, r.wLength) /\ total > 0
    BY <1>1, <1>5
  <2>1. ASSUME zlp PROVE size = bMaxPacketSize0 /\ total < r.wLength
    <3>1. total < r.wLength /\ total % bMaxPacketSize0 = 0
      BY <2>0, <2>1 DEF needs_zlp
    <3>2. Multiple(total)
      BY <1>1, <3>1, ModMultiple
    <3>3. total = off + bMaxPacketSize0
      BY <1>1, <1>5, <2>0, <3>2, MultipleGap, Constants
    <3> QED BY <1>1, <2>0, <3>1, <3>3, Constants
  <2>2. ASSUME ~zlp, size = bMaxPacketSize0 PROVE total >= r.wLength
    <3>1. Multiple(total)
      <4>1. total = off + bMaxPacketSize0
        BY <1>1, <2>0, <2>2
      <4> QED BY <2>0, <4>1, MultipleNext
    <3>2. total % bMaxPacketSize0 = 0
      BY <1>1, <3>1, MultipleMod
    <3>3. ~needs_zlp(total, r.wLength)
      BY <2>0, <2>2
    <3> QED BY <1>1, <2>0, <3>2, <3>3 DEF needs_zlp
  <2> QED BY <2>1, <2>2
<1>6. datasize' > 0 =>
        /\ usb_fsm_state' = "DATA_IN"
        /\ dataoff' = total - datasize' /\ Multiple(dataoff')
        /\ usb_needs_zlp' = needs_zlp(total, r.wLength)
  <2> SUFFICES ASSUME datasize' > 0
               PROVE  /\ usb_fsm_state' = "DATA_IN"
                      /\ dataoff' = total - datasize' /\ Multiple(dataoff')
                      /\ usb_needs_zlp' = needs_zlp(total, r.wLength)
    OBVIOUS
  <2>1. bMaxPacketSize0 < size /\ size > 0
    BY <1>2, <1>3, Constants
  <2>2. dataoff' = off + bMaxPacketSize0 /\ usb_needs_zlp' = zlp
    BY <1>2, <1>3, <2>1
  <2>3. Multiple(off + bMaxPacketSize0)
    BY <2>1, MultipleNext
  <2> QED BY <1>1, <1>2, <1>3, <2>1, <2>2, <2>3
<1>7. usb_fsm_state' = "DATA_IN" /\ datasize' = 0 =>
        total < r.wLength /\ ~usb_needs_zlp'
  <2> SUFFICES ASSUME usb_fsm_state' = "DATA_IN", datasize' = 0
               PROVE  total < r.wLength /\ ~usb_needs_zlp'
    OBVIOUS
  <2>1. ~(bMaxPacketSize0 < size)
    BY <1>2, <1>3, Constants
  <2>2. zlp /\ ~usb_needs_zlp'
    BY <1>3, <2>1
  <2>3. size > 0
    BY <2>2
  <2> QED BY <1>5, <2>1, <2>2, <2>3
<1>8. IF usb_fsm_state' = "DATA_IN" THEN len = bMaxPacketSize0
      ELSE len < bMaxPacketSize0 \/ total >= r.wLength
  BY <1>2, <1>3, <1>5, Constants
<1>9. datasize' <= total
  BY <1>1, <1>2, <1>3
<1> QED BY <1>2, <1>3, <1>4, <1>6, <1>7, <1>8, <1>9

-----------------------------------------------------------------------------
(***************************************************************************)
(* Where an event, or a step of the host, finds the transfer.              *)
(***************************************************************************)
\* What each place says of the events, the two directions and the host.
LEMMA Signs ==
  /\ Idle    => host.phase = "none" /\ ~ctr_rx /\ ~ctr_tx
  /\ Asked   => /\ ctr_rx /\ is_setup /\ ~ctr_tx /\ ~bus_reset
                /\ tx.stat = "nak" /\ rx.stat = "nak"
                /\ host.phase \in {"data", "status"}
  /\ Posted  => /\ ~ctr_rx /\ ~ctr_tx /\ ~bus_reset /\ ~calling
                /\ tx.stat = "valid" /\ rx.stat = "nak"
                /\ host.phase = "data"
  /\ Fetched => /\ ~ctr_rx /\ ctr_tx /\ ~bus_reset /\ ~calling
                /\ tx.stat = "nak" /\ rx.stat = "nak"
                /\ host.phase \in {"data", "status"}
  /\ Opened  => /\ ~ctr_rx /\ ~ctr_tx /\ ~bus_reset /\ ~calling
                /\ rx.stat = "valid" /\ host.phase = "status"
                /\ ~StatusByIn(host.req)
  /\ Closed  => /\ ctr_rx /\ ~is_setup /\ ~ctr_tx /\ ~bus_reset /\ ~calling
                /\ host.phase = "done" /\ ~StatusByIn(host.req)
                /\ usb_fsm_state = "STATUS_OUT"
  /\ Offered => /\ ~ctr_rx /\ ~ctr_tx /\ ~bus_reset /\ ~calling
                /\ tx.stat = "valid" /\ host.phase = "status"
                /\ StatusByIn(host.req)
  /\ Acked   => /\ ~ctr_rx /\ ctr_tx /\ ~bus_reset /\ ~calling
                /\ tx.stat = "nak" /\ host.phase = "done"
                /\ usb_fsm_state = "STATUS_IN"
  /\ Ready   => /\ ~ctr_rx /\ ~ctr_tx /\ ~bus_reset /\ ~calling
                /\ tx.stat = "nak" /\ rx.stat = "valid"
                /\ host.phase = "data"
                /\ Downloading
  /\ Arrived => /\ ctr_rx /\ ~is_setup /\ ~ctr_tx /\ ~bus_reset /\ ~calling
                /\ tx.stat = "nak" /\ rx.stat = "nak"
                /\ host.phase \in {"data", "status"}
                /\ Downloading
  /\ Over    => ~ctr_rx /\ ~ctr_tx /\ ~bus_reset /\ host.phase = "done"
  /\ Stalled => /\ ~ctr_rx /\ ~ctr_tx /\ ~bus_reset /\ ~calling
                /\ tx.stat = "stall" /\ rx.stat = "stall"
                /\ host.phase \in {"data", "status", "failed"}
<1>1. Idle => host.phase = "none" /\ ~ctr_rx /\ ~ctr_tx
  BY Abandoned DEF Idle
<1>2. Asked   => /\ ctr_rx /\ is_setup /\ ~ctr_tx /\ ~bus_reset
                 /\ tx.stat = "nak" /\ rx.stat = "nak"
                 /\ host.phase \in {"data", "status"}
  BY DEF Asked
<1>3. Posted  => /\ ~ctr_rx /\ ~ctr_tx /\ ~bus_reset /\ ~calling
                 /\ tx.stat = "valid" /\ rx.stat = "nak"
                 /\ host.phase = "data"
  BY DEF Posted, Sending, Heard
<1>4. Fetched => /\ ~ctr_rx /\ ctr_tx /\ ~bus_reset /\ ~calling
                 /\ tx.stat = "nak" /\ rx.stat = "nak"
                 /\ host.phase \in {"data", "status"}
  BY DEF Fetched, Sending, Heard
<1>5. Opened  => /\ ~ctr_rx /\ ~ctr_tx /\ ~bus_reset /\ ~calling
                 /\ rx.stat = "valid" /\ host.phase = "status"
                 /\ ~StatusByIn(host.req)
  BY DEF Opened, Closing, Heard, Reading, StatusByIn
<1>6. Closed  => /\ ctr_rx /\ ~is_setup /\ ~ctr_tx /\ ~bus_reset /\ ~calling
                 /\ host.phase = "done" /\ ~StatusByIn(host.req)
                 /\ usb_fsm_state = "STATUS_OUT"
  BY DEF Closed, Closing, Heard, Reading, StatusByIn
<1>7. Offered => /\ ~ctr_rx /\ ~ctr_tx /\ ~bus_reset /\ ~calling
                 /\ tx.stat = "valid" /\ host.phase = "status"
                 /\ StatusByIn(host.req)
  BY DEF Offered, Acking, Heard, Reading, StatusByIn
<1>8. Acked   => /\ ~ctr_rx /\ ctr_tx /\ ~bus_reset /\ ~calling
                 /\ tx.stat = "nak" /\ host.phase = "done"
                 /\ usb_fsm_state = "STATUS_IN"
  BY DEF Acked, Acking, Heard
<1>9. Ready   => /\ ~ctr_rx /\ ~ctr_tx /\ ~bus_reset /\ ~calling
                 /\ tx.stat = "nak" /\ rx.stat = "valid"
                 /\ host.phase = "data"
                 /\ Downloading
  BY DEF Ready, Receiving, Heard
<1>10. Arrived => /\ ctr_rx /\ ~is_setup /\ ~ctr_tx /\ ~bus_reset /\ ~calling
                  /\ tx.stat = "nak" /\ rx.stat = "nak"
                  /\ host.phase \in {"data", "status"}
                  /\ Downloading
  BY DEF Arrived, Receiving, Heard
<1>11. Over => ~ctr_rx /\ ~ctr_tx /\ ~bus_reset /\ host.phase = "done"
  BY DEF Over
<1>12. Stalled => /\ ~ctr_rx /\ ~ctr_tx /\ ~bus_reset /\ ~calling
                  /\ tx.stat = "stall" /\ rx.stat = "stall"
                  /\ host.phase \in {"data", "status", "failed"}
  BY DEF Stalled, Heard
<1> QED BY <1>1, <1>2, <1>3, <1>4, <1>5, <1>6, <1>7, <1>8, <1>9, <1>10,
           <1>11, <1>12

LEMMA Outward ==
  ASSUME IInv, Ready \/ Arrived
  PROVE  ~host.req.in /\ HasData(host.req)
  BY DEF IInv, Progress, Ready, Arrived, Receiving, Heard, SetupIn

\* Where an event or a step of the host finds the transfer.
LEMMA Where ==
  ASSUME Place, IInv
  PROVE  /\ host.phase = "data" /\ host.req.in /\ tx.stat = "valid" => Posted
         /\ host.phase = "data" /\ ~host.req.in /\ rx.stat = "valid" => Ready
         /\ host.phase = "status" /\ StatusByIn(host.req) /\ tx.stat = "valid"
              => Offered
         /\ host.phase = "status" /\ ~StatusByIn(host.req)
              /\ rx.stat = "valid" /\ ~ctr_rx => Opened
         /\ ctr_rx /\ is_setup => Asked
         /\ ctr_rx /\ ~is_setup => Closed \/ Arrived
         /\ ctr_tx => Fetched \/ Acked
         /\ bus_reset => Idle
         /\ calling => Idle \/ Asked \/ Over
         /\ host.phase = "failed" => Stalled
         /\ host.phase = "done" => Closed \/ Acked \/ Over
         /\ host.phase = "none" => Idle
  BY Signs DEF Place

-----------------------------------------------------------------------------
(***************************************************************************)
(* Each step leads from one place to another: the host's.                  *)
(***************************************************************************)
LEMMA HostSetupMoves ==
  ASSUME IInv, TInv, ~Overtaking, NEW r \in Requests, HostSetup(r)
  PROVE  Asked' /\ TInv'
<1>0. TypeDriver /\ TypePeripheral /\ TypeHost
  BY Types DEF IInv
<1>1. /\ Quiet
      /\ tx' = [tx EXCEPT !.stat = "nak"]
      /\ rx' = [stat |-> "nak", packet |-> <<>>, request |-> r]
      /\ ctr_rx' = TRUE /\ is_setup' = TRUE
      /\ host' = [NoTransfer EXCEPT !.req = r,
                    !.phase = IF HasData(r) THEN "data" ELSE "status"]
      /\ ran' = 0
      /\ UNCHANGED <<driver, ctr_tx, bus_reset, daddr, haddr>>
  BY DEF HostSetup
<1>2. /\ host'.req = r /\ host'.got = <<>> /\ host'.sent = 0
      /\ ~host'.short
      /\ host'.phase = IF HasData(r) THEN "data" ELSE "status"
  BY <1>1, Abandoned
<1>3. tx'.stat = "nak"
  BY <1>0, <1>1 DEF TypePeripheral
<1>4. Asked'
  BY <1>1, <1>2, <1>3, NoContent DEF Asked, Quiet, HasRead
<1> QED BY <1>1, <1>4 DEF TInv, Place, Quiet

LEMMA BusResetMoves ==
  ASSUME TInv, ~Overtaking, BusReset PROVE Idle' /\ TInv'
  BY DEF BusReset, Quiet, Idle, TInv, Place

LEMMA ResetMoves ==
  ASSUME IInv, TInv, Reset PROVE Idle /\ Idle' /\ TInv'
<1>1. Idle
  BY Where DEF TInv, Reset
<1>2. Idle'
  BY <1>1 DEF Reset, Idle
<1> QED BY <1>1, <1>2 DEF TInv, Place, Reset

LEMMA HostReadsMoves ==
  ASSUME IInv, TInv, HostReads PROVE Posted /\ Fetched' /\ TInv'
<1>0. TypeDriver /\ TypePeripheral /\ TypeHost
  BY Types DEF IInv
<1>1. Posted
  BY Where DEF TInv, HostReads
<1> DEFINE all == host.got \o tx.packet
           end == \/ Len(tx.packet) < bMaxPacketSize0
                  \/ Len(all) >= host.req.wLength
<1>2. /\ tx' = [tx EXCEPT !.stat = "nak"]
      /\ ctr_tx' = TRUE
      /\ host' = [host EXCEPT !.got = all,
                    !.phase = IF end THEN "status" ELSE host.phase]
      /\ UNCHANGED <<driver, rx, ctr_rx, is_setup, bus_reset, daddr, haddr,
                     ran>>
  BY DEF HostReads
<1> DEFINE len == Len(tx.packet)
<1>3. PICK n \in Nat :
        /\ HasRead(n) /\ n + len = Total - datasize
        /\ tx.packet = Packet(host.req, n, len)
        /\ len <= bMaxPacketSize0
        /\ IF usb_fsm_state = "DATA_IN" THEN len = bMaxPacketSize0
           ELSE len < bMaxPacketSize0 \/ Total >= host.req.wLength
  BY <1>1 DEF Posted, NextPacket
<1>4. len \in Nat
  BY <1>0 DEF TypePeripheral
<1>5. all = Content(host.req, n + len)
  <2>1. host.got = Content(host.req, n)
    BY <1>3 DEF HasRead
  <2> QED BY <1>3, <1>4, <2>1, ContentJoins
<1>6. Len(all) = n + len
  <2>1. n + len \in Nat
    BY <1>4
  <2> QED BY <1>5, <2>1 DEF Content
<1> HIDE DEF all, len
<1>7. /\ host'.got = all /\ host'.req = host.req
      /\ host'.phase = IF end THEN "status" ELSE "data"
  BY <1>0, <1>1, <1>2 DEF TypeHost, Posted
<1>8. end <=> usb_fsm_state # "DATA_IN"
  <2>1. /\ host.req \in Requests /\ host.req.wLength \in Nat
        /\ Total \in Nat /\ Total <= host.req.wLength
    BY <1>1, Constants DEF Posted, Sending, Heard, Total, AnswerSize, Least
  <2>2. /\ datasize \in Nat
        /\ usb_fsm_state = "DATA_IN" /\ datasize = 0 =>
             Total < host.req.wLength
        /\ datasize > 0 => usb_fsm_state = "DATA_IN"
    BY <1>0, <1>1 DEF Posted, Sending, Remaining, TypeDriver
  <2>3. n + len = Total - datasize
    BY <1>3 DEF len
  <2>4. CASE usb_fsm_state = "DATA_IN"
    <3>1. len = bMaxPacketSize0
      BY <1>3, <2>4 DEF len
    <3>2. Len(all) < host.req.wLength
      BY <1>6, <2>1, <2>2, <2>3, <2>4
    <3> QED BY <2>1, <2>4, <3>1, <3>2, <1>4, <1>6, Constants DEF len
  <2>5. CASE usb_fsm_state # "DATA_IN"
    <3>1. len < bMaxPacketSize0 \/ Total >= host.req.wLength
      BY <1>3, <2>5 DEF len
    <3>2. n + len = Total
      BY <2>1, <2>2, <2>3, <2>5, <1>4
    <3> QED BY <2>5, <3>1, <3>2, <1>6 DEF len
  <2> QED BY <2>4, <2>5
<1>9. host'.phase = IF usb_fsm_state = "DATA_IN" THEN "data" ELSE "status"
  BY <1>7, <1>8
<1>10. HasRead(Total - datasize)'
  <2>1. n + len = Total - datasize /\ n + len \in Nat
    BY <1>3, <1>4 DEF len
  <2>2. Total' = Total /\ datasize' = datasize
    BY <1>2, <1>7 DEF Total, driver
  <2> QED BY <1>5, <1>7, <2>1, <2>2 DEF HasRead
<1>11. tx'.stat = "nak"
  BY <1>0, <1>2 DEF TypePeripheral
<1>12. Sending'
  BY <1>1, <1>2, <1>7 DEF Posted, Sending, Heard, Reading, Remaining, Total,
     driver
<1>13. Fetched'
  BY <1>2, <1>9, <1>10, <1>11, <1>12 DEF Fetched, driver
<1>14. ~bus_reset'
  BY <1>2, <1>12 DEF Sending, Heard
<1> QED BY <1>1, <1>13, <1>14 DEF TInv, Place

LEMMA HostSendsMoves ==
  ASSUME IInv, TInv, NEW short \in BOOLEAN, HostSends(short)
  PROVE  Ready /\ Arrived' /\ TInv'
<1>0. TypeDriver /\ TypePeripheral /\ TypeHost
  BY Types DEF IInv
<1>1. Ready
  BY Where DEF TInv, HostSends
<1> DEFINE left == host.req.wLength - host.sent
           len  == Least(left, bMaxPacketSize0) - (IF short THEN 1 ELSE 0)
<1>2. /\ left \in Nat /\ left > 0
      /\ len \in Nat /\ len <= left /\ len <= bMaxPacketSize0
  BY PacketLength
<1>3. /\ rx' = [stat |-> "nak", request |-> NoRequest,
                packet |-> [i \in 1 .. len |-> <<host.req, host.sent + i>>]]
      /\ host' = [host EXCEPT !.sent = @ + len, !.short = short,
                    !.phase = IF short \/ len = left THEN "status" ELSE @]
      /\ ctr_rx' = TRUE /\ is_setup' = FALSE
      /\ UNCHANGED <<driver, tx, ctr_tx, bus_reset, daddr, haddr, ran>>
  BY DEF HostSends
<1>4. /\ Downloading /\ host.req = usb_req /\ host.sent = datasize
      /\ (usb_fsm_state = "DATA_OUT") <=> (left > bMaxPacketSize0)
  BY <1>1 DEF IInv, Progress, Together, Ready, Receiving, Heard
<1>5. /\ Expected = Least(bMaxPacketSize0, left)
      /\ len = Least(left, bMaxPacketSize0) - (IF short THEN 1 ELSE 0)
  BY <1>4 DEF Expected
<1>6. /\ short => len < Expected
      /\ ~short => len = Expected
      /\ ~short => (len = left <=> usb_fsm_state # "DATA_OUT")
  BY <1>2, <1>4, <1>5, Constants DEF Least
<1> HIDE DEF len, left
<1>7. /\ host'.req = host.req /\ host'.got = host.got
      /\ host'.short = short
      /\ host'.phase = IF short \/ len = left THEN "status" ELSE "data"
  BY <1>0, <1>1, <1>3 DEF TypeHost, Ready
<1>8. Len(rx'.packet) = len /\ rx'.stat = "nak"
  BY <1>2, <1>3
<1>9. Expected' = Expected
  BY <1>3 DEF Expected, driver
<1>10. Receiving'
  BY <1>1, <1>3, <1>7 DEF Ready, Receiving, Heard, HasRead, Downloading,
     driver
<1>11. IF host'.short
       THEN Len(rx'.packet) < Expected' /\ host'.phase = "status"
       ELSE /\ Len(rx'.packet) = Expected'
            /\ host'.phase = IF usb_fsm_state' = "DATA_OUT" THEN "data"
                             ELSE "status"
  <2>1. usb_fsm_state' = usb_fsm_state
    BY <1>3 DEF driver
  <2>2. CASE short
    BY <2>2, <1>6, <1>7, <1>8, <1>9
  <2>3. CASE ~short
    <3>1. Len(rx'.packet) = Expected'
      BY <2>3, <1>6, <1>8, <1>9
    <3>2. host'.phase = IF usb_fsm_state = "DATA_OUT" THEN "data"
                        ELSE "status"
      BY <2>3, <1>6, <1>7
    <3> QED BY <2>1, <2>3, <3>1, <3>2, <1>7
  <2> QED BY <2>2, <2>3
<1>12. Arrived'
  BY <1>3, <1>8, <1>10, <1>11 DEF Arrived
<1>13. ~bus_reset'
  BY <1>10 DEF Receiving, Heard
<1> QED BY <1>1, <1>12, <1>13 DEF TInv, Place

LEMMA HostStatusInMoves ==
  ASSUME IInv, TInv, HostStatusIn PROVE Offered /\ Acked' /\ TInv'
<1>0. TypeDriver /\ TypePeripheral /\ TypeHost
  BY Types DEF IInv
<1>1. Offered
  BY Where DEF TInv, HostStatusIn
<1>2. /\ tx' = [tx EXCEPT !.stat = "nak"] /\ ctr_tx' = TRUE
      /\ host' = [host EXCEPT !.phase = "done"]
      /\ UNCHANGED <<driver, rx, ctr_rx, is_setup, bus_reset, daddr, ran>>
  BY DEF HostStatusIn
<1>3. /\ host'.req = host.req /\ host'.got = host.got
      /\ host'.phase = "done" /\ tx'.stat = "nak"
  BY <1>0, <1>2 DEF TypeHost, TypePeripheral
<1>4. Acked'
  BY <1>1, <1>2, <1>3 DEF Offered, Acked, Acking, Heard, Reading, HasRead,
     Taken, driver
<1>5. ~bus_reset'
  BY <1>4 DEF Acked, Acking, Heard
<1> QED BY <1>1, <1>4, <1>5 DEF TInv, Place

LEMMA HostStatusOutMoves ==
  ASSUME IInv, TInv, HostStatusOut PROVE Opened /\ Closed' /\ TInv'
<1>0. TypeDriver /\ TypePeripheral /\ TypeHost
  BY Types DEF IInv
<1>1. Opened
  BY Where DEF TInv, HostStatusOut
<1>2. /\ rx' = [stat |-> "nak", packet |-> <<>>, request |-> NoRequest]
      /\ ctr_rx' = TRUE /\ is_setup' = FALSE
      /\ host' = [host EXCEPT !.phase = "done"]
      /\ UNCHANGED <<driver, tx, ctr_tx, bus_reset, daddr, haddr, ran>>
  BY DEF HostStatusOut
<1>3. /\ host'.req = host.req /\ host'.got = host.got
      /\ host'.phase = "done" /\ rx'.stat = "nak"
  BY <1>0, <1>2 DEF TypeHost
<1>4. Closed'
  BY <1>1, <1>2, <1>3 DEF Opened, Closed, Closing, Heard, Reading, HasRead,
     Total, driver
<1>5. ~bus_reset'
  BY <1>4 DEF Closed, Closing, Heard
<1> QED BY <1>1, <1>4, <1>5 DEF TInv, Place

LEMMA HostStalledMoves ==
  ASSUME IInv, TInv, HostStalled
  PROVE  Stalled /\ Stalled' /\ host'.phase = "failed" /\ TInv'
<1>0. TypeDriver /\ TypePeripheral /\ TypeHost
  BY Types DEF IInv
<1>1. /\ host.phase \in {"data", "status"}
      /\ IF (host.phase = "data") = host.req.in \/ ~HasData(host.req)
         THEN tx.stat = "stall" ELSE rx.stat = "stall"
      /\ host' = [host EXCEPT !.phase = "failed"]
      /\ UNCHANGED <<driver, peripheral, haddr, ran>>
  BY DEF HostStalled
<1>2. host.req.in \in BOOLEAN
  <2>1. host.req \in Requests \cup {NoRequest}
    BY <1>0 DEF TypeHost
  <2>2. NoRequest.in \in BOOLEAN
    BY DEF NoRequest
  <2>3. \A r \in Requests : r.in \in BOOLEAN
    BY Constants
  <2> QED BY <2>1, <2>2, <2>3
<1>3. host.phase = "data" => HasData(host.req)
  BY DEF IInv, Sizes
<1>4. Stalled
  <2>1. CASE tx.stat = "stall"
    <3>1. ~Opened
      <4> SUFFICES ASSUME Opened PROVE FALSE
        OBVIOUS
      <4>1. /\ rx.stat = "valid" /\ host.phase = "status" /\ host.req.in
            /\ HasData(host.req)
        BY DEF Opened, Closing, Reading
      <4> QED BY <1>1, <4>1
    <3> QED BY <1>1, <2>1, <3>1, Signs DEF TInv, Place
  <2>2. CASE rx.stat = "stall" /\ tx.stat # "stall"
    <3>1. ~((host.phase = "data") = host.req.in) /\ HasData(host.req)
      BY <1>1, <2>2
    <3>2. ~Offered
      <4> SUFFICES ASSUME Offered PROVE FALSE
        OBVIOUS
      <4>1. host.phase = "status" /\ StatusByIn(host.req)
        BY Signs
      <4> QED BY <1>2, <3>1, <4>1 DEF StatusByIn
    <3> QED BY <1>1, <2>2, <3>2, Signs DEF TInv, Place
  <2> QED BY <1>1, <2>1, <2>2
<1>5. /\ host'.req = host.req /\ host'.got = host.got
      /\ host'.short = host.short /\ host'.phase = "failed"
  BY <1>0, <1>1 DEF TypeHost
<1>6. Stalled'
  BY <1>1, <1>4, <1>5 DEF Stalled, Heard, HasRead, driver, peripheral
<1>7. ~bus_reset'
  BY <1>6 DEF Stalled, Heard
<1> QED BY <1>4, <1>5, <1>6, <1>7 DEF TInv, Place

-----------------------------------------------------------------------------
(***************************************************************************)
(* And the driver's.                                                       *)
(***************************************************************************)
\* A setup packet is read where one waits.
LEMMA SetupFound ==
  ASSUME IInv, TInv, NEW r \in Requests, SetupRead(r)
  PROVE  /\ Asked /\ host.req = r /\ ~bus_reset /\ ~calling
         /\ usb_req' = r /\ ctr_rx' = FALSE /\ ~bus_reset'
         /\ UNCHANGED <<calling, ctr_tx, is_setup, bus_reset, daddr, host,
                        haddr, ran>>
<1>1. /\ ~calling /\ ~bus_reset /\ ctr_rx /\ is_setup /\ rx.request = r
      /\ usb_req' = r /\ ctr_rx' = FALSE
      /\ UNCHANGED <<calling, ctr_tx, is_setup, bus_reset, daddr, host,
                     haddr, ran>>
  BY DEF SetupRead, Received, Polling
<1>2. Asked
  BY <1>1, Where DEF TInv
<1> QED BY <1>1, <1>2 DEF Asked

LEMMA StallBoth ==
  ASSUME TypePeripheral, Stall
  PROVE  tx'.stat = "stall" /\ rx'.stat = "stall" /\ usb_fsm_state' = "IDLE"
  BY DEF Stall, TypePeripheral

LEMMA RefusedMoves ==
  ASSUME IInv, TInv, NEW r \in Requests, Refused(r)
  PROVE  Asked /\ Stalled' /\ TInv'
<1>1. SetupRead(r) /\ ~Supported(r) /\ Stall
  BY DEF Refused
<1>2. /\ Asked /\ host.req = r /\ ~bus_reset /\ ~calling
      /\ usb_req' = r /\ ctr_rx' = FALSE /\ ~bus_reset'
      /\ UNCHANGED <<calling, ctr_tx, is_setup, bus_reset, daddr, host,
                     haddr, ran>>
  BY <1>1, SetupFound
<1>3. tx'.stat = "stall" /\ rx'.stat = "stall" /\ usb_fsm_state' = "IDLE"
  BY <1>1, StallBoth, Types DEF IInv
<1>4. Refusable(host.req)
  BY <1>1, <1>2 DEF Refusable
<1>5. host' = host
  BY <1>2
<1>6. Refusable(host'.req)
  BY <1>4, <1>5
<1>7. /\ host'.phase \in {"data", "status", "failed"}
      /\ host'.phase = "status" => StatusByIn(host'.req)
  BY <1>2 DEF Asked, StatusByIn
<1>8. Stalled'
  BY <1>2, <1>3, <1>6, <1>7 DEF Stalled, Heard, Asked, HasRead
<1> QED BY <1>2, <1>8 DEF TInv, Place

LEMMA ChunkPosted ==
  ASSUME NEW r \in Requests, host.req = r, UNCHANGED host,
         \A i \in 1 .. r.size : buffer'[i] = <<r, i>>,
         NEW off \in Nat, NEW size \in Nat, size <= AnswerSize(r),
         NEW zlp \in BOOLEAN,
         size > 0 => /\ off = AnswerSize(r) - size /\ Multiple(off)
                     /\ zlp = needs_zlp(AnswerSize(r), r.wLength),
         size = 0 => ~zlp,
         tx.stat # "valid", SendChunk(buffer', off, size, zlp),
         HasRead(AnswerSize(r) - size)
  PROVE  /\ Remaining' /\ NextPacket' /\ tx'.stat = "valid"
         /\ usb_fsm_state' \in {"DATA_IN", "LAST_DATA_IN"}
<1> DEFINE total == AnswerSize(r)
           len   == Least(size, bMaxPacketSize0)
<1>1. /\ len \in Nat /\ len <= size /\ len <= bMaxPacketSize0
      /\ tx' = [stat |-> "valid", packet |-> Packet(r, total - size, len)]
      /\ usb_fsm_state' \in {"DATA_IN", "LAST_DATA_IN"}
      /\ datasize' = size - len /\ datasize' <= total
      /\ datasize' > 0 =>
           /\ usb_fsm_state' = "DATA_IN"
           /\ dataoff' = total - datasize' /\ Multiple(dataoff')
           /\ usb_needs_zlp' = needs_zlp(total, r.wLength)
      /\ usb_fsm_state' = "DATA_IN" /\ datasize' = 0 =>
           total < r.wLength /\ ~usb_needs_zlp'
      /\ IF usb_fsm_state' = "DATA_IN" THEN len = bMaxPacketSize0
         ELSE len < bMaxPacketSize0 \/ total >= r.wLength
  BY ChunkSent
<1>2. total \in Nat
  BY Constants DEF AnswerSize, Least
<1> HIDE DEF total, len
<1>3. Total' = total /\ host'.req = r
  BY DEF Total, total
<1>4. Remaining'
  <2>1. \A i \in 1 .. host'.req.size : buffer'[i] = <<host'.req, i>>
    BY <1>3
  <2>2. Multiple(dataoff)' <=> Multiple(dataoff')
    BY DEF Multiple
  <2>3. /\ datasize' > 0 =>
             usb_needs_zlp' = needs_zlp(Total, host.req.wLength)'
        /\ usb_fsm_state' = "DATA_IN" /\ datasize' = 0 =>
             Total' < host'.req.wLength /\ ~usb_needs_zlp'
    BY <1>1, <1>3 DEF needs_zlp
  <2> QED BY <1>1, <1>3, <2>1, <2>2, <2>3 DEF Remaining
<1>5. tx'.packet = Packet(r, total - size, len) /\ tx'.stat = "valid"
  BY <1>1
<1>6. Len(Packet(r, total - size, len)) = len
  BY <1>1 DEF Packet
<1>7. NextPacket'
  <2>1. total - size \in Nat /\ HasRead(total - size)
    BY <1>2 DEF total
  <2>2. HasRead(total - size)'
    BY <2>1 DEF HasRead
  <2>3. (total - size) + len = Total' - datasize'
    BY <1>1, <1>2, <1>3
  <2> QED BY <1>1, <1>3, <1>5, <1>6, <2>1, <2>2, <2>3 DEF NextPacket, Packet
<1> QED BY <1>1, <1>4, <1>5, <1>7

LEMMA AnsweredMoves ==
  ASSUME IInv, TInv, NEW r \in Requests, Answered(r)
  PROVE  Asked /\ Posted' /\ TInv'
<1>0. TypeDriver /\ TypePeripheral /\ TypeHost
  BY Types DEF IInv
<1>1. /\ SetupRead(r) /\ SetupIn(r) /\ Supported(r) /\ HasData(r)
      /\ armed' = Callback(r)
      /\ buffer' = Prepared(r)
      /\ SendChunk(buffer', 0, AnswerSize(r),
                   needs_zlp(AnswerSize(r), r.wLength))
      /\ rx' = [rx EXCEPT !.stat = "nak"]
  BY DEF Answered
<1>2. /\ Asked /\ host.req = r /\ ~bus_reset /\ ~calling
      /\ usb_req' = r /\ ctr_rx' = FALSE /\ ~bus_reset'
      /\ UNCHANGED <<calling, ctr_tx, is_setup, bus_reset, daddr, host,
                     haddr, ran>>
  BY <1>1, SetupFound
<1>3. \A i \in 1 .. r.size : buffer'[i] = <<r, i>>
  BY <1>1, Constants DEF Prepared
<1>4. AnswerSize(r) \in Nat
  BY Constants DEF AnswerSize, Least
<1>5. Multiple(0)
  BY Constants DEF Multiple
<1>6. /\ needs_zlp(AnswerSize(r), r.wLength) \in BOOLEAN
      /\ AnswerSize(r) = 0 => ~needs_zlp(AnswerSize(r), r.wLength)
  BY DEF needs_zlp
<1>7. tx.stat # "valid"
  BY <1>2 DEF Asked
<1>8. HasRead(AnswerSize(r) - AnswerSize(r))
  BY <1>2, <1>4 DEF Asked
<1>9. /\ Remaining' /\ NextPacket' /\ tx'.stat = "valid"
      /\ usb_fsm_state' \in {"DATA_IN", "LAST_DATA_IN"}
  BY <1>1, <1>2, <1>3, <1>4, <1>5, <1>6, <1>7, <1>8, ChunkPosted
<1>10. Reading' /\ host'.phase = "data"
  BY <1>1, <1>2 DEF Reading, Asked, SetupIn
<1>11. rx'.stat = "nak"
  BY <1>0, <1>1 DEF TypePeripheral
<1>12. Sending'
  BY <1>1, <1>2, <1>9, <1>10, <1>11 DEF Sending, Heard, Asked
<1>13. Posted'
  BY <1>2, <1>9, <1>10, <1>12 DEF Posted, Asked
<1> QED BY <1>2, <1>13 DEF TInv, Place

LEMMA DoneMoves ==
  ASSUME IInv, TInv, NEW r \in Requests, Done(r)
  PROVE  Asked /\ Offered' /\ TInv'
<1>0. TypeDriver /\ TypePeripheral /\ TypeHost
  BY Types DEF IInv
<1>1. /\ SetupRead(r) /\ SetupIn(r) /\ Supported(r) /\ ~HasData(r)
      /\ armed' = Callback(r)
      /\ tx' = Written(IF r.what \in {"set_halt", "clear_halt"}
                       THEN [tx EXCEPT !.stat = "nak"] ELSE tx, <<>>)
      /\ usb_fsm_state' = "STATUS_IN"
  BY DEF Done
<1>2. /\ Asked /\ host.req = r /\ ~bus_reset /\ ~calling
      /\ usb_req' = r /\ ctr_rx' = FALSE /\ ~bus_reset'
      /\ UNCHANGED <<calling, ctr_tx, is_setup, bus_reset, daddr, host,
                     haddr, ran>>
  BY <1>1, SetupFound
<1>3. tx'.stat = "valid"
  BY <1>0, <1>1, <1>2 DEF Written, TypePeripheral, Asked
<1>4. Taken' /\ ~Reading'
  <2>1. Download(host'.req) = 0
    BY <1>1, <1>2 DEF Download
  <2> QED BY <1>1, <1>2, <2>1, Constants DEF Taken, Reading
<1>5. host'.phase = "status"
  BY <1>1, <1>2 DEF Asked
<1>6. Acking'
  BY <1>1, <1>2, <1>4 DEF Acking, Heard, Asked, HasRead
<1>7. Offered'
  BY <1>2, <1>3, <1>5, <1>6 DEF Offered, Asked
<1> QED BY <1>2, <1>7 DEF TInv, Place

LEMMA SetupOutMoves ==
  ASSUME IInv, TInv, NEW r \in Requests, SetupOut(r)
  PROVE  Asked /\ (Ready' \/ Stalled') /\ TInv'
<1>0. TypeDriver /\ TypePeripheral /\ TypeHost
  BY Types DEF IInv
<1>1. SetupRead(r) /\ ~SetupIn(r) /\ armed' = FALSE
  BY DEF SetupOut
<1>2. /\ Asked /\ host.req = r /\ ~bus_reset /\ ~calling
      /\ usb_req' = r /\ ctr_rx' = FALSE /\ ~bus_reset'
      /\ UNCHANGED <<calling, ctr_tx, is_setup, bus_reset, daddr, host,
                     haddr, ran>>
  BY <1>1, SetupFound
<1>3. host' = host /\ HasRead(0)'
  BY <1>2 DEF HasRead, Asked
<1>4. CASE r.wLength > DFU_TRANSFER_SIZE
  <2>1. Stall
    BY <1>4 DEF SetupOut
  <2>2. tx'.stat = "stall" /\ rx'.stat = "stall" /\ usb_fsm_state' = "IDLE"
    BY <1>0, <2>1, StallBoth
  <2>3. Refusable(host'.req)
    BY <1>1, <1>2, <1>4 DEF Refusable, SetupIn
  <2>4. host'.phase = "status" => StatusByIn(host'.req)
    BY <1>2 DEF Asked, StatusByIn
  <2>5. Stalled'
    BY <1>2, <1>3, <2>2, <2>3, <2>4 DEF Stalled, Heard, Asked
  <2> QED BY <1>2, <2>5 DEF TInv, Place
<1>5. CASE ~(r.wLength > DFU_TRANSFER_SIZE)
  <2>1. /\ usb_fsm_state' = IF r.wLength > bMaxPacketSize0
                            THEN "DATA_OUT" ELSE "LAST_DATA_OUT"
        /\ usb_force_nak' = FALSE
        /\ rx' = [rx EXCEPT !.stat = "valid"] /\ UNCHANGED tx
    BY <1>5 DEF SetupOut
  <2>2. rx'.stat = "valid"
    BY <1>0, <2>1 DEF TypePeripheral
  <2>3. host'.phase = "data" /\ ~host'.short
    BY <1>1, <1>2 DEF Asked, SetupIn
  <2>4. Receiving'
    BY <1>1, <1>2, <1>3, <2>1 DEF Receiving, Heard, Asked, Downloading
  <2>5. Ready'
    BY <1>2, <2>2, <2>3, <2>4 DEF Ready
  <2> QED BY <1>2, <2>5 DEF TInv, Place
<1> QED BY <1>4, <1>5

\* An event in the middle of a transfer is found where one is due.
LEMMA ReceivedAt ==
  ASSUME IInv, TInv, ReceivedOut
  PROVE  /\ usb_fsm_state \in {"DATA_OUT", "LAST_DATA_OUT"} => Arrived
         /\ usb_fsm_state = "STATUS_OUT" => Closed
         /\ usb_fsm_state \in {"DATA_OUT", "LAST_DATA_OUT", "STATUS_OUT"}
<1>1. ctr_rx /\ ~is_setup
  BY DEF ReceivedOut, Received
<1>2. Closed \/ Arrived
  BY <1>1, Where DEF TInv
<1> QED BY <1>2, Signs DEF Downloading

LEMMA SentAt ==
  ASSUME IInv, TInv, Sent
  PROVE  /\ usb_fsm_state \in {"DATA_IN", "LAST_DATA_IN"} => Fetched
         /\ usb_fsm_state = "STATUS_IN" => Acked
         /\ usb_fsm_state \in {"DATA_IN", "LAST_DATA_IN", "STATUS_IN"}
<1>1. ctr_tx
  BY DEF Sent
<1>2. Fetched \/ Acked
  BY <1>1, Where DEF TInv
<1> QED BY <1>2, Signs DEF Fetched, Sending

LEMMA DataOutFailsMoves ==
  ASSUME IInv, TInv, DataOutFails PROVE Arrived /\ Stalled' /\ TInv'
<1>0. TypeDriver /\ TypePeripheral /\ TypeHost
  BY Types DEF IInv
<1>1. /\ ReceivedOut /\ usb_fsm_state \in {"DATA_OUT", "LAST_DATA_OUT"}
      /\ ~ChunkFits /\ Read /\ Stall
      /\ UNCHANGED <<usb_req, calling, ctr_tx, bus_reset, daddr, host, ran>>
  BY DEF DataOutFails
<1>2. Arrived
  BY <1>1, ReceivedAt
<1>3. ctr_rx' = FALSE /\ ~(Len(rx.packet) >= Expected)
  BY <1>1, <1>2 DEF Arrived, Read, ChunkFits, Readable
<1>4. Downloading /\ Expected \in Nat
  <2>1. Downloading
    BY <1>1 DEF Downloading
  <2> QED BY <1>0, <2>1, Constants
          DEF IInv, Progress, Expected, Least, TypeDriver
<1>5. host.short
  BY <1>2, <1>3, <1>4 DEF Arrived
<1>6. tx'.stat = "stall" /\ rx'.stat = "stall" /\ usb_fsm_state' = "IDLE"
  BY <1>0, <1>1, StallBoth
<1>7. StatusByIn(host'.req)
  BY <1>1, <1>2, Outward DEF StatusByIn
<1>8. Stalled'
  BY <1>1, <1>2, <1>3, <1>5, <1>6, <1>7
     DEF Stalled, Arrived, Receiving, Heard, HasRead
<1>9. ~bus_reset'
  BY <1>8 DEF Stalled, Heard
<1> QED BY <1>2, <1>8, <1>9 DEF TInv, Place

LEMMA DataOutMoves ==
  ASSUME IInv, TInv, DataOut PROVE Arrived /\ Ready' /\ TInv'
<1>0. TypeDriver /\ TypePeripheral /\ TypeHost
  BY Types DEF IInv
<1>1. /\ ReceivedOut /\ usb_fsm_state = "DATA_OUT" /\ RecvChunk
      /\ usb_fsm_state' = IF usb_req.wLength - datasize' <= bMaxPacketSize0
                          THEN "LAST_DATA_OUT" ELSE "DATA_OUT"
      /\ rx' = Reopened
      /\ UNCHANGED <<usb_req, usb_force_nak, armed, calling, tx, ctr_tx,
                     bus_reset, daddr, host, ran>>
  BY DEF DataOut
<1>2. Arrived
  BY <1>1, ReceivedAt
<1>3. Downloading
  BY <1>1 DEF Downloading
<1>4. /\ ctr_rx' = FALSE /\ Len(rx.packet) = Expected /\ Expected \in Nat
  BY <1>1, <1>3, ChunkReceived
<1>5. ~host.short /\ host.phase = "data"
  BY <1>1, <1>2, <1>4 DEF Arrived
<1>6. rx'.stat = "valid"
  <2>1. Readable /\ ~usb_force_nak
    BY <1>2 DEF Arrived, Receiving, Readable
  <2> QED BY <1>0, <1>1, <2>1 DEF Reopened, TypePeripheral
<1>7. Receiving'
  BY <1>1, <1>2 DEF Arrived, Receiving, Heard, HasRead, Downloading
<1>8. Ready'
  BY <1>1, <1>4, <1>5, <1>6, <1>7 DEF Ready
<1>9. ~bus_reset'
  BY <1>7 DEF Receiving, Heard
<1> QED BY <1>2, <1>8, <1>9 DEF TInv, Place

LEMMA LastDataOutMoves ==
  ASSUME IInv, TInv, LastDataOut
  PROVE  /\ Arrived /\ ~host.short /\ TInv'
         /\ IF Supported(host.req) THEN Offered' ELSE Stalled'
<1>0. TypeDriver /\ TypePeripheral /\ TypeHost
  BY Types DEF IInv
<1>1. /\ ReceivedOut /\ usb_fsm_state = "LAST_DATA_OUT" /\ RecvChunk
      /\ IF Supported(usb_req)
         THEN /\ tx' = Written(tx, <<>>)
              /\ usb_fsm_state' = "STATUS_IN"
              /\ armed' = (armed \/ Callback(usb_req))
         ELSE Stall
      /\ UNCHANGED <<usb_req, calling, ctr_tx, bus_reset, daddr, host, ran>>
  BY DEF LastDataOut
<1>2. Arrived
  BY <1>1, ReceivedAt
<1>3. Downloading
  BY <1>1 DEF Downloading
<1>4. /\ ctr_rx' = FALSE /\ Len(rx.packet) = Expected /\ Expected \in Nat
      /\ datasize' = datasize + Expected
      /\ \A i \in 1 .. datasize' : buffer'[i] = <<usb_req, i>>
  BY <1>1, <1>3, ChunkReceived
<1>5. ~host.short /\ host.phase = "status"
  BY <1>1, <1>2, <1>4 DEF Arrived
<1>6. host.req = usb_req
  BY <1>2 DEF Arrived, Receiving, Heard
<1>7. CASE Supported(usb_req)
  <2>1. tx'.stat = "valid"
    BY <1>1, <1>2, <1>7 DEF Written, Arrived, Receiving
  <2>2. Taken' /\ ~Reading'
    <3>1. /\ usb_req \in Requests /\ ~SetupIn(usb_req)
          /\ usb_req.wLength <= DFU_TRANSFER_SIZE
          /\ usb_req.wLength \in Nat /\ datasize \in Nat
          /\ datasize < usb_req.wLength
          /\ ~(usb_req.wLength - datasize > bMaxPacketSize0)
      BY <1>0, <1>1, <1>3, Constants DEF IInv, Progress, TypeDriver
    <3>2. Expected = usb_req.wLength - datasize
      BY <3>1, Constants DEF Expected, Least
    <3>3. datasize' = usb_req.wLength
      BY <1>4, <3>1, <3>2
    <3>4. host'.req = usb_req /\ Download(usb_req) = usb_req.wLength
      BY <1>1, <1>6, <3>1 DEF Download
    <3> QED BY <1>4, <3>1, <3>3, <3>4 DEF Taken, Reading, SetupIn
  <2>3. armed' = Callback(usb_req)
    <3>1. ~armed
      BY <1>2 DEF Arrived, Receiving
    <3>2. armed' <=> Callback(usb_req)
      BY <1>1, <1>7, <3>1
    <3>3. armed' \in BOOLEAN /\ Callback(usb_req) \in BOOLEAN
      BY <1>1, <1>7 DEF Callback
    <3> QED BY <3>2, <3>3
  <2>4. Acking'
    BY <1>1, <1>2, <1>4, <1>6, <1>7, <2>2, <2>3
       DEF Acking, Arrived, Receiving, Heard, HasRead
  <2>5. Offered'
    BY <1>1, <1>2, <1>5, <2>1, <2>4 DEF Offered, Arrived, Receiving
  <2>6. ~bus_reset'
    BY <2>4 DEF Acking, Heard
  <2> QED BY <1>2, <1>5, <1>6, <1>7, <2>5, <2>6 DEF TInv, Place
<1>8. CASE ~Supported(usb_req)
  <2>1. tx'.stat = "stall" /\ rx'.stat = "stall" /\ usb_fsm_state' = "IDLE"
    BY <1>0, <1>1, <1>8, StallBoth
  <2>2. Refusable(host'.req)
    BY <1>1, <1>6, <1>8 DEF Refusable
  <2>3. StatusByIn(host'.req)
    BY <1>1, <1>2, Outward DEF StatusByIn
  <2>4. Stalled'
    BY <1>1, <1>2, <1>4, <1>5, <2>1, <2>2, <2>3
       DEF Stalled, Arrived, Receiving, Heard, HasRead
  <2>5. ~bus_reset'
    BY <2>4 DEF Stalled, Heard
  <2> QED BY <1>2, <1>5, <1>6, <1>8, <2>4, <2>5 DEF TInv, Place
<1> QED BY <1>7, <1>8

LEMMA StatusOutMoves ==
  ASSUME IInv, TInv, StatusOut
  PROVE  /\ Closed /\ Over' /\ TInv'
         /\ ran' = IF Callback(host.req) THEN 1 ELSE 0
<1>0. TypeDriver /\ TypePeripheral /\ TypeHost
  BY Types DEF IInv
<1>1. /\ ReceivedOut /\ usb_fsm_state = "STATUS_OUT" /\ Read
      /\ usb_fsm_state' = "IDLE"
      /\ ran' = IF armed THEN ran + 1 ELSE ran
      /\ UNCHANGED <<usb_req, buffer, ctr_tx, bus_reset, daddr, host>>
  BY DEF StatusOut
<1>2. Closed
  BY <1>1, ReceivedAt
<1>3. ctr_rx' = FALSE
  BY <1>1, <1>2 DEF Closed, Read, Readable
<1>4. ran' = IF Callback(host.req) THEN 1 ELSE 0
  BY <1>1, <1>2 DEF Closed, Closing, Heard
<1>5. /\ host' = host /\ host.phase = "done" /\ host.req \in Requests
      /\ ~ctr_tx' /\ ~bus_reset'
  BY <1>1, <1>2 DEF Closed, Closing, Heard
<1>6. HasRead(Answer(host.req))'
  <2>1. HasRead(Total) /\ Answer(host.req) = Total
    BY <1>2 DEF Closed, Closing, Reading, Answer, Total
  <2> QED BY <1>5, <2>1 DEF HasRead
<1>7. Taken'
  <2>1. Download(host'.req) = 0
    BY <1>2, <1>5 DEF Closed, Closing, Reading, Download, SetupIn
  <2> QED BY <2>1, Constants DEF Taken
<1>8. Over'
  BY <1>1, <1>3, <1>4, <1>5, <1>6, <1>7 DEF Over
<1> QED BY <1>2, <1>4, <1>5, <1>8 DEF TInv, Place

LEMMA StatusInMoves ==
  ASSUME IInv, TInv, StatusIn
  PROVE  /\ Acked /\ Over' /\ TInv' /\ host.req = usb_req
         /\ ran' = IF Callback(host.req) THEN 1 ELSE 0
<1>1. /\ Sent /\ ctr_tx' = FALSE /\ usb_fsm_state = "STATUS_IN"
      /\ usb_fsm_state' = "IDLE"
      /\ ran' = IF armed THEN ran + 1 ELSE ran
      /\ UNCHANGED <<usb_req, buffer, ctr_rx, bus_reset, host>>
  BY DEF StatusIn, ControlIn
<1>2. Acked
  BY <1>1, SentAt
<1>3. ran' = IF Callback(host.req) THEN 1 ELSE 0
  BY <1>1, <1>2 DEF Acked, Acking, Heard
<1>4. /\ host' = host /\ host.phase = "done" /\ host.req \in Requests
      /\ ~ctr_rx' /\ ~bus_reset' /\ host.req = usb_req
  BY <1>1, <1>2 DEF Acked, Acking, Heard
<1>5. HasRead(Answer(host.req))'
  <2>1. HasRead(0)
    BY <1>2 DEF Acked, Acking
  <2>2. Answer(host.req) = 0
    BY <1>2 DEF Acked, Acking, Reading, Answer
  <2> QED BY <1>4, <2>1, <2>2 DEF HasRead
<1>6. Taken'
  BY <1>1, <1>2 DEF Acked, Acking, Taken
<1>7. Over'
  BY <1>1, <1>3, <1>4, <1>5, <1>6 DEF Over
<1> QED BY <1>2, <1>3, <1>4, <1>7 DEF TInv, Place

LEMMA CallbackReturnsMoves ==
  ASSUME IInv, TInv, CallbackReturns
  PROVE  /\ (Idle /\ Idle') \/ (Asked /\ Asked') \/ (Over /\ Over')
         /\ TInv'
<1>1. Idle \/ Asked \/ Over
  BY Where DEF TInv, CallbackReturns
<1>2. UNCHANGED <<usb_fsm_state, usb_req, buffer, peripheral, host, ran>>
  BY DEF CallbackReturns
<1>3. CASE Idle
  <2>1. Idle'
    BY <1>2, <1>3 DEF Idle, peripheral
  <2> QED BY <1>2, <1>3, <2>1 DEF peripheral, TInv, Place
<1>4. CASE Asked
  <2>1. Asked' /\ ~bus_reset'
    BY <1>2, <1>4 DEF Asked, HasRead, peripheral
  <2> QED BY <1>4, <2>1 DEF TInv, Place
<1>5. CASE Over
  <2>1. Over'
    BY <1>2, <1>5 DEF Over, HasRead, Taken, peripheral
  <2> QED BY <1>2, <1>5, <2>1 DEF peripheral, TInv, Place, Over
<1> QED BY <1>1, <1>3, <1>4, <1>5

LEMMA NothingUnexpected ==
  ASSUME IInv, TInv PROVE ~UnexpectedOut /\ ~UnexpectedIn
  BY ReceivedAt, SentAt DEF UnexpectedOut, UnexpectedIn, ControlIn

LEMMA DataInMoves ==
  ASSUME IInv, TInv, DataIn PROVE Fetched /\ Posted' /\ TInv'
<1>1. /\ Sent /\ ctr_tx' = FALSE /\ usb_fsm_state = "DATA_IN"
      /\ SendChunk(buffer, dataoff, datasize, usb_needs_zlp)
      /\ UNCHANGED <<usb_req, armed, buffer, calling, ctr_rx, bus_reset,
                     host, rx, ran>>
  BY DEF DataIn, ControlIn
<1>2. Fetched
  BY <1>1, SentAt
<1>3. /\ host.req \in Requests /\ host.phase = "data"
      /\ Remaining /\ tx.stat = "nak" /\ HasRead(Total - datasize)
  BY <1>1, <1>2 DEF Fetched, Sending, Heard
<1>4. /\ dataoff \in Nat /\ datasize \in Nat /\ usb_needs_zlp \in BOOLEAN
  BY Constants, Types DEF IInv, TypeDriver
<1>5. /\ SendChunk(buffer', dataoff, datasize, usb_needs_zlp)
      /\ \A i \in 1 .. host.req.size : buffer'[i] = <<host.req, i>>
  BY <1>1, <1>3 DEF Remaining
<1>6. /\ datasize <= AnswerSize(host.req)
      /\ datasize > 0 => /\ dataoff = AnswerSize(host.req) - datasize
                         /\ Multiple(dataoff)
                         /\ usb_needs_zlp = needs_zlp(AnswerSize(host.req),
                                                      host.req.wLength)
      /\ datasize = 0 => ~usb_needs_zlp
      /\ HasRead(AnswerSize(host.req) - datasize)
  BY <1>1, <1>3 DEF Remaining, Total
<1>7. /\ Remaining' /\ NextPacket' /\ tx'.stat = "valid"
      /\ usb_fsm_state' \in {"DATA_IN", "LAST_DATA_IN"}
  BY <1>1, <1>3, <1>4, <1>5, <1>6, ChunkPosted
<1>8. Sending'
  BY <1>1, <1>2, <1>7 DEF Fetched, Sending, Heard, Reading
<1>9. Posted'
  BY <1>1, <1>3, <1>7, <1>8 DEF Posted
<1>10. ~bus_reset'
  BY <1>8 DEF Sending, Heard
<1> QED BY <1>2, <1>9, <1>10 DEF TInv, Place

LEMMA LastDataInMoves ==
  ASSUME IInv, TInv, LastDataIn PROVE Fetched /\ Opened' /\ TInv'
<1>0. TypeDriver /\ TypePeripheral /\ TypeHost
  BY Types DEF IInv
<1>1. /\ Sent /\ ctr_tx' = FALSE /\ usb_fsm_state = "LAST_DATA_IN"
      /\ usb_fsm_state' = "STATUS_OUT"
      /\ rx' = [rx EXCEPT !.stat = "valid"]
      /\ UNCHANGED <<usb_req, armed, calling, ctr_rx, bus_reset, host, ran>>
  BY DEF LastDataIn, ControlIn
<1>2. Fetched
  BY <1>1, SentAt
<1>3. rx'.stat = "valid" /\ host' = host /\ host.phase = "status"
  BY <1>0, <1>1, <1>2 DEF TypePeripheral, Fetched
<1>4. datasize = 0 /\ Total \in Nat
  BY <1>0, <1>1, <1>2, Constants
     DEF TypeDriver, Fetched, Sending, Heard, Remaining, Total, AnswerSize,
         Least
<1>5. HasRead(Total) /\ HasRead(Total)'
  BY <1>2, <1>3, <1>4 DEF Fetched, HasRead, Total
<1>6. Closing'
  BY <1>1, <1>2, <1>5 DEF Closing, Fetched, Sending, Heard, Reading
<1>7. Opened'
  BY <1>1, <1>2, <1>3, <1>6 DEF Opened, Fetched, Sending
<1>8. ~bus_reset'
  BY <1>6 DEF Closing, Heard
<1> QED BY <1>2, <1>7, <1>8 DEF TInv, Place

-----------------------------------------------------------------------------
(***************************************************************************)
(* What the places say.                                                    *)
(***************************************************************************)
LEMMA PlaceInit == Init => TInv
  BY DEF Init, TInv, Place, Idle

LEMMA PlaceStutters == ASSUME TInv, UNCHANGED vars PROVE TInv'
<1> USE DEF vars, driver, peripheral
<1>1. /\ Idle => Idle'
      /\ Asked => Asked'
  BY DEF Idle, Asked, HasRead
<1>2. Sending => Sending'
  BY DEF Sending, Heard, Reading, Remaining, Total
<1>3. (Posted => Posted') /\ (Fetched => Fetched')
  <2>1. NextPacket => NextPacket'
    BY DEF NextPacket, HasRead, Total
  <2> QED BY <1>2, <2>1 DEF Posted, Fetched, HasRead, Total
<1>4. (Opened => Opened') /\ (Closed => Closed')
  BY DEF Opened, Closed, Closing, Heard, Reading, HasRead, Total
<1>5. (Offered => Offered') /\ (Acked => Acked')
  BY DEF Offered, Acked, Acking, Heard, Reading, HasRead, Taken
<1>6. (Ready => Ready') /\ (Arrived => Arrived')
  BY DEF Ready, Arrived, Receiving, Heard, HasRead, Downloading, Expected
<1>7. (Over => Over') /\ (Stalled => Stalled')
  BY DEF Over, Stalled, Heard, HasRead, Taken
<1> QED BY <1>1, <1>3, <1>4, <1>5, <1>6, <1>7 DEF TInv, Place

LEMMA PlaceStep ==
  ASSUME ~Overtaking PROVE IInv /\ TInv /\ [Next]_vars => TInv'
<1> SUFFICES ASSUME IInv, TInv, [Next]_vars PROVE TInv'
  OBVIOUS
<1>1. CASE Host
  BY <1>1, HostSetupMoves, HostReadsMoves, HostSendsMoves, HostStatusInMoves,
     HostStatusOutMoves, HostStalledMoves, BusResetMoves DEF Host
<1>2. CASE Driver
  BY <1>2, ResetMoves, RefusedMoves, AnsweredMoves, DoneMoves, SetupOutMoves,
     DataOutFailsMoves, DataOutMoves, LastDataOutMoves, StatusOutMoves,
     CallbackReturnsMoves, NothingUnexpected, DataInMoves, LastDataInMoves,
     StatusInMoves DEF Driver
<1>3. CASE UNCHANGED vars
  BY <1>3, PlaceStutters
<1> QED BY <1>1, <1>2, <1>3 DEF Next

LEMMA PlaceKept == ASSUME ~Overtaking PROVE Spec => [](IInv /\ TInv)
<1>1. IInv /\ TInv /\ [Next]_vars => TInv'
  BY PlaceStep
<1> QED BY <1>1, PlaceInit, UsbInit, UsbStep, PTL DEF Spec

\* If the driver polls in time, the host reads what the request it made asks
\* for, each byte once and in order, and the data stage ends where the answer
\* ends (usb_control_send_chunk and _needs_zlp, usb.c:342-361, 582).
THEOREM AnswersExact ==
  ASSUME ~Overtaking PROVE Spec => []AnswersAreExact
<1>1. IInv /\ TInv => AnswersAreExact
  <2> SUFFICES ASSUME IInv, TInv, host.req.in
               PROVE  /\ host.got = Content(host.req, Len(host.got))
                      /\ host.phase \in {"status", "done"} /\ HasData(host.req)
                           => Len(host.got) = AnswerSize(host.req)
    BY DEF AnswersAreExact
  <2>1. ASSUME NEW n, HasRead(n),
               host.phase \in {"status", "done"} /\ HasData(host.req) =>
                 n = AnswerSize(host.req)
        PROVE  /\ host.got = Content(host.req, Len(host.got))
               /\ host.phase \in {"status", "done"} /\ HasData(host.req) =>
                    Len(host.got) = AnswerSize(host.req)
    <3>1. n \in Nat /\ host.got = Content(host.req, n)
      BY <2>1 DEF HasRead
    <3>2. Len(host.got) = n
      BY <3>1 DEF Content
    <3> QED BY <2>1, <3>1, <3>2
  <2>2. ~Idle
    BY Abandoned DEF Idle, NoRequest
  <2>3. CASE Asked \/ Stalled
    <3>1. /\ HasRead(0)
          /\ ~(host.phase \in {"status", "done"} /\ HasData(host.req))
      BY <2>3 DEF Asked, Stalled, StatusByIn
    <3> QED BY <2>1, <3>1
  <2>4. CASE Posted
    <3>1. PICK n \in Nat : HasRead(n)
      BY <2>4 DEF Posted, NextPacket
    <3> QED BY <2>1, <2>4, <3>1 DEF Posted
  <2>5. CASE Fetched
    <3>1. /\ datasize \in Nat /\ Total \in Nat
          /\ usb_fsm_state # "DATA_IN" => datasize = 0
      BY <2>5, Types, Constants
         DEF IInv, TypeDriver, Fetched, Sending, Heard, Remaining, Total,
             AnswerSize, Least
    <3>2. /\ HasRead(Total - datasize)
          /\ host.phase = IF usb_fsm_state = "DATA_IN" THEN "data"
                          ELSE "status"
      BY <2>5 DEF Fetched
    <3>3. host.phase \in {"status", "done"} => Total - datasize = Total
      BY <3>1, <3>2
    <3> QED BY <2>1, <3>2, <3>3 DEF Total
  <2>6. CASE Opened \/ Closed
    BY <2>1, <2>6 DEF Opened, Closed, Closing, Total
  <2>7. CASE Offered \/ Acked
    <3>1. HasRead(0) /\ ~HasData(host.req)
      BY <2>7 DEF Offered, Acked, Acking, Reading
    <3> QED BY <2>1, <3>1
  <2>8. ~Ready /\ ~Arrived
    BY Outward
  <2>9. CASE Over
    BY <2>1, <2>9 DEF Over, Answer
  <2> QED BY <2>2, <2>3, <2>4, <2>5, <2>6, <2>7, <2>8, <2>9 DEF TInv, Place
<1> QED BY <1>1, PlaceKept, PTL

\* If the driver polls in time, the completion callback of a request has run
\* once when the transfer is over and its events have been polled, and no
\* other runs (usb_complete_cb, usb.c:549, 640 and 684-707).
THEOREM CallbackRuns ==
  ASSUME ~Overtaking PROVE Spec => []CallbackIsNotLost
<1>1. IInv /\ TInv => CallbackIsNotLost
  BY Where, Signs DEF CallbackIsNotLost, Quiet, TInv, Over
<1> QED BY <1>1, PlaceKept, PTL

\* If the driver polls in time, nothing fails but what it refuses or the host
\* cuts short: no other order of events ends in _stall_transaction.
THEOREM OnlyRefused ==
  ASSUME ~Overtaking PROVE Spec => []OnlyRefusalsFail
<1>1. IInv /\ TInv => OnlyRefusalsFail
  BY Where DEF OnlyRefusalsFail, TInv, Stalled, Refusable
<1> QED BY <1>1, PlaceKept, PTL

\* If the driver polls in time, a new address is latched only when the host
\* has seen the status stage of the request that sets it (usb.c:709-714).
THEOREM AddressLatched ==
  ASSUME ~Overtaking PROVE Spec => AddressIsLatchedLate
<1>1. IInv /\ TInv /\ [Next]_vars =>
        (daddr' = 1 /\ daddr = 0 =>
           host.phase = "done" /\ host.req.what = "set_address")
  <2> SUFFICES ASSUME IInv, TInv, [Next]_vars, daddr' = 1, daddr = 0
               PROVE  host.phase = "done" /\ host.req.what = "set_address"
    OBVIOUS
  <2>1. StatusIn
    <3>1. CASE Host
      BY <3>1 DEF Host, HostSetup, HostReads, HostSends, HostStatusIn,
         HostStatusOut, HostStalled, BusReset, peripheral
    <3>2. CASE Driver
      BY <3>2 DEF Driver, Reset, Refused, Answered, Done, SetupOut, SetupRead,
         DataOutFails, DataOut, LastDataOut, StatusOut, CallbackReturns,
         UnexpectedOut, DataIn, LastDataIn, UnexpectedIn, peripheral
    <3> QED BY <3>1, <3>2 DEF Next, vars, peripheral
  <2>2. Acked /\ host.req = usb_req
    BY <2>1, StatusInMoves
  <2> QED BY <2>1, <2>2 DEF StatusIn, Acked
<1>2. IInv /\ TInv /\ [Next]_vars =>
        [daddr' = 1 /\ daddr = 0 =>
           host.phase = "done" /\ host.req.what = "set_address"]_vars
  BY <1>1
<1> QED BY <1>2, PlaceKept, PTL DEF Spec, AddressIsLatchedLate

-----------------------------------------------------------------------------
(***************************************************************************)
(* The refinement: what each place shows of the transfer.                  *)
(***************************************************************************)
\* What the mapping takes for the bytes the request was served with.
Carried == IF State \in {"served", "over"}
           THEN SubSeq(buffer, 1, Download(host.req)) ELSE <<>>

Whole == Content(host.req, Download(host.req))

View ==
  /\ Idle => State = "none" /\ Carried = <<>>
  /\ Asked \/ Ready \/ Arrived => State = "open" /\ Carried = <<>>
  /\ Posted \/ Fetched \/ Opened \/ Offered =>
       State = "served" /\ Carried = Whole
  /\ Closed \/ Acked \/ Over => State = "over" /\ Carried = Whole
  /\ Stalled => /\ State = IF host.phase = "failed" THEN "failed" ELSE "open"
                /\ Carried = <<>>

LEMMA TakenWhole ==
  ASSUME host.req \in Requests, Taken
  PROVE  SubSeq(buffer, 1, Download(host.req)) = Whole
<1> DEFINE n == Download(host.req)
<1>1. n \in Nat
  BY Constants DEF Download
<1>2. Holds(buffer, host.req, 0 + 1, 0 + n)
  BY <1>1 DEF Taken, Holds
<1> HIDE DEF n
<1>3. SubSeq(buffer, 0 + 1, 0 + n) = Packet(host.req, 0, n)
  BY <1>1, <1>2, PacketOf
<1>4. Packet(host.req, 0, n) = Content(host.req, n)
  BY <1>1 DEF Packet, Content
<1>5. 0 + 1 = 1 /\ 0 + n = n
  BY <1>1
<1> QED BY <1>3, <1>4, <1>5 DEF n, Whole

LEMMA PlaceView == View
<1>1. Idle => State = "none" /\ Carried = <<>>
  BY Signs DEF State, Carried
<1>2. Asked \/ Ready \/ Arrived => State = "open" /\ Carried = <<>>
  <2>1. Asked \/ Ready \/ Arrived => State = "open"
    BY Signs DEF State, Served, Downloading
  <2> QED BY <2>1 DEF Carried
<1>3. ASSUME Posted \/ Fetched \/ Opened \/ Offered \/ Closed \/ Acked \/ Over
      PROVE  host.req \in Requests /\ Taken
  <2>1. CASE Posted \/ Fetched \/ Opened \/ Closed
    <3>1. host.req \in Requests /\ Reading
      BY <2>1 DEF Posted, Fetched, Opened, Closed, Sending, Closing, Heard
    <3>2. Download(host.req) = 0
      BY <3>1 DEF Reading, Download, SetupIn
    <3> QED BY <3>1, <3>2, Constants DEF Taken
  <2>2. CASE Offered \/ Acked \/ Over
    BY <2>2 DEF Offered, Acked, Acking, Heard, Over
  <2> QED BY <1>3, <2>1, <2>2
<1>4. Posted \/ Fetched \/ Opened \/ Offered => State = "served"
  <2>1. Posted \/ Fetched \/ Opened \/ Offered =>
          /\ ~ctr_rx /\ host.phase \in {"data", "status"}
          /\ usb_fsm_state \in {"DATA_IN", "LAST_DATA_IN", "STATUS_IN",
                                "STATUS_OUT"}
    BY Signs DEF Posted, Fetched, Opened, Offered, Sending, Closing, Acking
  <2> QED BY <2>1 DEF State, Served
<1>5. Closed \/ Acked \/ Over => State = "over"
  BY Signs DEF State
<1>6. Posted \/ Fetched \/ Opened \/ Offered \/ Closed \/ Acked \/ Over =>
        Carried = Whole
  BY <1>3, <1>4, <1>5, TakenWhole DEF Carried
<1>7. Stalled => /\ State = IF host.phase = "failed" THEN "failed" ELSE "open"
                 /\ Carried = <<>>
  <2>1. Stalled =>
          State = IF host.phase = "failed" THEN "failed" ELSE "open"
    BY Signs DEF State, Served, Stalled
  <2> QED BY <2>1 DEF Carried
<1> QED BY <1>1, <1>2, <1>4, <1>5, <1>6, <1>7 DEF View

LEMMA PlaceViewNext == View'
  BY PlaceView, PTL

\* A step that shows nothing.
LEMMA NothingShown ==
  ASSUME host'.req = host.req, host'.got = host.got, host'.short = host.short,
         State' = State, Carried' = Carried, (ran' > 0) <=> (ran > 0),
         daddr' = daddr
  PROVE  UNCHANGED Transfer!vars
<1>1. (ran > 0)' = (ran > 0)
  OBVIOUS
<1> QED BY <1>1 DEF Transfer!vars, Carried

LEMMA ServeShown ==
  ASSUME State = "open", Carried = <<>>, ~host.short,
         State' = "served", Carried' = Whole',
         host' = host, ran' = ran, daddr' = daddr
  PROVE  Transfer!Serve
<1>1. (ran > 0)' = (ran > 0)
  OBVIOUS
<1>3. Carried' = Content(host.req, Download(host.req))
  BY DEF Whole
<1> QED BY <1>1, <1>3 DEF Transfer!Serve, Carried

LEMMA BeginShown ==
  ASSUME NEW r, HostSetup(r), State' = "open", Carried' = <<>>
  PROVE  Transfer!Begin(r)
<1>1. /\ host'.req = r /\ host'.got = <<>> /\ host'.short = FALSE
  BY Abandoned DEF HostSetup
<1>2. (ran > 0)' = FALSE /\ daddr' = daddr
  BY DEF HostSetup
<1> QED BY <1>1, <1>2 DEF Transfer!Begin, Carried

LEMMA DeliverShown ==
  ASSUME IInv, TInv, HostReads PROVE Transfer!Deliver
<1>1. Posted /\ Fetched'
  BY HostReadsMoves
<1>2. /\ State = "served" /\ State' = "served"
      /\ Carried = Whole /\ Carried' = Whole'
  BY <1>1, PlaceView, PlaceViewNext DEF View
<1>3. /\ host'.req = host.req /\ host'.short = host.short
      /\ ran' = ran /\ daddr' = daddr /\ datasize' = datasize
  BY Types DEF HostReads, IInv, TypeHost, driver
<1>4. PICK n \in Nat : HasRead(n) /\ n + Len(tx.packet) = Total - datasize
  BY <1>1 DEF Posted, NextPacket
<1>5. Len(tx.packet) \in Nat /\ datasize \in Nat /\ Total \in Nat
  BY <1>1, Types, Constants
     DEF IInv, TypePeripheral, TypeDriver, Posted, Sending, Heard, Total,
         AnswerSize, Least
<1>6. Len(host.got) = n
  BY <1>4 DEF HasRead, Content
<1>7. Answer(host.req) = Total
  BY <1>1 DEF Posted, Sending, Reading, Answer, Total
<1>8. Total - datasize \in Len(host.got) .. Answer(host.req)
  BY <1>4, <1>5, <1>6, <1>7
<1>9. host'.got = Content(host.req, Total - datasize)
  BY <1>1, <1>3 DEF Fetched, HasRead, Total
<1>10. (ran > 0)' = (ran > 0) /\ Carried' = Carried
  BY <1>2, <1>3 DEF Whole
<1> QED BY <1>2, <1>3, <1>8, <1>9, <1>10 DEF Transfer!Deliver, Carried

LEMMA SendShown ==
  ASSUME IInv, TInv, NEW short \in BOOLEAN, HostSends(short)
  PROVE  Transfer!CutShort \/ UNCHANGED Transfer!vars
<1>1. Ready /\ Arrived'
  BY HostSendsMoves
<1>2. /\ State = "open" /\ State' = "open"
      /\ Carried = <<>> /\ Carried' = <<>>
  BY <1>1, PlaceView, PlaceViewNext DEF View
<1>3. /\ host'.req = host.req /\ host'.got = host.got
      /\ host'.short = short /\ ran' = ran /\ daddr' = daddr
  BY Types DEF HostSends, IInv, TypeHost
<1>4. CASE short
  <2>1. (ran > 0)' = (ran > 0) /\ host'.short = TRUE
    BY <1>3, <1>4
  <2> QED BY <1>2, <1>3, <2>1 DEF Transfer!CutShort, Carried
<1>5. CASE ~short
  <2>1. host'.short = host.short
    <3>1. ~host.short /\ host.short \in BOOLEAN
      BY <1>1, Types DEF Ready, IInv, TypeHost
    <3> QED BY <1>3, <1>5, <3>1
  <2> QED BY <1>2, <1>3, <2>1, NothingShown
<1> QED BY <1>4, <1>5

LEMMA FinishShown ==
  ASSUME IInv, TInv, HostStatusIn \/ HostStatusOut PROVE Transfer!Finish
<1>1. (Offered /\ Acked') \/ (Opened /\ Closed')
  BY HostStatusInMoves, HostStatusOutMoves
<1>2. /\ State = "served" /\ State' = "over"
      /\ Carried = Whole /\ Carried' = Whole'
  BY <1>1, PlaceView, PlaceViewNext DEF View
<1>3. /\ host'.req = host.req /\ host'.got = host.got
      /\ host'.short = host.short /\ ran' = ran /\ daddr' = daddr
  BY Types DEF HostStatusIn, HostStatusOut, IInv, TypeHost
<1>4. Len(host.got) = Answer(host.req)
  <2>1. CASE Offered
    <3>1. HasRead(0) /\ Answer(host.req) = 0
      BY <2>1 DEF Offered, Acking, Reading, Answer
    <3> QED BY <3>1 DEF HasRead, Content
  <2>2. CASE Opened
    <3>1. HasRead(Total) /\ Answer(host.req) = Total
      BY <2>2 DEF Opened, Closing, Reading, Answer, Total
    <3> QED BY <3>1 DEF HasRead, Content
  <2> QED BY <1>1, <2>1, <2>2
<1>5. (ran > 0)' = (ran > 0) /\ Carried' = Carried
  BY <1>2, <1>3 DEF Whole
<1> QED BY <1>2, <1>3, <1>4, <1>5 DEF Transfer!Finish, Carried

LEMMA FailShown ==
  ASSUME IInv, TInv, HostStalled PROVE Transfer!Fail
<1>1. Stalled /\ Stalled' /\ host'.phase = "failed"
  BY HostStalledMoves
<1>2. host.phase # "failed"
  BY DEF HostStalled
<1>3. /\ State = "open" /\ State' = "failed"
      /\ Carried = <<>> /\ Carried' = <<>>
  BY <1>1, <1>2, PlaceView, PlaceViewNext DEF View
<1>4. /\ host'.req = host.req /\ host'.got = host.got
      /\ host'.short = host.short /\ ran' = ran /\ daddr' = daddr
  BY Types DEF HostStalled, IInv, TypeHost, peripheral
<1>5. (ran > 0)' = (ran > 0)
  BY <1>4
<1>6. Refusable(host.req) \/ host.short
  BY <1>1 DEF Stalled
<1> QED BY <1>3, <1>4, <1>5, <1>6 DEF Transfer!Fail, Carried

LEMMA BusResetShown ==
  ASSUME TInv, ~Overtaking, BusReset PROVE Transfer!BusReset
<1>1. State' = "none" /\ Carried' = <<>>
  BY BusResetMoves, PlaceViewNext DEF View
<1>2. /\ host'.got = <<>> /\ host'.short = FALSE
      /\ (ran > 0)' = FALSE /\ daddr' = 0
  BY Abandoned DEF BusReset
<1> QED BY <1>1, <1>2 DEF Transfer!BusReset, Carried

\* The steps of the driver between its answer to a request and the end of the
\* transfer, or its refusal.
LEMMA QuietlyShown ==
  ASSUME IInv, TInv,
         \/ Reset \/ DataOutFails \/ DataOut \/ CallbackReturns
         \/ DataIn \/ LastDataIn
         \/ \E r \in Requests : Refused(r) \/ SetupOut(r)
  PROVE  UNCHANGED Transfer!vars
<1>1. /\ host' = host /\ ran' = ran
      /\ bus_reset \/ daddr' = daddr
  BY DEF Reset, DataOutFails, DataOut, CallbackReturns, DataIn, LastDataIn,
     Refused, SetupOut, SetupRead, ControlIn, peripheral
<1>2. daddr' = daddr
  <2>1. Reset => daddr' = 0 /\ daddr = 0
    BY DEF Reset, TInv
  <2>2. ~Reset => daddr' = daddr
    BY DEF DataOutFails, DataOut, CallbackReturns, DataIn, LastDataIn,
       Refused, SetupOut, SetupRead, peripheral
  <2> QED BY <2>1, <2>2
<1>3. \/ Idle /\ Idle'
      \/ (Asked \/ Arrived) /\ (Asked' \/ Ready' \/ Stalled')
      \/ Fetched /\ (Posted' \/ Opened')
      \/ Over /\ Over'
  BY ResetMoves, DataOutFailsMoves, DataOutMoves, CallbackReturnsMoves,
     DataInMoves, LastDataInMoves, RefusedMoves, SetupOutMoves
<1>4. (Asked \/ Arrived) => host.phase # "failed"
  BY Signs
<1>5. State' = State /\ Carried' = Carried
  <2>1. host'.phase = host.phase /\ Whole' = Whole
    BY <1>1 DEF Whole
  <2> QED BY <1>3, <1>4, <2>1, PlaceView, PlaceViewNext DEF View
<1> QED BY <1>1, <1>2, <1>5, NothingShown

LEMMA AnswerShown ==
  ASSUME IInv, TInv,
         \/ LastDataOut
         \/ \E r \in Requests : Answered(r) \/ Done(r)
  PROVE  Transfer!Serve \/ UNCHANGED Transfer!vars
<1>1. /\ host' = host /\ ran' = ran /\ daddr' = daddr
  BY DEF LastDataOut, Answered, Done, SetupRead
<1>2. \/ (Asked \/ (Arrived /\ ~host.short)) /\ (Posted' \/ Offered')
      \/ Arrived /\ Stalled'
  BY LastDataOutMoves, AnsweredMoves, DoneMoves
<1>3. CASE (Asked \/ (Arrived /\ ~host.short)) /\ (Posted' \/ Offered')
  <2>1. /\ State = "open" /\ Carried = <<>>
        /\ State' = "served" /\ Carried' = Whole'
    BY <1>3, PlaceView, PlaceViewNext DEF View
  <2>2. ~host.short
    BY <1>3 DEF Asked
  <2> QED BY <1>1, <2>1, <2>2, ServeShown
<1>4. CASE Arrived /\ Stalled'
  <2>1. host'.phase # "failed"
    BY <1>1, <1>4, Signs
  <2>2. /\ State = "open" /\ Carried = <<>>
        /\ State' = "open" /\ Carried' = <<>>
    BY <1>4, <2>1, PlaceView, PlaceViewNext DEF View
  <2> QED BY <1>1, <2>2, NothingShown
<1> QED BY <1>2, <1>3, <1>4

LEMMA EndShown ==
  ASSUME IInv, TInv, StatusOut \/ StatusIn
  PROVE  Transfer!Call \/ Transfer!Latch \/ UNCHANGED Transfer!vars
<1>1. /\ Closed \/ Acked
      /\ Over'
      /\ ran' = IF Callback(host.req) THEN 1 ELSE 0
      /\ host' = host
      /\ daddr' = daddr \/ (host.req.what = "set_address" /\ daddr' = 1)
  BY StatusOutMoves, StatusInMoves DEF StatusOut, StatusIn, ControlIn
<1>2. ran = 0
  BY <1>1 DEF Closed, Closing, Acked, Acking, Heard
<1>3. /\ State = "over" /\ State' = "over" /\ Carried' = Carried
  <2>1. Whole' = Whole
    BY <1>1 DEF Whole
  <2> QED BY <1>1, <2>1, PlaceView, PlaceViewNext DEF View
<1>4. CASE Callback(host.req)
  <2>1. (ran > 0)' = TRUE /\ ~(ran > 0)
    BY <1>1, <1>2, <1>4
  <2>2. daddr' = daddr
    BY <1>1, <1>4 DEF Callback
  <2> QED BY <1>1, <1>3, <1>4, <2>1, <2>2 DEF Transfer!Call, Carried
<1>5. CASE ~Callback(host.req)
  <2>1. (ran > 0)' = (ran > 0)
    BY <1>1, <1>2, <1>5
  <2>2. CASE daddr' = daddr
    BY <1>1, <1>3, <2>1, <2>2, NothingShown
  <2>3. CASE host.req.what = "set_address" /\ daddr' = 1
    BY <1>1, <1>3, <2>1, <2>3 DEF Transfer!Latch, Carried, NewAddress
  <2> QED BY <1>1, <2>2, <2>3
<1> QED BY <1>4, <1>5

LEMMA TransferStep ==
  ASSUME ~Overtaking
  PROVE  IInv /\ TInv /\ [Next]_vars => [Transfer!Next]_(Transfer!vars)
<1> SUFFICES ASSUME IInv, TInv, [Next]_vars
             PROVE  [Transfer!Next]_(Transfer!vars)
  OBVIOUS
<1>1. ASSUME NEW r \in Requests, HostSetup(r) PROVE Transfer!Begin(r)
  <2>1. Asked'
    BY <1>1, HostSetupMoves
  <2> QED BY <1>1, <2>1, BeginShown, PlaceViewNext DEF View
<1>2. CASE Host
  BY <1>1, <1>2, DeliverShown, SendShown, FinishShown, FailShown,
     BusResetShown DEF Host, Transfer!Next
<1>3. CASE Driver
  BY <1>3, QuietlyShown, AnswerShown, EndShown, NothingUnexpected
     DEF Driver, Transfer!Next
<1>4. CASE UNCHANGED vars
  <2>1. host' = host /\ ran' = ran /\ daddr' = daddr
    BY <1>4 DEF vars, peripheral
  <2>2. State' = State /\ Carried' = Carried
    BY <1>4 DEF State, Carried, Served, vars, driver, peripheral
  <2> QED BY <2>1, <2>2, NothingShown
<1> QED BY <1>2, <1>3, <1>4 DEF Next

LEMMA TransferInit == Init => Transfer!Init
<1> SUFFICES ASSUME Init PROVE Transfer!Init
  OBVIOUS
<1>1. Idle
  BY DEF Init, Idle
<1>2. State = "none" /\ Carried = <<>>
  BY <1>1, PlaceView DEF View
<1>3. (ran > 0) = FALSE
  BY DEF Init
<1> QED BY <1>2, <1>3, Abandoned DEF Init, Transfer!Init, Carried

\* If the driver polls in time, every transfer is the exchange ControlTransfer
\* describes, whatever the host abandoned before it.
THEOREM TransfersAreExchanges ==
  ASSUME ~Overtaking PROVE Spec => ImplementsControlTransfer
<1>1. IInv /\ TInv /\ [Next]_vars => [Transfer!Next]_(Transfer!vars)
  BY TransferStep
<1> QED BY <1>1, TransferInit, PlaceKept, PTL
        DEF Spec, ImplementsControlTransfer, Transfer!Spec
=============================================================================
