----------------------------- MODULE UsbControl -----------------------------
(***************************************************************************)
(* Control transfers on endpoint 0: the driver of Core/Src/usb.c, polled   *)
(* from the main loop, with the USB peripheral and the host around it.     *)
(*                                                                         *)
(* The peripheral shares with the driver a status per direction, a packet  *)
(* per direction and three flags: a packet was received (and whether by a  *)
(* SETUP transaction), a packet was sent, the bus was reset.  It acts on   *)
(* its own when the host does: a completed transaction turns the status of *)
(* its direction to NAK and raises the flag of its direction, a SETUP turns *)
(* both to NAK and is discarded while the last reception is still flagged, *)
(* a bus reset disables both but keeps the flags.                          *)
(*                                                                         *)
(* A handler of the driver is one step.  Only the completion callback that *)
(* runs in a status stage takes time (it may erase and program flash), and *)
(* the host goes on meanwhile.                                             *)
(***************************************************************************)
EXTENDS Integers, Sequences

CONSTANTS
  bMaxPacketSize0,     \* bytes in a full packet: 64
  DFU_TRANSFER_SIZE,   \* bytes of usbd_control_buffer: 1024
  Requests,            \* the requests the host makes, see Request
  Overtaking           \* may a setup packet or a bus reset overtake an event
                       \* the main loop has not polled yet?

(***************************************************************************)
(* A request, by what dispatching it does:                                 *)
(*   fetch        prepares size bytes (GET_DESCRIPTOR, UPLOAD, ...)        *)
(*   getstatus    the same, and sets the completion callback               *)
(*   store        takes the wLength bytes of its data stage (DNLOAD)       *)
(*   plain        does something at once (ABORT, SET_CONFIGURATION, ...)   *)
(*   detach       sets the completion callback                             *)
(*   set_address  is done in the status stage                              *)
(*   set_halt, clear_halt   stall endpoint 0 or end its stall              *)
(*   unknown      is not supported                                         *)
(***************************************************************************)
Kinds == {"fetch", "getstatus", "store", "plain", "detach", "set_address",
          "set_halt", "clear_halt", "unknown"}

Request == [what : Kinds, in : BOOLEAN, wLength : Nat,
            size : 0 .. DFU_TRANSFER_SIZE]

ASSUME UsbAssumption ==
  /\ bMaxPacketSize0 \in Nat \ {0}
  /\ DFU_TRANSFER_SIZE \in Nat \ {0}
  /\ Requests \subseteq Request
  /\ \A r \in Requests :
       /\ r.what \in {"set_halt", "clear_halt"} => r.wLength = 0
       /\ r.what \in {"fetch", "getstatus"} => r.in
  /\ Overtaking \in BOOLEAN

Supported(r) == r.what # "unknown"
Callback(r)  == r.what \in {"getstatus", "detach"}

Least(a, b) == IF a < b THEN a ELSE b

\* The bytes a request is about, in either direction.
Content(r, n) == [i \in 1 .. n |-> <<r, i>>]
Blank == <<>>         \* a byte nobody wrote yet

HasData(r)    == r.wLength > 0
\* The device may send less than the host asks for.
AnswerSize(r) == Least(r.size, r.wLength)

VARIABLES
  usb_fsm_state, usb_req, datasize, dataoff, usb_needs_zlp, usb_force_nak,
  armed,         \* usb_complete_cb is set
  buffer,        \* usbd_control_buffer
  calling,       \* the completion callback is running
  tx, rx,        \* the two directions of endpoint 0: status and packet
  ctr_tx, ctr_rx, is_setup, bus_reset, daddr,
  host,          \* the transfer as the host sees it
  haddr,         \* the address the host uses
  ran            \* how often the callback has run for the host's transfer

driver     == <<usb_fsm_state, usb_req, datasize, dataoff, usb_needs_zlp,
                usb_force_nak, armed, buffer, calling>>
peripheral == <<tx, rx, ctr_tx, ctr_rx, is_setup, bus_reset, daddr>>
vars       == <<driver, peripheral, host, haddr, ran>>

NoRequest == [what |-> "unknown", in |-> FALSE, wLength |-> 0, size |-> 0]

Status  == {"disabled", "stall", "nak", "valid"}
Byte    == ((Requests \cup {NoRequest}) \X Nat) \cup {Blank}
Address == {0, 1}

TypeOK ==
  /\ usb_fsm_state \in {"IDLE", "DATA_IN", "LAST_DATA_IN", "STATUS_IN",
                        "DATA_OUT", "LAST_DATA_OUT", "STATUS_OUT"}
  /\ usb_req \in Requests \cup {NoRequest}
  /\ datasize \in Nat
  /\ usb_fsm_state # "IDLE" => datasize <= DFU_TRANSFER_SIZE
  /\ dataoff \in 0 .. DFU_TRANSFER_SIZE
  /\ usb_needs_zlp \in BOOLEAN /\ usb_force_nak \in BOOLEAN
  /\ armed \in BOOLEAN /\ calling \in BOOLEAN
  /\ buffer \in [1 .. DFU_TRANSFER_SIZE -> Byte]
  /\ tx \in [stat : Status, packet : Seq(Byte)]
  /\ rx \in [stat : Status, packet : Seq(Byte),
             request : Requests \cup {NoRequest}]
  /\ {ctr_tx, ctr_rx, is_setup, bus_reset} \subseteq BOOLEAN
  /\ daddr \in Address /\ haddr \in Address
  /\ host \in [phase : {"none", "data", "status", "done", "failed"},
               req : Requests \cup {NoRequest}, got : Seq(Byte),
               sent : Nat, short : BOOLEAN]
  /\ ran \in Nat

NoTransfer == [phase |-> "none", req |-> NoRequest, got |-> <<>>,
               sent |-> 0, short |-> FALSE]

\* After the first bus reset: endpoint 0 set up, nothing received.
Init ==
  /\ usb_fsm_state = "IDLE" /\ usb_req = NoRequest
  /\ datasize = 0 /\ dataoff = 0
  /\ usb_needs_zlp = FALSE /\ usb_force_nak = FALSE
  /\ armed = FALSE /\ calling = FALSE
  /\ buffer = [i \in 1 .. DFU_TRANSFER_SIZE |-> Blank]
  /\ tx = [stat |-> "nak", packet |-> <<>>]
  /\ rx = [stat |-> "valid", packet |-> <<>>, request |-> NoRequest]
  /\ ctr_tx = FALSE /\ ctr_rx = FALSE /\ is_setup = FALSE
  /\ bus_reset = FALSE
  /\ daddr = 0 /\ haddr = 0
  /\ host = NoTransfer /\ ran = 0

-----------------------------------------------------------------------------
(***************************************************************************)
(* The host and the peripheral.                                            *)
(***************************************************************************)
Quiet == ~ctr_tx /\ ~ctr_rx /\ ~bus_reset

\* The device answers to the address the host uses.
Reached == daddr = haddr

\* A new transfer, which abandons the last one if that is not over.
HostSetup(r) ==
  /\ Overtaking \/ Quiet
  /\ Reached /\ rx.stat # "disabled" /\ ~ctr_rx
  /\ tx' = [tx EXCEPT !.stat = "nak"]
  /\ rx' = [stat |-> "nak", packet |-> <<>>, request |-> r]
  /\ ctr_rx' = TRUE /\ is_setup' = TRUE
  /\ host' = [NoTransfer EXCEPT !.req = r,
                 !.phase = IF HasData(r) THEN "data" ELSE "status"]
  /\ ran' = 0
  /\ UNCHANGED <<driver, ctr_tx, bus_reset, daddr, haddr>>

\* The host reads a packet: the data stage ends with a short one.
HostReads ==
  /\ host.phase = "data" /\ host.req.in
  /\ Reached /\ tx.stat = "valid"
  /\ tx' = [tx EXCEPT !.stat = "nak"]
  /\ ctr_tx' = TRUE
  /\ LET all == host.got \o tx.packet
         end == \/ Len(tx.packet) < bMaxPacketSize0
                \/ Len(all) >= host.req.wLength
     IN host' = [host EXCEPT !.got = all,
                             !.phase = IF end THEN "status" ELSE @]
  /\ UNCHANGED <<driver, rx, ctr_rx, is_setup, bus_reset, daddr, haddr, ran>>

\* The host sends the next packet, or one that is a byte too short.
HostSends(short) ==
  /\ host.phase = "data" /\ ~host.req.in
  /\ Reached /\ rx.stat = "valid" /\ ~ctr_rx
  /\ LET left == host.req.wLength - host.sent
         len  == Least(left, bMaxPacketSize0) - (IF short THEN 1 ELSE 0)
     IN /\ rx' = [stat |-> "nak", request |-> NoRequest,
                  packet |-> [i \in 1 .. len |->
                                <<host.req, host.sent + i>>]]
        /\ host' = [host EXCEPT !.sent = @ + len, !.short = short,
                      !.phase = IF short \/ len = left THEN "status" ELSE @]
  /\ ctr_rx' = TRUE /\ is_setup' = FALSE
  /\ UNCHANGED <<driver, tx, ctr_tx, bus_reset, daddr, haddr, ran>>

\* The status stage goes against the data stage.
StatusByIn(r) == ~(r.in /\ HasData(r))

HostStatusIn ==
  /\ host.phase = "status" /\ StatusByIn(host.req)
  /\ Reached /\ tx.stat = "valid"
  /\ tx' = [tx EXCEPT !.stat = "nak"]
  /\ ctr_tx' = TRUE
  /\ host' = [host EXCEPT !.phase = "done"]
  /\ haddr' = IF host.req.what = "set_address" THEN 1 ELSE haddr
  /\ UNCHANGED <<driver, rx, ctr_rx, is_setup, bus_reset, daddr, ran>>

HostStatusOut ==
  /\ host.phase = "status" /\ ~StatusByIn(host.req)
  /\ Reached /\ rx.stat = "valid" /\ ~ctr_rx
  /\ rx' = [stat |-> "nak", packet |-> <<>>, request |-> NoRequest]
  /\ ctr_rx' = TRUE /\ is_setup' = FALSE
  /\ host' = [host EXCEPT !.phase = "done"]
  /\ UNCHANGED <<driver, tx, ctr_tx, bus_reset, daddr, haddr, ran>>

\* The direction the host uses next answers STALL.
HostStalled ==
  /\ host.phase \in {"data", "status"} /\ Reached
  /\ IF (host.phase = "data") = host.req.in \/ ~HasData(host.req)
     THEN tx.stat = "stall" ELSE rx.stat = "stall"
  /\ host' = [host EXCEPT !.phase = "failed"]
  /\ UNCHANGED <<driver, peripheral, haddr, ran>>

\* The received packet stays flagged; what becomes of the SETUP bit of a
\* flagged packet is not specified.
BusReset ==
  /\ Overtaking \/ Quiet
  /\ tx' = [tx EXCEPT !.stat = "disabled"]
  /\ rx' = [rx EXCEPT !.stat = "disabled"]
  /\ is_setup' \in {is_setup, FALSE}
  /\ bus_reset' = TRUE
  /\ daddr' = 0 /\ haddr' = 0
  /\ host' = NoTransfer /\ ran' = 0
  /\ UNCHANGED <<driver, ctr_tx, ctr_rx>>

-----------------------------------------------------------------------------
(***************************************************************************)
(* The driver.  do_usb_poll looks at one event at a time: a bus reset, a   *)
(* reception, a transmission, in this order.                               *)
(***************************************************************************)
Polling   == ~calling
Received  == Polling /\ ~bus_reset /\ ctr_rx
Sent      == Polling /\ ~bus_reset /\ ~ctr_rx /\ ctr_tx

Reset ==
  /\ Polling /\ bus_reset
  /\ bus_reset' = FALSE
  /\ tx' = [tx EXCEPT !.stat = "nak"] /\ rx' = [rx EXCEPT !.stat = "valid"]
  /\ daddr' = 0
  /\ UNCHANGED <<driver, ctr_tx, ctr_rx, is_setup, host, haddr, ran>>

\* _usbd_ep_write_packet: refused while a packet waits to be sent.
Written(t, p) ==
  IF t.stat = "valid" THEN t ELSE [stat |-> "valid", packet |-> p]

\* _stall_transaction.
Stall ==
  /\ tx' = [tx EXCEPT !.stat = "stall"]
  /\ rx' = [rx EXCEPT !.stat = "stall"]
  /\ usb_fsm_state' = "IDLE"

\* Mutant: the next packet starts where this one did.
BugSendChunkStays(buf, off, size, zlp) ==
  LET more == bMaxPacketSize0 < size
      len  == Least(size, bMaxPacketSize0)
  IN /\ tx' = Written(tx, SubSeq(buf, off + 1, off + len))
     /\ usb_fsm_state' = IF more \/ zlp THEN "DATA_IN" ELSE "LAST_DATA_IN"
     /\ dataoff' = off
     /\ datasize' = size - len
     /\ usb_needs_zlp' = (more /\ zlp)

\* usb_control_send_chunk, of size bytes of buf from off on.
SendChunk(buf, off, size, zlp) ==
  LET more == bMaxPacketSize0 < size
      len  == Least(size, bMaxPacketSize0)
  IN /\ tx' = Written(tx, SubSeq(buf, off + 1, off + len))
     /\ usb_fsm_state' = IF more \/ zlp THEN "DATA_IN" ELSE "LAST_DATA_IN"
     /\ dataoff' = IF more THEN off + len ELSE off
     /\ datasize' = size - len
     /\ usb_needs_zlp' = (more /\ zlp)

\* Mutant: an answer that fills its last packet gets no empty one.
BugNeedsNoZlp(len, wLength) == FALSE

needs_zlp(len, wLength) ==
  len < wLength /\ len # 0 /\ len % bMaxPacketSize0 = 0

\* The buffer once dispatch has prepared the answer to r.
Prepared(r) ==
  IF Supported(r)
  THEN [i \in 1 .. DFU_TRANSFER_SIZE |-> IF i <= r.size THEN <<r, i>>
                                         ELSE buffer[i]]
  ELSE buffer

\* What _usbd_control_setup does first: no callback, and every packet but a
\* setup packet refused until further notice.
SetupRead(r) ==
  /\ Received /\ is_setup /\ rx.request = r
  /\ usb_req' = r
  /\ ctr_rx' = FALSE
  /\ UNCHANGED <<calling, ctr_tx, is_setup, bus_reset, daddr, host, haddr,
                 ran>>

\* A request without a data stage, or with one to the host.
SetupIn(r) == r.in \/ ~HasData(r)

\* A class request the DFU driver does not know leaves its length in datasize,
\* another request that is not supported leaves datasize as it was.
Refused(r) ==
  /\ SetupRead(r) /\ SetupIn(r) /\ ~Supported(r)
  /\ Stall
  /\ armed' = FALSE /\ usb_force_nak' = TRUE /\ dataoff' = 0
  /\ datasize' \in {datasize, r.wLength}
  /\ UNCHANGED <<usb_needs_zlp, buffer>>

Answered(r) ==
  /\ SetupRead(r) /\ SetupIn(r) /\ Supported(r) /\ HasData(r)
  /\ armed' = Callback(r) /\ usb_force_nak' = TRUE
  /\ buffer' = Prepared(r)
  /\ SendChunk(buffer', 0, AnswerSize(r), needs_zlp(AnswerSize(r), r.wLength))
  /\ rx' = [rx EXCEPT !.stat = "nak"]

\* Mutant: the new address is used at once.
BugDoneLatches(r) ==
  /\ Received /\ is_setup /\ rx.request = r
  /\ SetupIn(r) /\ Supported(r) /\ ~HasData(r)
  /\ usb_req' = r /\ ctr_rx' = FALSE
  /\ armed' = Callback(r) /\ usb_force_nak' = TRUE
  /\ dataoff' = 0 /\ datasize' = 0
  /\ tx' = Written(tx, <<>>)
  /\ daddr' = IF r.what = "set_address" THEN 1 ELSE daddr
  /\ usb_fsm_state' = "STATUS_IN"
  /\ UNCHANGED <<usb_needs_zlp, buffer, calling, rx, ctr_tx, is_setup,
                 bus_reset, host, haddr, ran>>

\* SET_FEATURE and CLEAR_FEATURE of ENDPOINT_HALT act on endpoint 0 itself.
Done(r) ==
  /\ SetupRead(r) /\ SetupIn(r) /\ Supported(r) /\ ~HasData(r)
  /\ armed' = Callback(r) /\ usb_force_nak' = TRUE
  /\ buffer' = Prepared(r)
  /\ dataoff' = 0 /\ datasize' = 0 /\ UNCHANGED usb_needs_zlp
  /\ tx' = Written(IF r.what \in {"set_halt", "clear_halt"}
                   THEN [tx EXCEPT !.stat = "nak"] ELSE tx, <<>>)
  /\ rx' = [rx EXCEPT !.stat = CASE r.what = "set_halt" -> "stall"
                                 [] r.what = "clear_halt" -> "valid"
                                 [] OTHER -> "nak"]
  /\ usb_fsm_state' = "STATUS_IN"

\* Mutants: too much data is not refused; the bytes of an abandoned download
\* are counted; the callback of an abandoned request is kept.
BugSetupOutAnyLength(r) ==
  /\ SetupRead(r) /\ ~SetupIn(r)
  /\ armed' = FALSE /\ usb_force_nak' = FALSE /\ datasize' = 0
  /\ usb_fsm_state' = IF r.wLength > bMaxPacketSize0
                      THEN "DATA_OUT" ELSE "LAST_DATA_OUT"
  /\ rx' = [rx EXCEPT !.stat = "valid"]
  /\ UNCHANGED <<tx, dataoff, usb_needs_zlp, buffer>>

BugSetupOutKeepsSize(r) ==
  /\ SetupRead(r) /\ ~SetupIn(r)
  /\ armed' = FALSE
  /\ IF r.wLength > DFU_TRANSFER_SIZE
     THEN Stall /\ usb_force_nak' = TRUE /\ UNCHANGED datasize
     ELSE /\ usb_fsm_state' = IF r.wLength > bMaxPacketSize0
                              THEN "DATA_OUT" ELSE "LAST_DATA_OUT"
          /\ usb_force_nak' = FALSE
          /\ datasize' = IF usb_fsm_state = "LAST_DATA_OUT"
                         THEN datasize ELSE 0
          /\ rx' = [rx EXCEPT !.stat = "valid"] /\ UNCHANGED tx
  /\ UNCHANGED <<dataoff, usb_needs_zlp, buffer>>

BugSetupOutKeepsCallback(r) ==
  /\ SetupRead(r) /\ ~SetupIn(r)
  /\ IF r.wLength > DFU_TRANSFER_SIZE
     THEN Stall /\ usb_force_nak' = TRUE /\ UNCHANGED datasize
     ELSE /\ usb_fsm_state' = IF r.wLength > bMaxPacketSize0
                              THEN "DATA_OUT" ELSE "LAST_DATA_OUT"
          /\ usb_force_nak' = FALSE /\ datasize' = 0
          /\ rx' = [rx EXCEPT !.stat = "valid"] /\ UNCHANGED tx
  /\ UNCHANGED <<armed, dataoff, usb_needs_zlp, buffer>>

\* Too much data is refused with the receiver still closed.
SetupOut(r) ==
  /\ SetupRead(r) /\ ~SetupIn(r)
  /\ armed' = FALSE
  /\ IF r.wLength > DFU_TRANSFER_SIZE
     THEN Stall /\ usb_force_nak' = TRUE /\ UNCHANGED datasize
     ELSE /\ usb_fsm_state' = IF r.wLength > bMaxPacketSize0
                              THEN "DATA_OUT" ELSE "LAST_DATA_OUT"
          /\ usb_force_nak' = FALSE /\ datasize' = 0
          /\ rx' = [rx EXCEPT !.stat = "valid"] /\ UNCHANGED tx
  /\ UNCHANGED <<dataoff, usb_needs_zlp, buffer>>

-----------------------------------------------------------------------------
ReceivedOut == Received /\ ~is_setup

Expected == Least(bMaxPacketSize0, usb_req.wLength - datasize)

\* _usbd_ep_read_packet finds nothing while the receiver is open, and then
\* leaves the reception flagged.
Readable == rx.stat # "valid"
Read     == ctr_rx' = ~Readable

Reopened ==
  [rx EXCEPT !.stat = IF Readable /\ ~usb_force_nak THEN "valid" ELSE @]

\* Mutant: only full packets are taken.
BugChunkFitsFull == Readable /\ Len(rx.packet) = bMaxPacketSize0

ChunkFits == Readable /\ Len(rx.packet) >= Expected

\* Mutant: every packet is copied to the start of the buffer.
BugRecvChunkAtStart ==
  /\ ChunkFits
  /\ Read
  /\ datasize' = datasize + Expected
  /\ buffer' = [i \in DOMAIN buffer |->
                  IF i \in 1 .. Expected THEN rx.packet[i] ELSE buffer[i]]

\* usb_control_recv_chunk copies the packet behind what it has, ...
RecvChunk ==
  /\ ChunkFits
  /\ Read
  /\ datasize' = datasize + Expected
  /\ buffer' = [i \in DOMAIN buffer |->
                  IF i \in datasize + 1 .. datasize + Expected
                  THEN rx.packet[i - datasize] ELSE buffer[i]]

\* ... or stalls if the packet is too short.
DataOutFails ==
  /\ ReceivedOut /\ usb_fsm_state \in {"DATA_OUT", "LAST_DATA_OUT"}
  /\ ~ChunkFits
  /\ Read /\ Stall
  /\ UNCHANGED <<usb_req, datasize, dataoff, usb_needs_zlp, usb_force_nak,
                 armed, buffer, calling, ctr_tx, is_setup, bus_reset, daddr,
                 host, haddr, ran>>

DataOut ==
  /\ ReceivedOut /\ usb_fsm_state = "DATA_OUT"
  /\ RecvChunk
  /\ usb_fsm_state' = IF usb_req.wLength - datasize' <= bMaxPacketSize0
                      THEN "LAST_DATA_OUT" ELSE "DATA_OUT"
  /\ rx' = Reopened
  /\ UNCHANGED <<usb_req, dataoff, usb_needs_zlp, usb_force_nak, armed,
                 calling, tx, ctr_tx, is_setup, bus_reset, daddr,
                 host, haddr, ran>>

\* The data is complete: the request is dispatched.
LastDataOut ==
  /\ ReceivedOut /\ usb_fsm_state = "LAST_DATA_OUT"
  /\ RecvChunk
  /\ IF Supported(usb_req)
     THEN /\ tx' = Written(tx, <<>>) /\ rx' = Reopened
          /\ usb_fsm_state' = "STATUS_IN"
          /\ armed' = (armed \/ Callback(usb_req))
     ELSE Stall /\ UNCHANGED armed
  /\ UNCHANGED <<usb_req, dataoff, usb_needs_zlp, usb_force_nak, calling,
                 ctr_tx, is_setup, bus_reset, daddr, host, haddr, ran>>

\* The host has acknowledged the data it read: the callback starts.
StatusOut ==
  /\ ReceivedOut /\ usb_fsm_state = "STATUS_OUT"
  /\ Read /\ rx' = Reopened
  /\ usb_fsm_state' = "IDLE"
  /\ calling' = armed
  /\ ran' = IF armed THEN ran + 1 ELSE ran
  /\ UNCHANGED <<usb_req, datasize, dataoff, usb_needs_zlp, usb_force_nak,
                 armed, buffer, tx, ctr_tx, is_setup, bus_reset, daddr,
                 host, haddr>>

CallbackReturns ==
  /\ calling
  /\ calling' = FALSE /\ armed' = FALSE
  /\ UNCHANGED <<usb_fsm_state, usb_req, datasize, dataoff, usb_needs_zlp,
                 usb_force_nak, buffer, peripheral, host, haddr, ran>>

\* Any other packet: the reception stays flagged.
UnexpectedOut ==
  /\ ReceivedOut
  /\ usb_fsm_state \notin {"DATA_OUT", "LAST_DATA_OUT", "STATUS_OUT"}
  /\ Stall
  /\ UNCHANGED <<usb_req, datasize, dataoff, usb_needs_zlp, usb_force_nak,
                 armed, buffer, calling, ctr_tx, ctr_rx, is_setup, bus_reset,
                 daddr, host, haddr, ran>>

-----------------------------------------------------------------------------
\* A packet has been sent: its flag is cleared before anything else.
ControlIn ==
  /\ Sent
  /\ ctr_tx' = FALSE
  /\ UNCHANGED <<usb_req, armed, buffer, calling, ctr_rx, is_setup, bus_reset,
                 host, haddr>>

DataIn ==
  /\ ControlIn /\ usb_fsm_state = "DATA_IN"
  /\ SendChunk(buffer, dataoff, datasize, usb_needs_zlp)
  /\ UNCHANGED <<usb_force_nak, rx, daddr, ran>>

LastDataIn ==
  /\ ControlIn /\ usb_fsm_state = "LAST_DATA_IN"
  /\ usb_fsm_state' = "STATUS_OUT"
  /\ usb_force_nak' = FALSE /\ rx' = [rx EXCEPT !.stat = "valid"]
  /\ UNCHANGED <<datasize, dataoff, usb_needs_zlp, tx, daddr, ran>>

\* Mutant: the callback is dropped before its turn in the status stage.
BugStatusInNoCallback ==
  /\ ControlIn /\ usb_fsm_state = "STATUS_IN"
  /\ UNCHANGED ran
  /\ daddr' = IF usb_req.what = "set_address" THEN 1 ELSE daddr
  /\ usb_fsm_state' = "IDLE"
  /\ UNCHANGED <<datasize, dataoff, usb_needs_zlp, usb_force_nak, tx, rx>>

\* The callback, whose work is none in any state these requests leave, and
\* the new address.
StatusIn ==
  /\ ControlIn /\ usb_fsm_state = "STATUS_IN"
  /\ ran' = IF armed THEN ran + 1 ELSE ran
  /\ daddr' = IF usb_req.what = "set_address" THEN 1 ELSE daddr
  /\ usb_fsm_state' = "IDLE"
  /\ UNCHANGED <<datasize, dataoff, usb_needs_zlp, usb_force_nak, tx, rx>>

UnexpectedIn ==
  /\ ControlIn
  /\ usb_fsm_state \notin {"DATA_IN", "LAST_DATA_IN", "STATUS_IN"}
  /\ Stall
  /\ UNCHANGED <<datasize, dataoff, usb_needs_zlp, usb_force_nak, daddr, ran>>

-----------------------------------------------------------------------------
Host ==
  \/ \E r \in Requests : HostSetup(r)
  \/ HostReads
  \/ \E short \in BOOLEAN : HostSends(short)
  \/ HostStatusIn
  \/ HostStatusOut
  \/ HostStalled
  \/ BusReset

Driver ==
  \/ Reset
  \/ \E r \in Requests : Refused(r) \/ Answered(r) \/ Done(r) \/ SetupOut(r)
  \/ DataOutFails
  \/ DataOut
  \/ LastDataOut
  \/ StatusOut
  \/ CallbackReturns
  \/ UnexpectedOut
  \/ DataIn
  \/ LastDataIn
  \/ StatusIn
  \/ UnexpectedIn

Next == Host \/ Driver

Spec == Init /\ [][Next]_vars

-----------------------------------------------------------------------------
(***************************************************************************)
(* Properties.  Those that need the device to poll in time are checked     *)
(* without Overtaking.                                                     *)
(***************************************************************************)
\* The host reads what the request it made asks for, each byte once and in
\* order, and the data stage ends where the answer ends, whether that is a
\* short packet, an empty one or the length asked for (_needs_zlp).
AnswersAreExact ==
  host.req.in =>
    /\ host.got = Content(host.req, Len(host.got))
    /\ host.phase \in {"status", "done"} /\ HasData(host.req) =>
         Len(host.got) = AnswerSize(host.req)

\* A download is dispatched with all its bytes, in order and from one
\* transfer, even if the host outruns the driver or resets the bus: the
\* buffer is shared with every other request (usbd_control_buffer).
DownloadsAreWhole ==
  [][LastDataOut /\ usb_fsm_state' = "STATUS_IN" =>
       \A i \in 1 .. usb_req.wLength : buffer'[i] = <<usb_req, i>>]_vars

\* The completion callback has run by the end of the transfer that asked for
\* it, or the device has yet to look at the event.
CallbackIsNotLost ==
  host.phase = "done" /\ Quiet => ran = IF Callback(host.req) THEN 1 ELSE 0

\* Nothing fails but what the driver refuses: a request it does not know,
\* too long a download, or one cut short by the host.
OnlyRefusalsFail ==
  host.phase = "failed" =>
    \/ ~Supported(host.req)
    \/ host.short
    \/ ~host.req.in /\ host.req.wLength > DFU_TRANSFER_SIZE

\* "The actual address is only latched at the STATUS IN stage." (usb.c)
AddressIsLatchedLate ==
  [][daddr' = 1 /\ daddr = 0 =>
       host.phase = "done" /\ host.req.what = "set_address"]_vars

(***************************************************************************)
(* The request has been served once the driver, having read its setup      *)
(* packet, has an answer or the status stage to send.                      *)
(***************************************************************************)
Served == ~(ctr_rx /\ is_setup) /\
          usb_fsm_state \in {"DATA_IN", "LAST_DATA_IN", "STATUS_IN",
                            "STATUS_OUT"}

State == CASE host.phase \in {"none", "failed"} -> host.phase
           [] host.phase = "done"              -> "over"
           [] OTHER -> IF Served THEN "served" ELSE "open"

Answer(r)     == IF r.in /\ HasData(r) THEN AnswerSize(r) ELSE 0
Download(r)   == IF SetupIn(r) THEN 0 ELSE r.wLength
NewAddress(r) == r.what = "set_address"
Refusable(r)  == \/ ~Supported(r)
                 \/ ~r.in /\ r.wLength > DFU_TRANSFER_SIZE

Transfer == INSTANCE ControlTransfer WITH
  request <- host.req, state <- State, got <- host.got,
  taken   <- IF State \in {"served", "over"}
             THEN SubSeq(buffer, 1, Download(host.req)) ELSE <<>>,
  called  <- ran > 0, short <- host.short, address <- daddr

\* A transfer is one exchange, whatever the host has abandoned before: it is
\* served once and whole, ends after that, and its completion callback or new
\* address follow its end, once, and are not those of another transfer
\* (usb_complete_cb is dropped by the next setup packet, usb.c:640).
ImplementsControlTransfer == Transfer!Spec

(***************************************************************************)
(* Both sides go on as long as they can, and from some time on the host    *)
(* sees every transfer through.                                            *)
(***************************************************************************)
Orderly ==
  \/ /\ host.phase \in {"none", "done", "failed"}
     /\ \E r \in Requests : HostSetup(r)
  \/ HostReads \/ HostStatusIn \/ HostStatusOut \/ HostStalled
  \/ \E short \in BOOLEAN : HostSends(short)

FairSpec == Spec /\ WF_vars(Driver) /\ WF_vars(Orderly)

\* Then every transfer comes to an end, whatever the host abandoned before:
\* host and driver never wait for each other.
TransfersEnd ==
  <>[][Orderly \/ Driver]_vars =>
    (host.phase \in {"data", "status"} ~> host.phase \in {"done", "failed"})
=============================================================================
