------------------------------- MODULE Endpoint -------------------------------
(***************************************************************************)
(* Endpoint 0 at the level of its register: the macros of Core/Inc/usb.h   *)
(* and the handlers of Core/Src/usb.c, store by store.                     *)
(*                                                                         *)
(* The register mixes three kinds of bits.  Storing 0 clears CTR_RX and    *)
(* CTR_TX and storing 1 leaves them; storing 1 flips the data toggles and  *)
(* the two statuses and storing 0 leaves them; SETUP is read-only.  A      *)
(* macro reads the register and stores a value made from what it read: two *)
(* steps, and the peripheral may complete a transaction in between.        *)
(*                                                                         *)
(* What the requests mean and how data is cut into packets is UsbControl's *)
(* matter.  Here the acknowledgement of a transaction may be lost, so data *)
(* toggles matter.                                                         *)
(***************************************************************************)
EXTENDS PacketMemory, FiniteSets

CONSTANT Requests     \* [kind, packets]: the requests the host makes

Kinds == {"read", "write", "plain", "set_halt", "clear_halt",
          "clear_halt_in", "unknown"}

ASSUME EndpointAssumption ==
  Requests \subseteq [kind : Kinds, packets : Nat \ {0}]

-----------------------------------------------------------------------------
(***************************************************************************)
(* The register, as the set of the bits that are 1.                        *)
(***************************************************************************)
CTRS    == {"CTR_RX", "CTR_TX"}
RX_STAT == {"RX1", "RX0"}
TX_STAT == {"TX1", "TX0"}
TYPE    == {"TYPE1", "TYPE0"}
DTOGS   == {"DTOG_RX", "DTOG_TX"}
NTOGGLE == CTRS \cup {"SETUP"} \cup TYPE
TOGGLE  == DTOGS \cup RX_STAT \cup TX_STAT

\* The values of a status, RX_STAT or TX_STAT.
Stat(high, low) ==
  [disabled |-> {}, stall |-> {low}, nak |-> {high}, valid |-> {high, low}]
RX == Stat("RX1", "RX0")
TX == Stat("TX1", "TX0")

CONTROL == {"TYPE0"}         \* USB_EP_TYPE_CONTROL

Xor(s, t) == (s \ t) \cup (t \ s)

\* What storing value makes of the register.
Stored(old, value) ==
  UNION { old \cap value \cap CTRS, old \cap {"SETUP"}, value \cap TYPE,
          Xor(old \cap TOGGLE, value \cap TOGGLE) }

\* Mutant: the receive toggle is stored as it was read.
BugRX_STAT_TOG_MSK == RX_STAT \cup NTOGGLE \cup {"DTOG_RX"}

RX_STAT_TOG_MSK == RX_STAT \cup NTOGGLE
TX_STAT_TOG_MSK == TX_STAT \cup NTOGGLE

TOG_SET_REG_BIT_MSK_AND_SET(old, msk, bit, extra) ==
  Xor(old \cap msk, bit) \cup extra

CLR_REG_BIT_MSK_AND_SET(old, msk, bit, extra) ==
  ((old \cap msk) \ bit) \cup extra

\* What each macro stores, given what it read.
USB_SET_EP_RX_STAT(old, stat) ==
  TOG_SET_REG_BIT_MSK_AND_SET(old, RX_STAT_TOG_MSK, stat, CTRS)
USB_SET_EP_TX_STAT(old, stat) ==
  TOG_SET_REG_BIT_MSK_AND_SET(old, TX_STAT_TOG_MSK, stat, CTRS)

\* Mutants: the other flag is cleared; the other flag is stored as read.
BugClearsOther(old) ==
  CLR_REG_BIT_MSK_AND_SET(old, NTOGGLE, {"CTR_TX"}, {"CTR_RX"})
BugStoresAsRead(old) == CLR_REG_BIT_MSK_AND_SET(old, NTOGGLE, {"CTR_TX"}, {})

USB_CLR_EP_RX_CTR(old) ==
  CLR_REG_BIT_MSK_AND_SET(old, NTOGGLE, {"CTR_RX"}, {"CTR_TX"})
USB_CLR_EP_TX_CTR(old) ==
  CLR_REG_BIT_MSK_AND_SET(old, NTOGGLE, {"CTR_TX"}, {"CTR_RX"})
USB_CLR_EP_RX_DTOG(old) == old \cap (NTOGGLE \cup {"DTOG_RX"})
USB_CLR_EP_TX_DTOG(old) == old \cap (NTOGGLE \cup {"DTOG_TX"})
USB_SET_EP_TYPE(old, type) == ((old \cap NTOGGLE) \ TYPE) \cup type
USB_SET_EP_ADDR(old) == old \cap NTOGGLE       \* of address 0

-----------------------------------------------------------------------------
(***************************************************************************)
(* A packet is known by the request it belongs to and its number in the    *)
(* data stage; a setup packet has number 0.                                *)
(***************************************************************************)
NoRequest == [kind |-> "unknown", packets |-> 1]
Empty     == [of |-> NoRequest, number |-> 0]

VARIABLES
  reg, ef, reset_flag, pma_rx, pma_tx,      \* the peripheral
  todo,        \* what the running handler has yet to do
  loaded,      \* the value a macro has read and not stored yet: a set of one
  usb_fsm_state, usb_force_nak, usb_req,
  buf,         \* the two halves of the packet copied last
  chunk,       \* how many packets of data the driver has moved
  asked, stages, toggle, moved,             \* the host, see Stages
  overtaken    \* the host has not always been Patient

peripheral == <<reg, ef, reset_flag, pma_rx, pma_tx>>
driver     == <<todo, loaded, usb_fsm_state, usb_force_nak, usb_req, buf,
                chunk>>
host       == <<asked, stages, toggle, moved>>
vars       == <<peripheral, driver, host, overtaken>>

\* A step of a handler: a name and what it is about.
Do(name) == <<name, {}>>

\* What _usbd_ep_setup leaves.
Ready == CONTROL \cup RX.valid \cup TX.nak

Init ==
  /\ reg = Ready /\ ef = TRUE /\ reset_flag = FALSE
  /\ pma_rx = Empty /\ pma_tx = Empty
  /\ todo = <<>> /\ loaded = {} /\ usb_fsm_state = "IDLE"
  /\ usb_force_nak = FALSE /\ usb_req = NoRequest /\ buf = <<Empty, Empty>>
  /\ chunk = 0
  /\ asked = NoRequest /\ stages = <<>> /\ toggle = TRUE /\ moved = 0
  /\ overtaken = FALSE

-----------------------------------------------------------------------------
(***************************************************************************)
(* The host and the peripheral.  The host does its transactions one by     *)
(* one; it repeats one whose acknowledgement it does not get.              *)
(***************************************************************************)
Stages(r) ==
  CASE r.kind = "read"  -> [i \in 1 .. r.packets + 1 |->
                              IF i <= r.packets THEN "in" ELSE "out"]
    [] r.kind = "write" -> [i \in 1 .. r.packets + 1 |->
                              IF i <= r.packets THEN "out" ELSE "in"]
    [] OTHER -> <<"in">>

Turn(way) == stages # <<>> /\ Head(stages) = way
InData    == Len(stages) > 1
\* The status stage has data toggle 1.
Toggle    == IF InData THEN toggle ELSE TRUE

Flagged == reg \cap CTRS # {} \/ reset_flag

\* A patient host waits until the device has looked at every event, and does
\* not abandon a transfer while a handler runs.
Patient == ~Flagged /\ (stages = <<>> \/ todo = <<>>)

\* A setup packet is taken whatever the statuses, and discarded while a
\* reception is flagged.
HostSetup(r) ==
  /\ ef /\ reg \cap RX_STAT # RX.disabled /\ "CTR_RX" \notin reg
  /\ reg' = UNION { reg \cap (TYPE \cup CTRS), {"CTR_RX", "SETUP"}, DTOGS,
                    RX.nak, TX.nak }
  /\ pma_rx' = [of |-> r, number |-> 0]
  /\ asked' = r /\ stages' = Stages(r) /\ toggle' = TRUE /\ moved' = 0
  /\ overtaken' = (overtaken \/ ~Patient)
  /\ UNCHANGED <<ef, reset_flag, pma_tx, driver>>

Proceed ==
  /\ stages' = Tail(stages)
  /\ toggle' = ~toggle
  /\ moved' = IF InData THEN moved + 1 ELSE moved
  /\ UNCHANGED asked

\* The host reads a packet; acked: its acknowledgement arrives.
HostReads(acked) ==
  /\ Turn("in") /\ reg \cap TX_STAT = TX.valid
  /\ reg' = IF acked
            THEN Xor(reg \ TX_STAT, {"DTOG_TX"}) \cup TX.nak \cup {"CTR_TX"}
            ELSE reg
  /\ IF ("DTOG_TX" \in reg) = Toggle THEN Proceed ELSE UNCHANGED host
  /\ UNCHANGED <<ef, reset_flag, pma_rx, pma_tx, driver, overtaken>>

\* The host sends a packet; one the peripheral has already is acknowledged
\* and dropped.
HostSends(acked) ==
  /\ Turn("out") /\ reg \cap RX_STAT = RX.valid /\ "CTR_RX" \notin reg
  /\ IF ("DTOG_RX" \in reg) = Toggle
     THEN /\ reg' = Xor(reg \ (RX_STAT \cup {"SETUP"}), {"DTOG_RX"})
                      \cup RX.nak \cup {"CTR_RX"}
          /\ pma_rx' = IF InData THEN [of |-> asked, number |-> moved + 1]
                       ELSE Empty
     ELSE UNCHANGED <<reg, pma_rx>>
  /\ IF acked THEN Proceed ELSE UNCHANGED host
  /\ UNCHANGED <<ef, reset_flag, pma_tx, driver, overtaken>>

\* The host is told that the request has failed.
HostStalled ==
  /\ \/ Turn("in")  /\ reg \cap TX_STAT = TX.stall
     \/ Turn("out") /\ reg \cap RX_STAT = RX.stall
  /\ stages' = <<"failed">>
  /\ UNCHANGED <<peripheral, driver, asked, toggle, moved, overtaken>>

\* The flags survive a bus reset; what becomes of SETUP is not specified.
\* The bus stays in reset while the driver deals with it.
Resetting == \E i \in DOMAIN todo : todo[i][1] = "enable"

BusReset ==
  /\ ~Resetting
  /\ \E setup \in SUBSET (reg \cap {"SETUP"}) : reg' = (reg \cap CTRS) \cup setup
  /\ reset_flag' = TRUE /\ ef' = FALSE
  /\ stages' = <<>>
  /\ overtaken' = (overtaken \/ ~Patient)
  /\ UNCHANGED <<pma_rx, pma_tx, driver, asked, toggle, moved>>

-----------------------------------------------------------------------------
(***************************************************************************)
(* The driver: do_usb_poll and what it calls.                              *)
(***************************************************************************)
\* Mutant: the receiver is not opened.
BugSetUp == << Do("set_addr"), Do("set_type"), Do("clr_tx_dtog"),
               <<"set_tx", TX.nak>>, Do("clr_rx_dtog"), Do("enable") >>

\* _usbd_ep_setup of endpoint 0, then the address.
SetUp == << Do("set_addr"), Do("set_type"), Do("clr_tx_dtog"),
            <<"set_tx", TX.nak>>, Do("clr_rx_dtog"), <<"set_rx", RX.valid>>,
            Do("enable") >>

Stall == << <<"set_tx", TX.stall>>, <<"set_rx", RX.stall>> >>

driver_but_todo == <<loaded, usb_fsm_state, usb_force_nak, usb_req, buf, chunk>>
others == <<host, overtaken>>

Polling == todo = <<>>

PollReset ==
  /\ Polling /\ reset_flag
  /\ reset_flag' = FALSE
  /\ todo' = SetUp
  /\ UNCHANGED <<reg, ef, pma_rx, pma_tx, driver_but_todo, others>>

\* A reception; which kind is looked up in a step of its own.
PollReceived ==
  /\ Polling /\ ~reset_flag /\ "CTR_RX" \in reg
  /\ todo' = <<Do("which")>>
  /\ UNCHANGED <<peripheral, driver_but_todo, others>>

PollSent ==
  /\ Polling /\ ~reset_flag /\ reg \cap CTRS = {"CTR_TX"}
  /\ todo' = << Do("clr_tx_ctr"), Do("in") >>
  /\ UNCHANGED <<peripheral, driver_but_todo, others>>

Step(name) == todo # <<>> /\ Head(todo)[1] = name

Enable ==
  /\ Step("enable")
  /\ ef' = TRUE /\ todo' = <<>>
  /\ UNCHANGED <<reg, reset_flag, pma_rx, pma_tx, driver_but_todo, others>>

\* _usbd_control_setup, _usbd_control_out.
Setup ==
  /\ Step("which") /\ "SETUP" \in reg
  /\ usb_force_nak' = TRUE
  /\ todo' = << <<"set_rx", RX.nak>>, Do("read"), Do("setup") >>
  /\ UNCHANGED <<peripheral, loaded, usb_fsm_state, usb_req, buf, chunk, others>>

Out ==
  /\ Step("which") /\ "SETUP" \notin reg
  /\ CASE usb_fsm_state \in {"DATA_OUT", "LAST_DATA_OUT"} ->
            todo' = <<Do("read"), Do("data")>> /\ UNCHANGED usb_fsm_state
       [] usb_fsm_state = "STATUS_OUT" ->
            todo' = <<Do("read")>> /\ usb_fsm_state' = "IDLE"
       [] OTHER -> todo' = Stall /\ usb_fsm_state' = "IDLE"
  /\ UNCHANGED <<peripheral, loaded, usb_force_nak, usb_req, buf, chunk, others>>

\* _usbd_ep_read_packet finds nothing while the receiver is open.  A status
\* stage has nothing to copy.
Copies == << <<"copy", 1>>, <<"copy", 2>> >>

\* Mutant: the reception is released before it has been copied.
BugTaking(copies, reopen) == <<Do("clr_rx_ctr")>> \o copies \o reopen

Taking(copies, reopen) == copies \o <<Do("clr_rx_ctr")>> \o reopen

Read ==
  /\ Step("read")
  /\ LET then == Tail(todo)
     IN IF reg \cap RX_STAT = RX.valid
        THEN IF then = <<>> THEN todo' = <<>> /\ UNCHANGED usb_fsm_state
             ELSE todo' = Stall /\ usb_fsm_state' = "IDLE"
        ELSE /\ todo' = Taking(IF then = <<>> THEN <<>> ELSE Copies,
                               IF usb_force_nak THEN <<>>
                               ELSE << <<"set_rx", RX.valid>> >>) \o then
             /\ UNCHANGED usb_fsm_state
  /\ UNCHANGED <<peripheral, loaded, usb_force_nak, usb_req, buf, chunk, others>>

Copy ==
  /\ Step("copy")
  /\ buf' = [buf EXCEPT ![Head(todo)[2]] = pma_rx]
  /\ todo' = Tail(todo)
  /\ UNCHANGED <<peripheral, loaded, usb_fsm_state, usb_force_nak, usb_req,
                 chunk, others>>

\* _usbd_ep_write_packet does nothing while a packet waits to be sent.
Write ==
  /\ Step("write")
  /\ IF reg \cap TX_STAT = TX.valid
     THEN todo' = Tail(todo) /\ UNCHANGED pma_tx
     ELSE /\ pma_tx' = Head(todo)[2]
          /\ todo' = << <<"set_tx", TX.valid>> >> \o Tail(todo)
  /\ UNCHANGED <<reg, ef, reset_flag, pma_rx, driver_but_todo, others>>

\* Mutant: a packet more than there are.
BugSendChunk(r, n) ==
  /\ todo' = << <<"write", [of |-> r, number |-> n + 1]>> >>
  /\ chunk' = n + 1
  /\ usb_fsm_state' = IF n < r.packets THEN "DATA_IN" ELSE "LAST_DATA_IN"

\* usb_control_send_chunk, with n packets moved before.
SendChunk(r, n) ==
  /\ todo' = << <<"write", [of |-> r, number |-> n + 1]>> >>
  /\ chunk' = n + 1
  /\ usb_fsm_state' = IF n + 1 < r.packets THEN "DATA_IN" ELSE "LAST_DATA_IN"

\* Mutant: the last packet is not known for it.
BugDataOutState(left) == IF left > 0 THEN "DATA_OUT" ELSE "LAST_DATA_OUT"

DataOutState(left) == IF left > 1 THEN "DATA_OUT" ELSE "LAST_DATA_OUT"

\* The request is in usb_req: _usb_control_setup_read and _setup_write.
Dispatch ==
  /\ Step("setup")
  /\ LET r == buf[1].of
         status == << <<"write", Empty>> >>
     IN /\ usb_req' = r
        /\ CASE r.kind = "read" -> SendChunk(r, 0) /\ UNCHANGED usb_force_nak
             [] r.kind = "write" ->
                  /\ chunk' = 0 /\ usb_fsm_state' = DataOutState(r.packets)
                  /\ usb_force_nak' = FALSE
                  /\ todo' = << <<"set_rx", RX.valid>> >>
             [] r.kind = "unknown" ->
                  /\ todo' = Stall /\ usb_fsm_state' = "IDLE"
                  /\ UNCHANGED <<usb_force_nak, chunk>>
             [] OTHER ->
                  /\ todo' = (CASE r.kind = "set_halt" -> Stall
                     [] r.kind = "clear_halt" ->
                          << <<"set_tx", TX.nak>>, Do("clr_rx_dtog"),
                             <<"set_rx", RX.valid>> >>
                     [] r.kind = "clear_halt_in" ->
                          << <<"set_tx", TX.nak>>, Do("clr_tx_dtog") >>
                     [] OTHER -> <<>>) \o status
                  /\ usb_fsm_state' = "STATUS_IN"
                  /\ UNCHANGED <<usb_force_nak, chunk>>
  /\ UNCHANGED <<peripheral, loaded, buf, others>>

\* A packet of the data stage has been copied.
Data ==
  /\ Step("data")
  /\ chunk' = chunk + 1
  /\ IF usb_fsm_state = "LAST_DATA_OUT"
     THEN todo' = << <<"write", Empty>> >> /\ usb_fsm_state' = "STATUS_IN"
     ELSE /\ todo' = <<>>
          /\ usb_fsm_state' = DataOutState(usb_req.packets - chunk')
  /\ UNCHANGED <<peripheral, loaded, usb_force_nak, usb_req, buf, others>>

\* _usbd_control_in, after the flag was cleared.
In ==
  /\ Step("in")
  /\ CASE usb_fsm_state = "DATA_IN" ->
            SendChunk(usb_req, chunk) /\ UNCHANGED usb_force_nak
       [] usb_fsm_state = "LAST_DATA_IN" ->
            /\ usb_fsm_state' = "STATUS_OUT" /\ usb_force_nak' = FALSE
            /\ todo' = << <<"set_rx", RX.valid>> >> /\ UNCHANGED chunk
       [] OTHER ->
            /\ todo' = IF usb_fsm_state = "STATUS_IN" THEN <<>> ELSE Stall
            /\ usb_fsm_state' = "IDLE" /\ UNCHANGED <<usb_force_nak, chunk>>
  /\ UNCHANGED <<peripheral, loaded, usb_req, buf, others>>

(***************************************************************************)
(* A macro: the load and the store.                                        *)
(***************************************************************************)
Value(op, old) ==
  CASE op[1] = "set_rx"      -> USB_SET_EP_RX_STAT(old, op[2])
    [] op[1] = "set_tx"      -> USB_SET_EP_TX_STAT(old, op[2])
    [] op[1] = "clr_rx_ctr"  -> USB_CLR_EP_RX_CTR(old)
    [] op[1] = "clr_tx_ctr"  -> USB_CLR_EP_TX_CTR(old)
    [] op[1] = "clr_rx_dtog" -> USB_CLR_EP_RX_DTOG(old)
    [] op[1] = "clr_tx_dtog" -> USB_CLR_EP_TX_DTOG(old)
    [] op[1] = "set_type"    -> USB_SET_EP_TYPE(old, CONTROL)
    [] op[1] = "set_addr"    -> USB_SET_EP_ADDR(old)

Macros == {"set_rx", "set_tx", "clr_rx_ctr", "clr_tx_ctr", "clr_rx_dtog",
           "clr_tx_dtog", "set_type", "set_addr"}

AtMacro == todo # <<>> /\ Head(todo)[1] \in Macros

Load ==
  /\ AtMacro /\ loaded = {}
  /\ loaded' = {reg}
  /\ UNCHANGED <<peripheral, todo, usb_fsm_state, usb_force_nak, usb_req, buf,
                 chunk, others>>

Store ==
  /\ AtMacro
  /\ \E old \in loaded : reg' = Stored(reg, Value(Head(todo), old))
  /\ loaded' = {} /\ todo' = Tail(todo)
  /\ UNCHANGED <<ef, reset_flag, pma_rx, pma_tx, usb_fsm_state, usb_force_nak,
                 usb_req, buf, chunk, others>>

-----------------------------------------------------------------------------
Host ==
  \/ \E r \in Requests : HostSetup(r)
  \/ \E acked \in BOOLEAN : HostReads(acked) \/ HostSends(acked)
  \/ HostStalled
  \/ BusReset

Driver ==
  \/ PollReset \/ Enable \/ PollReceived \/ PollSent
  \/ Setup \/ Out \/ In \/ Dispatch \/ Data
  \/ Read \/ Copy \/ Write
  \/ Load \/ Store

Next == Host \/ Driver

Spec == Init /\ [][Next]_vars

FairSpec == Spec /\ WF_vars(Driver)

-----------------------------------------------------------------------------
Packet == [of : Requests \cup {NoRequest}, number : Nat]

TypeOK ==
  /\ reg \subseteq NTOGGLE \cup TOGGLE
  /\ ef \in BOOLEAN /\ reset_flag \in BOOLEAN /\ {pma_rx, pma_tx} \subseteq Packet
  /\ \A i \in DOMAIN todo : todo[i][1] \in
       Macros \cup {"which", "read", "setup", "data", "in", "copy", "write",
                 "enable"}
  /\ loaded \subseteq SUBSET (NTOGGLE \cup TOGGLE)
  /\ loaded # {} => AtMacro /\ Cardinality(loaded) = 1
  /\ usb_fsm_state \in {"IDLE", "DATA_IN", "LAST_DATA_IN", "STATUS_IN",
                        "DATA_OUT", "LAST_DATA_OUT", "STATUS_OUT"}
  /\ usb_force_nak \in BOOLEAN /\ usb_req \in Requests \cup {NoRequest}
  /\ buf \in [1 .. 2 -> Packet]
  /\ chunk \in Nat
  /\ usb_req.kind \in {"read", "write"} => chunk <= usb_req.packets
  /\ asked \in Requests \cup {NoRequest} /\ stages \in Seq({"in", "out", "failed"})
  /\ toggle \in BOOLEAN /\ moved \in Nat
  /\ overtaken \in BOOLEAN

(***************************************************************************)
(* Properties.  What needs a patient host says so.                         *)
(***************************************************************************)
\* A packet is not overwritten while _usbd_ep_read_packet copies it, for its
\* reception is flagged till then (usb.c: copy, then USB_CLR_EP_RX_CTR).
PacketsAreWhole ==
  todo # <<>> /\ Head(todo)[1] \in {"setup", "data"} => buf[1] = buf[2]

\* When a packet is copied, to packet memory or from it, no byte of it is lost,
\* swapped or added, whatever its length (st_usbfs_copy_to_pm, usb.c:167-249).
CopiesAreExact == Step("copy") \/ Step("write") => CopiesReturn

\* Every packet of data arrives once and in order, in both directions, though
\* acknowledgements get lost: no macro that sets a status or clears a flag
\* disturbs the data toggles.
DataIsWhole ==
  [][~overtaken =>
       /\ moved' = moved + 1 /\ Turn("in") =>
            pma_tx = [of |-> asked, number |-> moved']
       /\ Data => buf[1] = [of |-> usb_req, number |-> chunk'] ]_vars

Clears(ctr) == IF ctr = "CTR_RX" THEN "clr_rx_ctr" ELSE "clr_tx_ctr"

\* A flag the peripheral raises while a macro is between its read and its
\* store is not lost (the EXTRA_BITS of usb.h).  The exception: those that
\* clear a data toggle store the flags as they read them, so a setup packet
\* that overtakes CLEAR_FEATURE(ENDPOINT_HALT) may go unnoticed.
EventsAreNotDropped ==
  [][\A ctr \in CTRS : ctr \in reg /\ ctr \notin reg' =>
       \/ Head(todo)[1] = Clears(ctr)
       \/ /\ overtaken /\ usb_req.kind \in {"clear_halt", "clear_halt_in"}
          /\ Head(todo)[1] \in {"clr_rx_dtog", "clr_tx_dtog"}]_vars

\* With nothing flagged and no handler running, the device answers to what a
\* patient host does next.  There are two exceptions.  If the acknowledgement
\* of the last packet of an answer got lost the device waits for the host to
\* read it again, while the host waits for the receiver to open: the host
\* must time out.  CLEAR_FEATURE(ENDPOINT_HALT) of endpoint 0x80 resets the
\* toggle its own status stage is about to use.
NoStandoff ==
  ~overtaken /\ ~Flagged /\ todo = <<>> =>
    /\ Turn("in") => \/ reg \cap TX_STAT \in {TX.valid, TX.stall}
                     \/ asked.kind = "clear_halt_in"
    /\ Turn("out") => \/ reg \cap RX_STAT \in {RX.valid, RX.stall}
                      \/ reg \cap TX_STAT = TX.valid

\* Whatever the peripheral does between the read and the store of a macro,
\* the receiver is left disabled, deaf even to setup packets, only while the
\* driver has yet to set its status.
NeverShut ==
  reg \cap RX_STAT = RX.disabled =>
    Flagged \/ \E i \in DOMAIN todo : todo[i][1] = "set_rx"

\* Every reception is taken, and so the next setup packet can be, unless the
\* host overtook the driver: a packet the driver does not expect, or finds
\* with the receiver open, stays flagged for ever (usb.c:267, 689, 783).
ReceptionsAreTaken == "CTR_RX" \in reg ~> "CTR_RX" \notin reg \/ overtaken
=============================================================================
