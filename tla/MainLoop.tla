------------------------------ MODULE MainLoop ------------------------------
(***************************************************************************)
(* The loop of main() in DFU mode: the LEDs of Heartbeat, and a call of    *)
(* do_usb_poll of which the buffers of PacketBuffers are seen.  The tick   *)
(* and the peripheral come between any two steps.                          *)
(***************************************************************************)
EXTENDS Heartbeat, PacketBuffers

Starts == Init /\ BuffersInit

\* What interrupts the loop, and what the peripheral does by itself.
Tick == systick_handler /\ UNCHANGED buffers

Peripheral ==
  /\ BusReset \/ HostReads \/ \E n \in Lens : HostSends(n)
  /\ UNCHANGED vars

Beats == (Look \/ Change) /\ UNCHANGED buffers

\* do_usb_poll serves one event and returns; a bus reset takes it four steps.
\* A handler that reads a packet and answers it is two calls here.
Serves ==
  /\ pc = "poll"
  /\ \/ PollReset \/ SetUpTx \/ SetUpRx \/ Enable
     \/ ReadPacket /\ ~istr_reset
     \/ ~istr_reset /\ \E n \in Lens : WritePacket(n)
  /\ IF at' = "poll" THEN Poll ELSE UNCHANGED vars

\* There is nothing to serve, or nothing that changes packet memory: a packet
\* that is left where it is (usb.c:267), a status, another interrupt.
ServesNothing ==
  /\ at = "poll" /\ ~istr_reset
  /\ Poll /\ UNCHANGED buffers

DfuLoop == Beats \/ Serves \/ ServesNothing

LoopNext == Tick \/ Peripheral \/ DfuLoop

LoopSpec ==
  /\ Starts /\ [][LoopNext]_<<vars, buffers>>
  /\ WF_vars(Tick) /\ WF_<<vars, buffers>>(DfuLoop)
=============================================================================
