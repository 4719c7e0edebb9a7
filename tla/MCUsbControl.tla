---------------------------- MODULE MCUsbControl ----------------------------
(***************************************************************************)
(* A small instance of UsbControl for TLC: packets of two bytes and a      *)
(* buffer of four.                                                         *)
(***************************************************************************)
EXTENDS UsbControl

R(what, in, wLength, size) ==
  [what |-> what, in |-> in, wLength |-> wLength, size |-> size]

\* Answers of one and two packets, empty ones, ones cut off by the host, and
\* one that needs an empty packet at its end; downloads of one and two
\* packets, and one that is too long.
MCRequests ==
  { R("fetch", TRUE, 5, 4),        \* two full packets and an empty one
    R("fetch", TRUE, 4, 4),        \* two full packets
    R("fetch", TRUE, 5, 3),        \* a full packet and a short one
    R("fetch", TRUE, 1, 2),        \* cut off
    R("fetch", TRUE, 3, 0),        \* an upload out of range
    R("getstatus", TRUE, 3, 3),
    R("detach", FALSE, 0, 0),
    R("detach", FALSE, 1, 0),      \* with data nobody asked for
    R("set_address", FALSE, 0, 0),
    R("set_halt", FALSE, 0, 0),
    R("clear_halt", FALSE, 0, 0),
    R("store", FALSE, 3, 0),
    R("store", FALSE, 4, 0),
    R("store", FALSE, 5, 0),       \* longer than the buffer
    R("unknown", TRUE, 5, 0),
    R("unknown", FALSE, 1, 0) }

\* Fewer, for a host that outruns the driver.
FewRequests ==
  { R("fetch", TRUE, 5, 4),
    R("getstatus", TRUE, 3, 3),
    R("plain", FALSE, 0, 0),
    R("set_address", FALSE, 0, 0),
    R("store", FALSE, 4, 0),
    R("store", FALSE, 3, 0) }
=============================================================================
