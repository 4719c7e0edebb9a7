--------------------------- MODULE ControlTransfer ---------------------------
(***************************************************************************)
(* What usb.c promises to a host and to the DFU driver above it: a control *)
(* transfer is one exchange.  The request is served once, with all the     *)
(* data the host sent; the host gets the whole answer, in order; the       *)
(* transfer ends only then; and what is to follow it, the completion       *)
(* callback or a new address, follows its end.  A new transfer abandons    *)
(* the old one, whose callback is not called any more.                     *)
(***************************************************************************)
EXTENDS Integers, Sequences

CONSTANTS
  Requests,
  Content(_, _),   \* the first bytes of what a request is about
  Answer(_),       \* how many bytes the host gets for it,
  Download(_),     \* and how many it sends
  Callback(_),     \* does it ask for the completion callback?
  NewAddress(_),   \* does it set the address?
  Refusable(_)     \* may the device refuse it?

VARIABLES
  request,
  state,     \* "none", "open", "served", "over" or "failed"
  got,       \* what the host has read
  taken,     \* what the request was served with
  called,    \* the callback was called
  short,     \* the host has sent less than it announced
  address

vars == <<request, state, got, taken, called, short, address>>

Init == /\ state = "none" /\ got = <<>> /\ taken = <<>>
        /\ called = FALSE /\ short = FALSE /\ address = 0

Begin(r) ==
  /\ request' = r /\ state' = "open"
  /\ got' = <<>> /\ taken' = <<>> /\ called' = FALSE /\ short' = FALSE
  /\ UNCHANGED address

Serve ==
  /\ state = "open" /\ state' = "served"
  /\ ~short /\ taken' = Content(request, Download(request))
  /\ UNCHANGED <<request, got, called, short, address>>

Deliver ==
  /\ state = "served"
  /\ \E n \in Len(got) .. Answer(request) : got' = Content(request, n)
  /\ UNCHANGED <<request, state, taken, called, short, address>>

\* What the host sends may arrive at any time, and end early.
CutShort ==
  /\ state = "open" /\ short' = TRUE
  /\ UNCHANGED <<request, state, got, taken, called, address>>

Finish ==
  /\ state = "served" /\ Len(got) = Answer(request) /\ state' = "over"
  /\ UNCHANGED <<request, got, taken, called, short, address>>

\* The host is told that its request failed.
Fail ==
  /\ state = "open"
  /\ Refusable(request) \/ short
  /\ state' = "failed"
  /\ UNCHANGED <<request, got, taken, called, short, address>>

Call ==
  /\ state = "over" /\ Callback(request) /\ ~called /\ called' = TRUE
  /\ UNCHANGED <<request, state, got, taken, short, address>>

Latch ==
  /\ state = "over" /\ NewAddress(request) /\ address' = 1
  /\ UNCHANGED <<request, state, got, taken, called, short>>

BusReset ==
  /\ state' = "none" /\ got' = <<>> /\ taken' = <<>> /\ called' = FALSE
  /\ short' = FALSE /\ address' = 0

Next == (\E r \in Requests : Begin(r)) \/ Serve \/ Deliver \/ CutShort
          \/ Finish \/ Fail \/ Call \/ Latch \/ BusReset

Spec == Init /\ [][Next]_vars
=============================================================================
