------------------------------ MODULE PageStore ------------------------------
(***************************************************************************)
(* What the flash side of the bootloader promises to a DFU host.           *)
(*                                                                         *)
(* At most one command is pending: the last one the host sent.  It names a *)
(* set of cells to erase and the bytes to put in cells that are erased.    *)
(* The store changes through the pending command only, the command takes   *)
(* effect at most once, cells it does not name keep their bytes, and so do *)
(* all cells outside Writable.  If power fails before the command is done, *)
(* the cells it names may hold a mixture of old, erased, new and garbage.  *)
(* Without power nothing changes.                                          *)
(***************************************************************************)
CONSTANTS Cells, Writable, Erased, Garbage

VARIABLES store, pending, up

vars == <<store, pending, up>>

\* A command: [page |-> cells to erase, put |-> bytes by cell].
Nothing == [page |-> {}, put |-> [c \in {} |-> Erased]]

IsCommand(c) ==
  /\ c.page \subseteq Writable
  /\ DOMAIN c.put \subseteq Writable

Cleared(s, page) == [c \in Cells |-> IF c \in page THEN Erased ELSE s[c]]

Put(s, put) == [c \in Cells |-> IF c \in DOMAIN put /\ s[c] = Erased
                                THEN put[c] ELSE s[c]]

Init == pending = Nothing /\ up = TRUE

\* A new command takes the place of the last; Nothing withdraws it.
Accept ==
  /\ up /\ UNCHANGED <<store, up>>
  /\ IsCommand(pending')

\* The cells of the page are erased first, and then need not be erased again.
Clear ==
  /\ up /\ UNCHANGED up
  /\ store' = Cleared(store, pending.page)
  /\ pending' \in {pending, [pending EXCEPT !.page = {}]}

Perform ==
  /\ up /\ UNCHANGED up
  /\ store' = Put(Cleared(store, pending.page), pending.put)
  /\ pending' = Nothing

Outage ==
  /\ up /\ up' = FALSE
  /\ pending' = Nothing
  /\ \A c \in Cells : store'[c] # store[c] =>
       \/ c \in pending.page /\ store'[c] \in {Erased, Garbage}
       \/ c \in DOMAIN pending.put /\ store'[c] \in {pending.put[c], Garbage}

Recover == up' = TRUE /\ UNCHANGED <<store, pending>>

Next == Accept \/ Clear \/ Perform \/ Outage \/ Recover

Spec == Init /\ [][Next]_vars
=============================================================================
