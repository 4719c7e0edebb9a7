-------------------------------- MODULE MCDfu --------------------------------
(***************************************************************************)
(* Small instances of Dfu for TLC: pages of 8 bytes at address 16, one for *)
(* the bootloader and two for the payload, in an address space of 64.      *)
(***************************************************************************)
EXTENDS Dfu

CONSTANTS A, B          \* model values: two images

MCImages == {A, B}

Bytes5(c, a, i) == [cmd |-> c, arg |-> a, id |-> i]

\* The buffers a host sends, each at once a command if it is sent as block 0
\* and a page of data if it is sent as another block.  The address is the
\* first page of the payload: block 1 from there is the bootloader's page,
\* block 3 is the last page, the one the command erases, and block 4 is past
\* the end of flash.
PageBuffers ==
  {Bytes5(CMD_SETADDR, 24, A), Bytes5(CMD_ERASE, 32, B)}

\* And an odd address.  Block 1 from there would be in the bootloader, block 3
\* has less than a page left up to the end of flash.  Block 1 from the address
\* 0 found after a reset is 56: the range check wraps around.
StrayBuffers == PageBuffers \cup {Bytes5(CMD_SETADDR, 31, B)}

\* Addresses such that a block of 6 bytes crosses a page.  A block of one byte
\* changes the command and leaves the address of the last one.
CrossingBuffers ==
  {Bytes5(CMD_SETADDR, 28, A), Bytes5(CMD_ERASE, 24, B)}
=============================================================================
