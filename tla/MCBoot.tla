------------------------------- MODULE MCBoot -------------------------------
(***************************************************************************)
(* A small instance of Boot for TLC: words of four bits, a payload of two   *)
(* pages of two words.  An erased size word is 15, more than the payload.   *)
(***************************************************************************)
EXTENDS Boot

MCBits  == 0 .. 3
MCStart == {0}
MCMask  == {1, 2}
MCBase  == {2}

I(n, a, b, c, d) ==
  [i \in 0 .. n - 1 |-> CASE i = 0 -> a [] i = 1 -> b [] i = 2 -> c [] i = 3 -> d]

\* Two applications of three and four words: a stack pointer, the size, and
\* what makes the exclusive or of all words MCStart.  Neither a part of one,
\* nor a page of one and a page of the other, is accepted by the checksum.
Short == I(3, {2}, {0, 1}, {1, 2}, {})
Long  == I(4, {2}, {2}, {3}, {0, 3})

\* An application that ends with two words whose exclusive or is 0, the way a
\* zero-filled table does.
Padded == I(4, {0, 2}, {2}, {}, {})

Strong == {Short, Long}
Weak   == {Padded}

Cells(img, off) ==
  [k \in UInt32 |-> IF k - off \in DOMAIN img THEN img[k - off] ELSE {}]

D(img, off, size) ==
  [header |-> [magic |-> TRUE, offset |-> off, size |-> size],
   cells  |-> Cells(img, off)]

\* Whole images, one of them not right behind the header; an image whose end
\* is missing; headers with no size, an offset inside the header, more than
\* the payload holds, an image past the end of where it may be, and one at the
\* end of the address space, where the sum of offset and size wraps around.
MCDeposits ==
  { D(Short, 3, 3), D(Short, 4, 3), D(Long, 3, 4),
    D([Long EXCEPT ![3] = {}], 3, 4),
    D(Short, 3, 0), D(Short, 2, 3), D(Long, 3, 5), D(Long, 4, 4),
    D(Short, 13, 3) }

NoDeposits == {}

\* No option, and all that add a reason for DFU mode.
Plain    == {{}}
MCBuilds == Plain \cup {{"ENABLE_WATCHDOG", "ENABLE_PINRST_DFU_BOOT"}, Options}
=============================================================================
