----------------------------- MODULE PacketMemory -----------------------------
(***************************************************************************)
(* How Core/Src/usb.c copies packets to the memory of the USB peripheral   *)
(* and from it.  A word of it holds two bytes; a word is a pair here, and  *)
(* the memory a function from word indices to words (the gap the bus       *)
(* leaves behind each word is in PMA_WORD and nowhere else).  The loops    *)
(* take two words at a time, then the word and the byte that are left.     *)
(***************************************************************************)
EXTENDS Integers, Sequences

\* Mutant: the second word of a pair is taken from behind the first byte.
BugWordAt(src, i) == <<src[i + 1], src[IF i % 4 = 2 THEN i + 1 ELSE i + 2]>>

WordAt(src, i) == <<src[i + 1], src[i + 2]>>     \* bytes i and i + 1 of src

st_usbfs_copy_to_pm(pm, src, len) ==
  LET words == len \div 2
      pairs[k \in 0 .. words \div 2] ==
        IF k = 0 THEN pm
        ELSE [pairs[k - 1] EXCEPT ![2 * k - 2] = WordAt(src, 4 * k - 4),
                                  ![2 * k - 1] = WordAt(src, 4 * k - 2)]
      whole == IF words % 2 = 0 THEN pairs[words \div 2]
               ELSE [pairs[words \div 2] EXCEPT
                       ![words - 1] = WordAt(src, 2 * words - 2)]
  IN IF len % 2 = 0 THEN whole ELSE [whole EXCEPT ![words] = <<src[len], 0>>]

st_usbfs_copy_from_pm(pm, len) ==
  LET words == len \div 2
      pairs[k \in 0 .. words \div 2] ==
        IF k = 0 THEN <<>> ELSE pairs[k - 1] \o pm[2 * k - 2] \o pm[2 * k - 1]
      whole == IF words % 2 = 0 THEN pairs[words \div 2]
               ELSE pairs[words \div 2] \o pm[words - 1]
  IN IF len % 2 = 0 THEN whole ELSE Append(whole, pm[words][1])

-----------------------------------------------------------------------------
\* What is copied to packet memory and back is what it was, for every length
\* and whatever the memory held, and nothing behind it is touched.
CopiesReturn ==
  \A len \in 0 .. 13 :
    LET src == [i \in 1 .. 13 |-> i]
        old == [w \in 0 .. 7 |-> <<0, 99>>]
        new == st_usbfs_copy_to_pm(old, src, len)
    IN /\ st_usbfs_copy_from_pm(new, len) = SubSeq(src, 1, len)
       /\ \A w \in 0 .. 7 : 2 * w >= len => new[w] = old[w]
=============================================================================
