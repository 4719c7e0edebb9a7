-------------------------- MODULE HeartbeatProofs ---------------------------
(***************************************************************************)
(* For every width of the counter, period and lag: the LEDs do not change  *)
(* too soon.  While the last change is at most Period ticks old, cnt is    *)
(* Period ticks after it, by Width less if that exceeds the counter.       *)
(***************************************************************************)
EXTENDS Heartbeat, TLAPS

CntFollows ==
  age <= Period => \/ cnt = systick - age + Period
                   \/ cnt = systick - age + Period - Width

IInv == TypeOK /\ CntFollows

USE HeartbeatAssumption

\* A number plus at most Width, modulo Width.
LEMMA WrapsOnce ==
  ASSUME NEW a \in Nat, a < 2 * Width
  PROVE  a % Width = IF a < Width THEN a ELSE a - Width
<1>1. Width \in Nat /\ Width > 0
  OBVIOUS
<1>2. CASE a < Width
  BY <1>1, <1>2
<1>3. CASE a >= Width
  <2>1. (a - Width) % Width = a % Width
    BY <1>1
  <2>2. (a - Width) % Width = a - Width
    BY <1>1, <1>3
  <2> QED BY <1>3, <2>1, <2>2
<1> QED BY <1>2, <1>3

LEMMA Ticks ==
  ASSUME NEW s \in 0 .. Width - 1
  PROVE  /\ (s + 1) % Width = IF s + 1 < Width THEN s + 1 ELSE 0
         /\ (s + Period) % Width = IF s + Period < Width THEN s + Period
                                   ELSE s + Period - Width
  BY WrapsOnce, s + 1 \in Nat, s + 1 < 2 * Width, s + Period \in Nat,
     s + Period < 2 * Width

\* The invariant holds at the start.
LEMMA InitIInv == Init => IInv
  BY DEF Init, IInv, TypeOK, CntFollows

\* Every step keeps it: the tick moves systick and age on together, and a
\* change sets cnt from the tick it is made at.
LEMMA StepIInv == IInv /\ [Next]_vars => IInv'
<1> SUFFICES ASSUME IInv, [Next]_vars PROVE IInv'
  OBVIOUS
<1> USE DEF IInv, TypeOK, CntFollows
<1>1. CASE systick_handler
  <2>1. systick' = IF systick + 1 < Width THEN systick + 1 ELSE 0
    BY <1>1, Ticks DEF systick_handler
  <2> QED BY <1>1, <2>1 DEF systick_handler
<1>2. CASE Look
  BY <1>2 DEF Look
<1>3. CASE Change
  <2>1. cnt' = IF systick + Period < Width THEN systick + Period
               ELSE systick + Period - Width
    BY <1>3, Ticks DEF Change, NextChange
  <2> QED BY <1>3, <2>1 DEF Change
<1>4. CASE Poll
  BY <1>4 DEF Poll
<1>5. CASE UNCHANGED vars
  BY <1>5 DEF vars
<1> QED BY <1>1, <1>2, <1>3, <1>4, <1>5 DEF Next, Loop

THEOREM HeartbeatInvariant == Spec => []IInv
  BY InitIInv, StepIInv, PTL DEF Spec

\* The step that decides on a change (main.c:418) finds the last change more
\* than Period ticks old, or the counter about to wrap around.
LEMMA LookIsApart ==
  IInv /\ [Next]_vars =>
    (pc = "look" /\ pc' = "change" =>
       age > Period \/ systick >= Width - Period)
<1> SUFFICES ASSUME IInv, [Next]_vars, pc = "look", pc' = "change"
             PROVE  age > Period \/ systick >= Width - Period
  OBVIOUS
<1>1. cnt < systick
  BY DEF Next, Loop, systick_handler, Look, Due, Change, Poll, vars
<1> QED BY <1>1 DEF IInv, TypeOK, CntFollows

\* ChangesAreApart for every width, period and lag (main.c:418-420).
THEOREM BlinksNotTooSoon == Spec => ChangesAreApart
<1>1. IInv /\ [Next]_vars =>
        [pc = "look" /\ pc' = "change" =>
           age > Period \/ systick >= Width - Period]_vars
  BY LookIsApart
<1> QED BY <1>1, HeartbeatInvariant, PTL DEF Spec, ChangesAreApart
=============================================================================
