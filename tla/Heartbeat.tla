----------------------------- MODULE Heartbeat ------------------------------
(***************************************************************************)
(* The main loop of main.c that blinks two LEDs, polls USB and blinks      *)
(* again, and the tick interrupt of init.c that counts while it does.      *)
(***************************************************************************)
EXTENDS Integers

CONSTANTS
  Width,    \* the tick counter and cnt are numbers below this one: 2^32
  Period,   \* ticks between two changes of the LEDs: 500
  MaxLag    \* ticks that may pass while the loop goes round once

ASSUME HeartbeatAssumption ==
  /\ Width \in Nat /\ Period \in Nat \ {0} /\ MaxLag \in Nat \ {0}
  /\ Period + MaxLag < Width

VARIABLES
  systick,  \* counted by the interrupt
  cnt,      \* the LEDs change when systick exceeds it
  state,    \* which LED is next
  leds,     \* the pins of port C that are high
  pc,       \* "look", "change", "poll": where the loop is
  lag,      \* ticks since the loop looked at systick
  age       \* history: ticks since cnt was set, at most Period + 1

vars == <<systick, cnt, state, leds, pc, lag, age>>

\* The tick runs while clocks and USB are set up, for less than a period.
Init ==
  /\ systick \in 0 .. MaxLag /\ systick < Period
  /\ cnt = Period /\ state = TRUE /\ leds = {14, 15}
  /\ pc = "look" /\ lag = 0 /\ age = systick

-----------------------------------------------------------------------------
\* The interrupt comes between any two steps of the loop.  That the loop goes
\* round within MaxLag ticks is what the code counts on.
systick_handler ==
  /\ lag < MaxLag
  /\ systick' = (systick + 1) % Width
  /\ lag' = lag + 1
  /\ age' = IF age > Period THEN age ELSE age + 1
  /\ UNCHANGED <<cnt, state, leds, pc>>

\* Mutant: the tick the LEDs are to change at must not be missed.
BugDue == cnt = systick

Due == cnt < systick

Look ==
  /\ pc = "look"
  /\ pc' = IF Due THEN "change" ELSE "poll"
  /\ lag' = 0
  /\ UNCHANGED <<systick, cnt, state, leds, age>>

\* Mutant: the next change is counted from when this one was due.
BugNext == (cnt + Period) % Width

\* systick is read a second time: it may have moved on.
NextChange == (systick + Period) % Width

Change ==
  /\ pc = "change"
  /\ cnt' = NextChange /\ age' = 0
  /\ leds' = IF state THEN {14} ELSE {15}
  /\ state' = ~state
  /\ pc' = "poll"
  /\ UNCHANGED <<systick, lag>>

Poll ==
  /\ pc = "poll" /\ pc' = "look"
  /\ UNCHANGED <<systick, cnt, state, leds, lag, age>>

Loop == Look \/ Change \/ Poll
Next == systick_handler \/ Loop

Spec     == Init /\ [][Next]_vars
FairSpec == Spec /\ WF_vars(Loop) /\ WF_vars(systick_handler)

-----------------------------------------------------------------------------
TypeOK ==
  /\ systick \in 0 .. Width - 1 /\ cnt \in 0 .. Width - 1
  /\ state \in BOOLEAN /\ leds \in SUBSET {14, 15}
  /\ pc \in {"look", "change", "poll"}
  /\ lag \in 0 .. MaxLag /\ age \in 0 .. Period + 1

\* The LEDs change no sooner than Period ticks after the last change, except
\* in the last Period ticks before the counter wraps around: there cnt has
\* wrapped around already, and they change each time the loop goes round.
ChangesAreApart ==
  [][pc = "look" /\ pc' = "change" =>
       age > Period \/ systick >= Width - Period]_vars

\* The LEDs go on blinking for ever, across every wrap around of the counter,
\* unless cnt is set so near the largest number that the loop may never see
\* systick exceed it: with cnt = Width - 1 they never change again.
BlinksOn ==
  []<><<Change>>_vars \/ <>[](cnt > Width - 1 - MaxLag)
=============================================================================
