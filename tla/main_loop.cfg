\* The loop of main() in DFU mode: LEDs with the tick interrupt, and packets with
\* bus resets at any step, shorter than the buffers, as long and longer.
SPECIFICATION LoopSpec
CONSTANTS
  Width = 16
  Period = 4
  MaxLag = 2
  Sizes = {8, 64}
  Lens = {0, 64, 200}
INVARIANTS
  PacketsSurvive
PROPERTIES
  ChangesAreApart
  BlinksOn
