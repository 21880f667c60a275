\* A window of two words of three bits and eleven counters: every carry, a jump past
\* the whole window and the counter's last values.  Three message identifiers for one
\* slot and two receipts, so that both tables overflow.
SPECIFICATION AnySpec
CONSTANTS
  WordBits = 3
  Words = 2
  CounterLimit = 10
  MsgIds = {m1, m2, m3}
SYMMETRY Symmetry
INVARIANTS
  WindowIsExact
  NoFalseReplay
  ShiftLoopIsShift
  FragmentsMakeWholeRecords
PROPERTIES
  DeliversOnce
  ControlMessagesArriveOnce
\* A sender at its counter limit and a consumed input may stop.
CHECK_DEADLOCK FALSE
