CONSTANTS
  App = {a1, a2}
  MaxCommands = 2
  MaxChanges = 1
SPECIFICATION Spec
SYMMETRY AppSymmetry
INVARIANTS TypeOK LastWordIsTrue ReadMakesKnown
\* Commands and changes are bounded, and nothing is said of a wild process.
CHECK_DEADLOCK FALSE
