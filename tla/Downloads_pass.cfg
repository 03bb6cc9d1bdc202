SPECIFICATION Spec
CONSTANTS
  g1 = g1  g2 = g2
  Games = {g1, g2}
  NoGame = NoGame
  MaxItems = 2
  MaxStarts = 2
  MaxMoves = 3
CHECK_DEADLOCK FALSE
INVARIANTS TypeOK QueueHonest
PROPERTIES RunsHonest QueueMoves
