CONSTANTS
  u1 = u1
  d1 = d1
  Users = {u1}
  Decks = {d1}
  Cards = {c1}
  Sessions = {s1}
  Answers = {a1, a2}
  CardDeck <- MCCardDeck
  SessionUser <- MCSessionUser
  SessionDeck <- MCSessionDeck
  NoDeck = NoDeck
  RecallPower <- MCRecallPower
  RecallExp <- MCRecallExp
  DifficultyPower <- MCDifficultyPower
  ForgetPower <- MCForgetPower
  ForgetExp <- MCForgetExp
  Ratings = {1, 3}
  MaxDay = 2
  MaxFaults = 1
VIEW View
SYMMETRY Symmetry
SPECIFICATION Spec
INVARIANTS
  TypeOK
  MemoryAccounted
  LogCounted
PROPERTIES
  DrivesStats
CHECK_DEADLOCK FALSE
