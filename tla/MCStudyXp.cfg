CONSTANTS
  u1 = u1
  d1 = d1
  Users = {u1}
  Decks = {d1}
  Cards = {c1}
  Sessions = {s1}
  Answers = {a1, a2}
  CardDeck <- MCCardDeck
  SessionUser <- MCSessionUser
  SessionDeck <- MCSessionDeck
  NoDeck = NoDeck
  RecallPower <- MCRecallPower
  RecallExp <- MCRecallExp
  DifficultyPower <- MCDifficultyPower
  ForgetPower <- MCForgetPower
  ForgetExp <- MCForgetExp
  Ratings = {1, 3}
  MaxDay = 1
  MaxFaults = 0
SYMMETRY Symmetry
SPECIFICATION Spec
CHECK_DEADLOCK FALSE
INVARIANTS
  XpFormula
