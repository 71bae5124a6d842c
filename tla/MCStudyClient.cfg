CONSTANTS
  u1 = u1
  d1 = d1
  Users = {u1}
  Decks = {d1}
  Cards = {c1, c2}
  Sessions = {s1, s2}
  Answers = {1, 2}
  CardDeck <- MCCardDeck
  SessionUser <- MCSessionUser
  SessionDeck <- MCSessionDeck
  NoDeck = NoDeck
  Ratings = {1, 3}
  MaxDay = 2
  MaxFaults = 0
SPECIFICATION ClientSpec
INVARIANTS
  MasteryFresh
  MemoryExact
  CreditIsSum
PROPERTIES
  KeepsLedger
  LastAnswerCredits
CHECK_DEADLOCK FALSE
