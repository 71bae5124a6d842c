--------------------------- MODULE MCStudyClient ----------------------------
EXTENDS StudyClient, TLC

CONSTANTS u1, d1

\* One user with two sessions of one deck.
MCCardDeck    == [c \in Cards |-> d1]
MCSessionUser == [s \in Sessions |-> u1]
MCSessionDeck == [s \in Sessions |-> d1]
=============================================================================
