CONSTANTS
  r1 = r1
  r2 = r2
  Readers <- OneReader
  Bot = Bot
  NoTurn = NoTurn
  NoClip = NoClip
  NoReader = NoReader
  NumTurns = 2
  MaxSentences = 1
  MaxInterims = 1
SPECIFICATION FairSpec
PROPERTIES
  EveryTurnReturns
