CONSTANTS
  r1 = r1
  r2 = r2
  Readers <- MCReaders
  Bot = Bot
  NoTurn = NoTurn
  NoClip = NoClip
  NoReader = NoReader
  NumTurns = 2
  MaxSentences = 2
  MaxInterims = 0
SPECIFICATION Spec
SYMMETRY ReaderSymmetry
INVARIANTS
  TypeOK
  OneVoice
  ArmedByOwner
  TurnsCutNobody
  BargedInStaysSilent
  WholeReplyOnlyIfSilent
  Inv
PROPERTIES
  OneSpeakerAtATime
