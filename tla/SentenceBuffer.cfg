\* Every reply of up to five characters, in every division into chunks.
SPECIFICATION Spec
CONSTANTS
  MaxLen = 5
INVARIANTS
  TypeOK
  NothingLost
  NoSentenceWaits
  SpeechFollowsReply
