CONSTANTS
  Vocabulary <- PeerVocabulary
  Chunks <- SiteChunks
  MaxItems <- PeerItems
  Buffer = 4096

SPECIFICATION Spec

INVARIANTS
  TypeOK
  Guarded
  Answers
  Survives
  Echo
  Forwarded

\* the peer has sent all it sends, or the process or the connection has ended
CHECK_DEADLOCK FALSE
