SPECIFICATION FairSpec
CONSTANTS
  MaxBytes = 14
  MaxMessage = 8
  InboxBound = 2
  Lengths <- MCLengths
  Messages <- MCMessages
  Streams <- MCStreams
  Malformed <- MCMalformed
CHECK_DEADLOCK FALSE
INVARIANTS
  MessagesExact
  NothingLostAtClose
PROPERTIES
  KeepsCallbacks
  ServerIsHeard
