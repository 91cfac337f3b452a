SPECIFICATION Spec
CONSTANTS
  Characters = {"r", "a"}
  Vocabulary <- MCVocabulary
  BufferSize = 3
  MaxKeys = 4
  Messages <- MCMessages
  InboxLength = 2
  CommandQueueLength = 1
  Wrap = 5
  Holdoff = 2
  MaxDelivery = 1
INVARIANTS
  TypeOK
PROPERTIES
  CliRequestsWhatWasTyped
  RetainedCommandsAreDropped
  LiveCommandsAct
