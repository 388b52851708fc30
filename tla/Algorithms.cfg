SPECIFICATION Spec
CONSTANTS
  Files <- SomeFiles
  EditedFiles <- SomeEdits
  ProcessEnvs <- SomeEnvs
  CallConfigs <- SomeConfigs
  MaxEdits = 1
  PayloadConfigs <- SomeEncryption
  Identities <- SomeIdentities
  MaxSessions = 2
  MaxPayloads = 1
  AuthSetups <- SomeSetups
  Instants <- SomeInstants
  MaxAuth = 2
  Messages <- SomeMessages
  LengthLimit = 72
  Params <- SomeParams
  MaxParams = 2
  Extras <- SomeExtras
  Answers <- SomeAnswers
  Upstreams <- SomeUpstreams
  TargetSets <- SomeTargets
  Unit = 40
  BufferSize = 2
  MaxObservations = 4
  MaxTime = 5
  Memories <- SomeMemories
  MaxBlocks = 3
  MaxBufferCalls = 4
  Factories = {"f", "g"}
  MaxElements = 1
INVARIANTS
  MessagesRoundTrip
  CredentialsSound
  MetricsExact
  SharingSound
CHECK_DEADLOCK FALSE
