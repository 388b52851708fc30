SPECIFICATION Spec
CONSTANTS
  Setups <- SomeSetups
  MaxMessages = 1
  MaxChunks = 1
  SessionIds = {1, 2, 3}
  CliSetups <- SomeCliSetups
  TermOps = {t1}
  MaxCancels = 2
  MaxFrames = 1
  Peers = {1, 2}
  MaxOutput = 2
  MaxInput = 1
  MaxReply = 2
  MaxTunnels = 2
  MaxNews = 2
  NperfSetups <- SomeMeasurements
  MaxSamples = 1
  MaxRounds = 1
  UndefinedLoop = {"ends", "dies"}
  TaskSetups <- SomeTasks
  MaxRuns = 5
  ServerProtocols = {"websocket", "plain"}
  Source <- ClientAddress
  Strays <- SomeDatagrams
  MaxScrapes = 2
  Entries <- SomeEntries
  Decode <- SomeDecode
  MaxRequests = 2
  NoOp = NoOp
  t1 = t1
INVARIANTS
  FailureIsReported
CHECK_DEADLOCK FALSE
