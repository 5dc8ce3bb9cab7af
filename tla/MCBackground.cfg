SPECIFICATION BackgroundSpec
CONSTANTS
  FastFailureWindow = 1
  Pace = 1
  MaxPace = 3
  ImmediateFailureMemory = 5
  MaxImmediateFailures = 2
  box = box
  spare = spare
  w1 = w1
  w2 = w2
  Hosts = {box, spare}
  SshHosts = {spare}
  Workloads = {w1, w2}
  Probed = {w1}
  Probers = {p1, p2}
  HostLists <- Requests
  PipeCapacity = 2
  MaxDrain = 2
  MaxCapture = 4
  MaxOutput = 5
  MaxHerdrChanges = 3
  MaxBreaks = 2
  MaxStream = 3
CHECK_DEADLOCK FALSE
INVARIANTS
  LoopIsRemembered
  ReportsRestOnAnswers
  OnlyTheLastReadIsLost
  NothingIsMissed
PROPERTIES
  PaceEnds
  CallsConclude
