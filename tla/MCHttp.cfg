SPECIFICATION FairSpec
CONSTANTS
  Conns = {c1, c2, c3}
  Threads = {t1, t2}
  Nodes = {"files", "others"}
  NoNode = NoNode
  NodesOf <- TwoMachines
  NoConn = NoConn
  KeepAliveMax = 2
  MaxRetry = 1
  MaxList = 2
  MaxTroubles = 1
INVARIANTS
  NoJobForgotten
  StrayFilesAreBounded
PROPERTY RequestsEnd
