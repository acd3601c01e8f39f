SPECIFICATION Spec
CONSTANTS
  pkA = pkA
  pkB = pkB
  pkC = pkC
  pkD = pkD
  pkE = pkE
  pkF = pkF
  pkG = pkG
  pkH = pkH
  pkI = pkI
  Packets <- MCPackets
  Src <- MCSrc
  Dst <- MCDst
  Length <- MCLength
  Buffers <- MCBuffers
  NoBuffer = NoBuffer
  VCs = {0, 1}
  DownNode <- MCDownNode
  UpNode <- MCUpNode
  Width <- MCWidth
  Latency <- MCLatency
  BufferSize = 3
  Route <- MCRoute
  Params <- MCParams
  Threads = 2
INVARIANTS
  TypeOK
  CreditConserved
  LinksOwned
  QueuesOrdered
  WormConnected
  AssertionsHold
PROPERTIES
  LinkWidthKept
  ImplementsTransport
