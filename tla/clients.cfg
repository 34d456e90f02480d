CONSTANTS
    c1 = c1
    c2 = c2
    Clients = {c1, c2}
    NoClient = NoClient
    Scripts <- ScriptSet
    ReadChunk = 3
    MaxInput = 3
    MaxOutput = 2
    MaxCommandsPerTick = 2
    Runtimes <- BothRuntimes
SPECIFICATION FairSpec
INVARIANTS TypeOK PipelineInOrder NothingCompleteWaits BuffersBounded TurnIsBounded AckedIsLoggedUntilClosed
PROPERTIES ConnectionsEnd LogIsClosed
