CONSTANTS
    Clients <- MCPair
    Rooms <- MCRooms
    RoomOf <- MCPairRoomOf
    AccountOf <- MCPairAccountOf
    SendCap = 2
    MaxSeq = 1
    Pong = Pong

SPECIFICATION FairSpec
INVARIANTS
    BatchesInOrder
PROPERTIES
    ClosedIsUnregistered
    BroadcastNeverBlocks
    KeepsFanOut
