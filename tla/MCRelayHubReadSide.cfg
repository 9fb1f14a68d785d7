CONSTANTS
    Clients <- MCPair
    Rooms <- MCRooms
    RoomOf <- MCPairRoomOf
    AccountOf <- MCPairAccountOf
    SendCap = 1
    MaxSeq = 0
    Pong = Pong

SPECIFICATION FairSpec
PROPERTIES
    EitherSideEndsRun
