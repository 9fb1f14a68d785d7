CONSTANTS
    Clients <- MCTrio
    Rooms <- MCRooms
    RoomOf <- MCTrioRoomOf
    AccountOf <- MCTrioAccountOf
    SendCap = 1
    MaxSeq = 0
    Pong = Pong

SPECIFICATION Spec
INVARIANTS
    TypeOK
    RegistryMatchesRuns
    SightingsStayInRoom
    FinishedIsClosed
