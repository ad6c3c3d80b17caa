CONSTANTS
    Clients = {"first", "second"}
    Outgoing = {"second"}
    Builds = {"win", "nix"}
    MaxPieces <- MCMaxPieces
SPECIFICATION FairSpec
INVARIANTS
    TypeOK
PROPERTIES
    ImplementsSessions
    DepartureIsHandled
    AcceptorEnds
CHECK_DEADLOCK FALSE
