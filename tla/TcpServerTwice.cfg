CONSTANTS
    Clients = {"first", "second"}
    Outgoing = {"second"}
    Builds = {"win", "nix"}
    MaxPieces <- MCMaxPieces
SPECIFICATION Spec
INVARIANTS
    OneThreadPerDeparture
CHECK_DEADLOCK FALSE
