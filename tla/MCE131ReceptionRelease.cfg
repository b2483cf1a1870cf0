\* One sender, one universe: what is on display once no sender is locked.
SPECIFICATION Spec

CONSTANTS
    Universes = {0}
    Sources = {s1}
    SyncAddresses = {0}
    Black = Black
    Priorities = {1}
    NoSource = NoSource
    TimeSpace = 2
    BlackoutTimeout = 1

INVARIANTS NoSourceIsBlack
