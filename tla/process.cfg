SPECIFICATION FairSpec
CONSTANTS
    MaxSignals = 4
    CommandLines <- AllLines
INVARIANTS
    NoSpuriousRestart
    PortHandedOver
PROPERTIES
    SignalEndsProcess
    SignalRestarts
