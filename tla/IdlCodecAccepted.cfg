\* Bytes of one bit: a u8 length goes up to 1, a u16 length up to 3.
SPECIFICATION IdlSpec
CONSTANTS
    Base = 2
    Types <- OddTypes
    Samples <- VehicleSamples
    Surplus <- Leftovers
    NoValue = NoValue
INVARIANT AcceptedTypesRoundTrip
