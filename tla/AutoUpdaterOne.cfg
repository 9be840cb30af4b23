SPECIFICATION Spec
CONSTANT MaxChains = 6
INVARIANT OneInFlight
