CONSTANTS
    MaxBody = 3
    MaxChunk = 2
SPECIFICATION Spec
INVARIANTS TypeOK BodyReplayedOnce BearerStopsAtGate
