\* Two kinds of chunk tell orders apart; three chunks in a body give one that
\* is queued while the reader waits, one queued behind it, and one left for a
\* later packet.
CONSTANTS
    Chunk = {c1, c2}
    None = None
    MaxChunks = 3
SPECIFICATION FairSpec
INVARIANTS
    NoLostWakeup
    Backpressure
    NothingCarriedOver
PROPERTIES
    PipeSpec
    BodyIsReadToTheEnd
