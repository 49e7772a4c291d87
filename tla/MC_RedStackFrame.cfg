\* One slave, requests with the smallest, the largest and an oversized
\* header.length, and slave frames on both sides of every length bound.
CONSTANTS
    ReqLengths = {8, 80, 81}
    RxLengths = {4, 11, 12, 84, 85}
    RxInfos = {0, 1, 2, 3}
SPECIFICATION FrameSpec
INVARIANT FrameTypeOK
INVARIANT EmittedWellFormed
PROPERTY MatchesExchange
