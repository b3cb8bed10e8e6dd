SPECIFICATION FairSpec
CONSTANTS
    CurlSlots = 2
    Sockets = {s1}
INVARIANTS EvidenceIsReal NoStaleContext CurlPolledAsAsked
PROPERTIES SpikeConcludes
