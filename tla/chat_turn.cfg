SPECIFICATION Spec
CONSTANTS
    m1 = m1
    m2 = m2
    m3 = m3
    chA = chA
    s1 = s1
    s2 = s2
    alice = alice
    None = None
    NoOne = NoOne
    Messages = {m1, m2, m3}
    ChannelOf <- MCChannelOf
    SafeLimit = 5
    Reserve = 2
    PartThreshold = 3
    MaxTicks = 1
    Sessions = {s1, s2}
    Authors = {alice}
    MaxShortTerm = 4
    CandidateLimit = 3
    RecentLimit = 2
    RecallLimit = 1
    TokenBudget = 5
    Tokens <- MCTokens
    Floor = 1
    Clocks = {1, 2}
    Inboxes <- MCInboxes
    SessionOf <- MCSessionOf
    AuthorOf <- MCAuthorOf
    Writes <- MCWrites
    MaxWrites = 3
    MaxKnown = 1
    MaxOpen = 2
INVARIANTS
    NewestInOrder
    ReaderHasIt
    OwnContext
    TrueReplies
CHECK_DEADLOCK FALSE
