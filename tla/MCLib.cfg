SPECIFICATION LibSpec
CONSTANTS
    NPages = 7
    MaxOrder = 2
    FFPages = 5
    NSlabPages = 3
    Sizes = {33, 2048, 5000}
    MaxLive = 4
    WordBits = 4
    NInos = 21
    NDirect = 2
    NEntry = 2
    MaxBlks = 7
    BlkBits = 8
    BlkSize = 2
    EntrySize = 1
    Reals = {1, 2, 3}
    HostSize <- MCHostSize
    Nodes = {1, 2, 3, 4, 5, 6, 7, 8}
    KeyOf <- MCKeyOf
    SECTS = 2
    DiskSecs = 7
    BufBlks = 2
    Blocks = 3
    Values = {0, 1}
    Keys = {"a", " ", "q", ";", "|", ">", "&", "BS", "NL"}
    MaxKeys = 5
    LineMax = 4
    MaxArgs = 2
    Cd <- MCCd
CHECK_DEADLOCK FALSE
INVARIANT FreePagesExact
INVARIANT HeapExact
INVARIANT ImageAccounts
INVARIANT ReadsBack
INVARIANT TreeSound
INVARIANT DiskSound
INVARIANT ShellSound
PROPERTY PagesRefined
