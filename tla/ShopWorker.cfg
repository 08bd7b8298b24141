SPECIFICATION WorkerSpec
CONSTANTS
    o1 = o1
    o2 = o2
    n1 = n1
    chat = chat
    r1 = r1
    r2 = r2
    p1 = p1
    p2 = p2
    NoOrder = NoOrder
    NoPayload = NoPayload
    Invalid = Invalid
    scanner = scanner
    Scanners = {}
    Orders <- TwoOrders
    PlatformOrders <- TwoPlatform
    Notice <- TwoNotice
    Quantity <- TwoQuantity
    LegacyOrders = {o2}
    Retriers = {r1}
    Chats <- OneChat
    ChatOf <- OneChatOf
    Codes <- TwoCodes
    Payloads = {p1}
    Configs <- RedeemOnly
    FirstConfig <- TwoConfig
    FirstManifest <- AllUnused
    NewManifests <- Edited
    MaxQuantity = 2
    MaxShipAttempts = 1
    AttemptBound = 5
    MaxCrashes = 1
    MaxEdits = 1
    MaxFaults = 2
    MaxCloses = 0
    q1 = q1
    q2 = q2
    q3 = q3
    i1 = i1
    i2 = i2
    LastMessage = 2
    Replies = {q1, q2, q3}
    Pictures = {i1, i2}
    MediaOf <- SharedMedia
    Texted = {q1, q3}
    MaxTries = 2
    LlmLimit = 2
    MaxSwitches = 2
    MaxSlips = 2
    Callers = {r1, r2}
    MaxStarts = 2
    MaxLogins = 1
    MaxLosses = 2
INVARIANTS
    DeliveredInFull
    LedgerIsTrue
    HandsAreKept
    PartsInOrder
    ImagesAreKept
    HoldIsKept
PROPERTIES
    RevokedCodesAreNotSent
CHECK_DEADLOCK FALSE
VIEW View
