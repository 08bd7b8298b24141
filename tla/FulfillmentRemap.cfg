SPECIFICATION Spec
CONSTANTS
    o1 = o1
    o2 = o2
    n1 = n1
    chat = chat
    r1 = r1
    r2 = r2
    p1 = p1
    p2 = p2
    NoOrder = NoOrder
    NoPayload = NoPayload
    Invalid = Invalid
    scanner = scanner
    Scanners = {scanner}
    Orders <- OneOrder
    PlatformOrders <- OnePlatform
    Notice <- OneNotice
    Quantity <- SingleUnit
    LegacyOrders = {}
    Retriers = {r1}
    Chats <- OneChat
    ChatOf <- OneChatOf
    Codes <- TwoCodes
    Payloads = {p1, p2}
    Configs <- AnyConfig
    FirstConfig <- MaterialConfig
    FirstManifest <- AllUnused
    NewManifests <- Edited
    MaxQuantity = 2
    MaxShipAttempts = 1
    AttemptBound = 5
    MaxCrashes = 1
    MaxEdits = 1
    MaxFaults = 1
    MaxCloses = 1
INVARIANTS
    OneMessagePerOrder
    SendingIsOwned
PROPERTIES
    StepsAreTransactions
CHECK_DEADLOCK FALSE
