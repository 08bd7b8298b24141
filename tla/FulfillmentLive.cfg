SPECIFICATION FairSpec
CONSTANTS
    o1 = o1
    o2 = o2
    n1 = n1
    chat = chat
    r1 = r1
    r2 = r2
    p1 = p1
    p2 = p2
    NoOrder = NoOrder
    NoPayload = NoPayload
    Invalid = Invalid
    scanner = scanner
    Scanners = {scanner}
    Orders <- OneOrder
    PlatformOrders <- OnePlatform
    Notice <- OneNotice
    Quantity <- SingleUnit
    LegacyOrders = {}
    Retriers = {r1}
    Chats <- OneChat
    ChatOf <- OneChatOf
    Codes <- OneCode
    Payloads = {p1, p2}
    Configs <- RedeemOnly
    FirstConfig <- OneConfig
    FirstManifest <- AllUnused
    NewManifests <- Edited
    MaxQuantity = 2
    MaxShipAttempts = 1
    AttemptBound = 5
    MaxCrashes = 1
    MaxEdits = 0
    MaxFaults = 1
    MaxCloses = 1
PROPERTY OrdersSettle
CHECK_DEADLOCK FALSE
