SPECIFICATION FairSpec
CONSTANTS
    a1 = a1
    a2 = a2
    b1 = b1
    A = A
    B = B
    Events <- MCEvents
    Chats <- MCChats
    ChatOf <- MCChatOf
    Packets <- MCFewPackets
    MaxAttempts = 2
    MaxQueue = 3
    MaxPerChat = 1
    MaxScan = 1
    MaxTasks = 1
    MaxCrashes = 1
    MaxFaults = 2
    MaxEdits = 0
PROPERTY EventsSettle
CHECK_DEADLOCK FALSE
