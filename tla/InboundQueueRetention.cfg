SPECIFICATION Spec
CONSTANTS
    a1 = a1
    a2 = a2
    b1 = b1
    A = A
    B = B
    Events <- MCEvents
    Chats <- MCChats
    ChatOf <- MCChatOf
    Packets <- MCPackets
    MaxAttempts = 2
    MaxQueue = 2
    MaxPerChat = 2
    MaxScan = 1
    MaxTasks = 1
    MaxCrashes = 1
    MaxFaults = 2
    MaxEdits = 2
INVARIANT EarlierAreComplete
CHECK_DEADLOCK FALSE
