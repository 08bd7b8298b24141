SPECIFICATION StoreSpec
CONSTANTS
    o1 = o1
    o2 = o2
    chat = chat
    p1 = p1
    NoOrder = NoOrder
    NoPayload = NoPayload
    Orders <- MCOrders
    Chats <- MCChats
    ChatOf <- MCChatOf
    Codes <- MCCodes
    Payloads <- MCPayloads
    MaxQuantity = 2
    MaxShipAttempts = 1
    AttemptBound = 1
INVARIANTS
    SentCodesStayBound
    NoCodeSentTwice
    ResendsAreIdentical
    ReservationsAreBacked
    DeliveredIsSettled
    ReviewsAreRecorded
PROPERTY NothingIsUndone
SYMMETRY OrderSymmetry
