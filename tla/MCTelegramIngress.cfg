SPECIFICATION Spec
CONSTANTS
    Servers <- MCServers
    Updates <- MCUpdates
    ChatOf <- MCChatOf
    KindOf <- MCKindOf
    Deliveries <- MCDeliveries
INVARIANTS
    ChatHasOneConversation
    ServesWholeOrNotAtAll
