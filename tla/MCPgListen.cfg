SPECIFICATION Spec
CONSTANTS
    s1 = s1
    s2 = s2
    Subscriber = {s1, s2}
    Wants <- MCWants
    MaxEvents = 3
    MaxClients = 2
INVARIANTS
    EventsOnceInOrder
    NothingMissed
    ListenerIsReleased
PROPERTIES
    SubscriberIsServed
CHECK_DEADLOCK FALSE
