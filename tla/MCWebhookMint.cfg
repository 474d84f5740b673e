\* Two events, two deliveries of each at a time, three crashes, failed calls or lost answers.
SPECIFICATION Spec
CONSTANTS
    Orders <- MCOrders
    Within <- MCWithin
    Slots = {s1, s2}
    MaxFaults = 3
INVARIANTS
    DuplicatesBounded
    AckedOrderHasCode
PROPERTY
    EveryOrderAcked
