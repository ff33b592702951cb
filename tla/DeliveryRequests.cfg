SPECIFICATION FairSpec
CONSTANTS
    d1 = d1
    Deliveries <- OneDelivery
    DeviceScoped <- OneDelivery
    Requests = {r1, r2}
    Nobody = Nobody
    MaxAttempts = 2
    AttemptLimit = 3
    MaxGeneration = 2
    MaxFaults = 2
INVARIANTS AtMostOneMessage VerdictMatchesProvider
PROPERTY DeliveryResolves
