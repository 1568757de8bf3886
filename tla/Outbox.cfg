SPECIFICATION FairSpec
CONSTANTS
    m1 = m1
    d1 = d1
    d2 = d2
    NoMerchant = NoMerchant
    Events = {1, 2}
    Dispatchers = {d1, d2}
    Merchants = {m1}
    MerchantOf <- MCMerchantOf
    Publishers <- BothPublishers
    BatchSize = 1
    MaxRetry = 2
    MaxFaults = 1
INVARIANT SentWasOffered
INVARIANT NotGivenUpEarly
INVARIANT IInv
PROPERTY EventuallySettled
