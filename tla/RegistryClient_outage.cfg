SPECIFICATION Spec
CONSTANTS
    s1 = s1
    o1 = o1
    a1 = a1
    Searches = {s1}
    Otps = {o1}
    Acts = {a1}
    OtpOf <- MCOtpOf
    Submits = {a1}
    TopicOf <- MCTopicOf
    MaxTries = 2
    Threshold = 1
    MaxRenewals = 1
    MaxLogins = 2
    None = None
INVARIANT BreakerEarned
PROPERTY KeepsPromise
CHECK_DEADLOCK FALSE
