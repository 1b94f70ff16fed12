SPECIFICATION Spec
CONSTANTS
    Slots = {s1, s2, s3}
    Emails = {e1, e2}
    Addresses = {a1, a2}
    Clients = {a1, a2}
    Unknown = Unknown
    NoEmail = NoEmail
    MaxUnpaidPerEmail = 2
    MaxUnpaidPerAddress = 2
    ExpireAge = 2
    MaxWait = 1
    Limit = 2
    Overflow = 1
    Window = 2
    MaxIPs = 1
    MaxCents = 20
    IntMax = 255
    s1 = s1
    s2 = s2
    s3 = s3
    e1 = e1
    e2 = e2
    a1 = a1
    a2 = a2
SYMMETRY AdmissionSymmetry
INVARIANTS TypeOK QuotaKept FloodBounded PricesAreExact PricesSurviveText
