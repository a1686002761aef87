SPECIFICATION MCSpec
CONSTANTS
    Requests = {r1, r2}
    NoRow = NoRow
    MaxUser = 2
    MaxSession = 2
    MaxPersons = 3
    MaxPasswords = 2
    Names = {n1, n2}
    Addresses = {a1}
    Logins = {l1, l2}
    NoBucket = NoBucket
    NameLimit = 2
    AddressLimit = 3
    Window = 2
INVARIANT
    AdminRemains
