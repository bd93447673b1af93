\* Two sessions, of one customer or of two, and two keys; one delivery at a time.
CONSTANTS
    d1 = d1
    s1 = s1
    s2 = s2
    o1 = o1
    o2 = o2
    k1 = k1
    k2 = k2
    e1 = e1
    e2 = e2
    Delivery = {d1}
    Session = {s1, s2}
    Org = {o1, o2}
    Key = {k1, k2}
    Email = {e1, e2}
    Paid = {"indie"}
    NoSession = NoSession
    NoOrg = NoOrg
    NoKey = NoKey
    NoOne = NoOne
SPECIFICATION Spec
SYMMETRY Symmetric
INVARIANTS
    TypeOK
    SetupLeadsHome
    WebhookStaysHome
\* When no session is left to open, nothing need happen.
CHECK_DEADLOCK FALSE
