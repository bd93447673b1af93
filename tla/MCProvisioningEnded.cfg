\* Two sessions of one customer, or of an operator; two deliveries at a time.
CONSTANTS
    d1 = d1
    d2 = d2
    s1 = s1
    s2 = s2
    o1 = o1
    o2 = o2
    k1 = k1
    e1 = e1
    Delivery = {d1, d2}
    Session = {s1, s2}
    Org = {o1, o2}
    Key = {k1}
    Email = {e1}
    Paid = {"indie"}
    NoSession = NoSession
    NoOrg = NoOrg
    NoKey = NoKey
    NoOne = NoOne
SPECIFICATION Spec
SYMMETRY Symmetric
INVARIANT
    EndedIsDowngraded
\* When no session is left to open, nothing need happen.
CHECK_DEADLOCK FALSE
