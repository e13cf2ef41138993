SPECIFICATION Spec
CONSTANTS
    pay = pay  jrn = jrn  man = man
    m1 = m1  m2 = m2
    Sessions = {s1, s2}
    Ids = {v1, v2}
    VoucherTypes = {pay, jrn, man}
    Payment = {pay}
    AutoSequence = {pay, jrn}
    Sequence <- MCSequence
    Required <- MCRequired
    Tag <- MCTag
    Books = {b1}
    Members = {m1, m2}
    MaxSeq = 2
    ManualSeqs = {1}
    None = None
SYMMETRY MCSymmetry
PROPERTY AlreadyApprovedIsFinal
CHECK_DEADLOCK FALSE
