SPECIFICATION Spec
CONSTANTS
    w1 = w1
    w2 = w2
    w3 = w3
    masq = masq
    out1 = out1
    out2 = out2
    Workers = {w1, w2, w3}
    Rules = {masq, out1, out2}
    Lists <- TwoLists
    MaxMisses = 1
SYMMETRY Symmetric
INVARIANTS TypeOK CopiesBounded EnsuredIsThere DeletedIsGone
