SPECIFICATION HSpec
CONSTANTS
    o1 = o1
    o2 = o2
    l1 = l1
    l2 = l2
    c1 = c1
    n1 = n1
    n2 = n2
    n3 = n3
    w1 = w1
    w2 = w2
    None = None
    OpenVpnIds = {o1, o2}
    LegacyIds = {}
    Clients = {c1}
    Names = {n1, n2, n3}
    Slug <- SharedSlug
    InstanceSecrets = {{"ca-cert-pem", "server-cert-pem", "server-key-pem"}}
    LegacyProtocols = {}
    RuleCount = 1
    Workers = {w1, w2}
INVARIANTS TypeOK  AppliedIsServed
PROPERTIES GateKeepsHost EnabledOnlyApplied
SYMMETRY Symmetry
