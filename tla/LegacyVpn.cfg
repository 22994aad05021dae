SPECIFICATION HSpec
CONSTANTS
    o1 = o1
    o2 = o2
    l1 = l1
    l2 = l2
    c1 = c1
    n1 = n1
    n2 = n2
    n3 = n3
    w1 = w1
    w2 = w2
    None = None
    OpenVpnIds = {}
    LegacyIds = {l1, l2}
    Clients = {}
    Names = {n1, n2}
    Slug <- SharedSlug
    InstanceSecrets = {{"ca-cert-pem", "server-cert-pem", "server-key-pem"}}
    LegacyProtocols = {"l2tp_ipsec"}
    RuleCount = 1
    Workers = {w1}
INVARIANTS  AppliedIsServed
PROPERTIES  EnabledOnlyApplied
SYMMETRY Symmetry
