SPECIFICATION Spec
CONSTANTS
    i1 = i1
    i2 = i2
    n1 = n1
    n2 = n2
    p1 = p1
    p2 = p2
    f1 = f1
    f2 = f2
    a1 = a1
    a2 = a2
    a3 = a3
    eth0 = eth0
    eth1 = eth1
    u1 = u1
    u2 = u2
    root = root
    NoLink = NoLink
    IPs = {2, 3}
    NameOf <- OneName
    SubnetOf <- OneSubnet
    HostsOf <- TwoHosts
    AddrChoices <- OneChoice
    FaultSets <- NoFaults
    PortChoices <- TwoPublic
    Ifaces = {i1}
    Names = {n1}
    Peers = {p1, p2}
    Pfs = {f1, f2}
    Addrs = {a1}
    Links = {eth0}
    Ports = {1, 2, 3}
    Users = {u1}
    SuperAdmins = {}
    EgressChoices = {NoLink}
    MasqChoices = {FALSE}
INVARIANTS ForwardsInstalled NoOrphanForward
