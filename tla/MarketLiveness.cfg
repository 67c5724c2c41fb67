CONSTANTS
    g1 = g1
    Hosts = {h1}
    Sessions = {s1}
    Games = {g1}
    Players = {p1}
    Slots = {t1, t2}
    GameOf <- MCGameOf
    PlayerOf <- MCPlayerOf
    Offers <- MCOffers
    NoSession = NoSession
    NoHost = NoHost
    Faults = {"crash", "drop"}
    Flaky = {h1}
    MaxConn = 1
    MaxEvents = 1
    MaxPresence = 1
    MaxCommands = 1
SPECIFICATION LiveSpec
PROPERTY HostsReturn
