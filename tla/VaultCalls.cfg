SPECIFICATION FairSpec
CONSTANTS
    daemon = daemon
    cli = cli
    t3 = t3
    n1 = n1
    k1 = k1
    Proc = {daemon, cli}
    Thread = {t1, t2, t3}
    ProcOf <- TwoProcesses
    Name = {n1, n2}
    Profile = {p1}
    Nothing = Nothing
    Key = {k1, k2}
    Calls <- SomeCalls
    KeysOf <- OneOrAny
    NoFile = NoFile
    MaxCalls = 3
    MaxFaults = 3
    MaxCrashes = 1
INVARIANT TypeOK
PROPERTIES
    RemoteStoreSpec
    PassphraseIsKept
    CallsReturn
