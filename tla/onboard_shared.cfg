CONSTANTS
    laptop = laptop
    desktop = desktop
    work = work
    home = home
    copy = copy
    bare = bare
    e1 = e1
    e2 = e2
    b1 = b1
    b2 = b2
    sshKey = sshKey
    mateKey = mateKey
    None = None
    Aws = Aws
    Endpoints <- MCEndpoints
    Buckets <- MCBuckets
    SshKeys <- MCSshKeys
    Repos <- FourRepos
    Machines <- MCMachines
    Home <- FourHomes
    Ssh <- MCSsh
    Env <- Unset
    EnvToken <- NoToken
    Global <- UserGlobal
    Default <- UserDefaults
    Requests <- Sharing
    Alone = TRUE
    Killable <- OutsideRewriting
    MaxRuns = 3
SPECIFICATION Spec
INVARIANTS TypeOK StaysUsable WhoPushedCanRead
PROPERTY KeysAreKept
CHECK_DEADLOCK FALSE
