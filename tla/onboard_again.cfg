CONSTANTS
    laptop = laptop
    desktop = desktop
    work = work
    home = home
    copy = copy
    bare = bare
    e1 = e1
    e2 = e2
    b1 = b1
    b2 = b2
    sshKey = sshKey
    mateKey = mateKey
    None = None
    Aws = Aws
    Endpoints <- MCEndpoints
    Buckets <- MCBuckets
    SshKeys <- MCSshKeys
    Repos <- OneRepo
    Machines <- MCMachines
    Home <- OneHome
    Ssh <- MCSsh
    Env <- Unset
    EnvToken <- NoToken
    Global <- Unset
    Default <- NoDefaults
    Requests <- ChangedMind
    Alone = TRUE
    Killable <- Nowhere
    MaxRuns = 2
SPECIFICATION Spec
INVARIANT StaysUsable
CHECK_DEADLOCK FALSE
