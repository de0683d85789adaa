----------------------------- MODULE Onboarding -----------------------------
(***************************************************************************)
(* How a repository is connected to an encrypted remote: the setup and     *)
(* clone commands, with flags or as wizards, and the first push.  They     *)
(* write the git configuration of the repository, the credentials file and *)
(* the machine key file of the machine, and the keyring of the bucket, one *)
(* after the other, and may be killed, or run again, at any point.         *)
(*                                                                         *)
(* Abstractions.  A repository has one remote and one command at a time.   *)
(* The user answers the wizards, and enters tokens, as the request says.   *)
(* A grant is one step here (Keyring has its calls, and their failing      *)
(* reads), and a keyring is the set of keys with a slot.  Reading a file   *)
(* or appending to it is a step, writing one whole two: it is emptied,     *)
(* then filled.  Keys that are not generated here are SSH keys.  A clone   *)
(* is started outside any repository.                                      *)
(***************************************************************************)
EXTENDS Settings, Integers

CONSTANTS
    Repos,     \* repositories, or directories to clone into
    Machines,
    Home,      \* Home[r]: the machine it is on
    Ssh,       \* Ssh[m]: the SSH keys on a machine
    Env,       \* Env[m]: what the environment sets
    EnvToken,  \* EnvToken[m]: the token in the environment
    Global,    \* Global[m]: the user's global git configuration
    Default,   \* Default[m]: the keys in the user's recipients.txt
    Requests,  \* Requests[r]: what the user may ask for
    Alone,     \* TRUE = one command at a time on a machine
    Killable,  \* the points at which a command may be killed
    MaxRuns    \* bound: commands started

(* The key generated by the n-th command is n. *)
AgeKeys == 1..MaxRuns
PublicKeys == AgeKeys \cup SshKeys

(* wizard asks for everything; identity is the flag of that name, extra the *)
(* recipients given; verify is FALSE with --no-verify.                      *)
Request == [cmd : {"setup", "clone", "push"}, wizard : BOOLEAN,
            endpoint : Endpoints \cup {None}, bucket : Buckets, encryption : Modes,
            identity : SshKeys \cup {None}, extra : SUBSET SshKeys, verify : BOOLEAN]

ASSUME OnboardingAssumption ==
    /\ MaxRuns \in Nat
    /\ Home \in [Repos -> Machines]
    /\ Ssh \in [Machines -> SUBSET SshKeys]
    /\ Env \in [Machines -> Source]
    /\ EnvToken \in [Machines -> Token]
    /\ Global \in [Machines -> Source]
    /\ Default \in [Machines -> SUBSET SshKeys]
    /\ Requests \in [Repos -> SUBSET Request]
    /\ \A r \in Repos : \A req \in Requests[r] : req.identity \in Ssh[Home[r]] \cup {None}
    /\ Alone \in BOOLEAN
    /\ None \notin Request
    /\ AgeKeys \cap SshKeys = {}

VARIABLES
    git,       \* git[r]: the remote in the repository's configuration
    store,     \* store[m]: the credentials file
    identity,  \* identity[m]: the age keys in the default machine key file
    blank,     \* machines whose default key file is there, without any key
    founded,   \* backends with a repo.pub
    slots,     \* slots[x]: the public keys that can open the keyring
    recovery,  \* backends whose keyring has a recovery slot
    runs,      \* commands started
    pc,        \* pc[r]: the next step of the command
    job,       \* job[r]: its request and locals
    outcome,   \* outcome[r]: how the last command ended
    wish       \* history: the last request that ended well, if no other began since

local == <<git, store, identity, blank>>
keyring == <<founded, slots, recovery>>
vars == <<local, keyring, runs, pc, job, outcome, wish>>

Remote == [bucket : Buckets \cup {None}, endpoint : Endpoints \cup {None},
           encryption : Modes \cup {None}, file : File \cup {None},
           recipients : SUBSET PublicKeys]

NoRemote == [bucket |-> None, endpoint |-> None, encryption |-> None, file |-> None,
             recipients |-> {}]

NoJob == [run |-> 0, req |-> None, endpoint |-> None, own |-> {}, file |-> "default",
          entered |-> FALSE, sections |-> NoCredentials, section |-> None, cfg |-> None,
          todo |-> {}, founder |-> FALSE]

Init ==
    /\ git = [r \in Repos |-> NoRemote]
    /\ store = [m \in Machines |-> NoCredentials]
    /\ identity = [m \in Machines |-> {}]
    /\ blank = {}
    /\ founded = {}
    /\ slots = [x \in Backend |-> {}]
    /\ recovery = {}
    /\ runs = 0
    /\ pc = [r \in Repos |-> "idle"]
    /\ job = [r \in Repos |-> NoJob]
    /\ outcome = [r \in Repos |-> "none"]
    /\ wish = [r \in Repos |-> None]

-----------------------------------------------------------------------------
(* Control *)

Req(r) == job[r].req

Goto(r, label) == pc' = [pc EXCEPT ![r] = label] /\ UNCHANGED <<runs, outcome, wish>>

Continue(r, label) == Goto(r, label) /\ UNCHANGED job

End(r, how) ==
    /\ pc' = [pc EXCEPT ![r] = "idle"]
    /\ job' = [job EXCEPT ![r] = NoJob]
    /\ outcome' = [outcome EXCEPT ![r] = how]
    /\ wish' = [wish EXCEPT ![r] = IF how = "ready" THEN Req(r) ELSE @]
    /\ UNCHANGED runs

Kill(r) ==
    /\ pc[r] \in Killable
    /\ End(r, "killed")
    /\ UNCHANGED <<local, keyring>>

Generated(r) == job[r].run

(* The public keys whose secret halves a machine key file holds. *)
KeysIn(m, file) == IF file = "default" THEN identity[m] ELSE {file}

(* The backend that the user means. *)
Meant(req) == SectionKey(req.endpoint, req.bucket)

FirstStep(req) ==
    CASE req.cmd = "push" -> "load"
      [] req.cmd = "clone" -> IF req.wizard THEN "ask token" ELSE "ensure"
      [] req.cmd = "setup" -> IF req.wizard THEN "ask remote"
                              ELSE IF req.encryption = "age" THEN "ensure" ELSE "set url"

Start(r, req) ==
    /\ pc[r] = "idle"
    /\ runs < MaxRuns
    /\ Alone => \A s \in Repos : Home[s] = Home[r] => pc[s] = "idle"
    /\ req.cmd = "push" => git[r].bucket = req.bucket
    /\ runs' = runs + 1
    /\ job' = [job EXCEPT ![r] = [NoJob EXCEPT !.run = runs + 1, !.req = req,
                                            !.endpoint = req.endpoint]]
    /\ pc' = [pc EXCEPT ![r] = FirstStep(req)]
    /\ outcome' = [outcome EXCEPT ![r] = "none"]
    /\ wish' = [wish EXCEPT ![r] = IF req.cmd = "push" \/ @ = req THEN @ ELSE None]
    /\ UNCHANGED <<local, keyring>>

-----------------------------------------------------------------------------
(* The wizards *)

KeyStep(r) == IF Req(r).encryption = "age" THEN "pick key" ELSE "set url"

(* A remote that is there already may be taken as it is, without being     *)
(* asked for the endpoint or the token.                                    *)
AskRemote(r) ==
    /\ pc[r] = "ask remote"
    /\ \/ /\ git[r].bucket = Req(r).bucket
          /\ job' = [job EXCEPT ![r].endpoint = None]
          /\ Goto(r, KeyStep(r))
       \/ Continue(r, "ask token")
    /\ UNCHANGED <<local, keyring>>

(* A token is asked for unless one is known; the user may skip it. *)
AskToken(r) ==
    LET m == Home[r]
        section == SectionKey(job[r].endpoint, Req(r).bucket)
    IN  /\ pc[r] = "ask token"
        /\ \E entered \in BOOLEAN :
             /\ entered => EnvToken[m] = None /\ store[m][section] = None
             /\ job' = [job EXCEPT ![r].entered = entered, ![r].section = section]
        /\ Goto(r, IF Req(r).cmd = "setup" /\ Req(r).encryption = "age"
                   THEN "pick key" ELSE "confirm")
        /\ UNCHANGED <<local, keyring>>

(* Slip: a generated key replaces the file. *)
PickOnly(r) ==
    LET m == Home[r]
    IN  /\ pc[r] = "pick key"
        /\ identity' = [identity EXCEPT ![m] = {Generated(r)}]
        /\ job' = [job EXCEPT ![r].own = {Generated(r)}]
        /\ Goto(r, IF job[r].section = None THEN "set file" ELSE "confirm")
        /\ UNCHANGED <<git, store, blank, keyring>>

(* An age key of the default file, an SSH key, or a new age key, which is  *)
(* appended to the default file.                                           *)
PickKey(r) ==
    LET m == Home[r]
    IN  /\ pc[r] = "pick key"
        /\ \E key \in identity[m] \cup Ssh[m] \cup {Generated(r)} :
             /\ identity' = [identity EXCEPT ![m] = IF key \in Ssh[m] THEN @ ELSE @ \cup {key}]
             /\ blank' = IF key \in Ssh[m] THEN blank ELSE blank \ {m}
             /\ job' = [job EXCEPT ![r].own = {key},
                                   ![r].file = IF key \in Ssh[m] THEN key ELSE "default"]
        /\ Goto(r, IF job[r].section = None THEN "set file" ELSE "confirm")
        /\ UNCHANGED <<git, store, keyring>>

AfterWizard(r) ==
    IF Req(r).cmd = "clone" THEN "ensure"
    ELSE IF Req(r).encryption = "age" THEN "set file" ELSE "set url"

(* A token that was entered is saved only after the confirmation. *)
Confirm(r) ==
    /\ pc[r] = "confirm"
    /\ \/ End(r, "aborted")
       \/ Continue(r, IF job[r].entered THEN "read store" ELSE AfterWizard(r))
    /\ UNCHANGED <<local, keyring>>

-----------------------------------------------------------------------------
(* Save: the credentials file is read, changed and written as a whole. *)

ReadStore(r) ==
    /\ pc[r] = "read store"
    /\ job' = [job EXCEPT ![r].sections = store[Home[r]]]
    /\ Goto(r, "empty store")
    /\ UNCHANGED <<local, keyring>>

EmptyStore(r) ==
    /\ pc[r] = "empty store"
    /\ store' = [store EXCEPT ![Home[r]] = NoCredentials]
    /\ Continue(r, "fill store")
    /\ UNCHANGED <<git, identity, blank, keyring>>

FillStore(r) ==
    /\ pc[r] = "fill store"
    /\ store' = [store EXCEPT ![Home[r]] =
                   [job[r].sections EXCEPT ![job[r].section] = Meant(Req(r))]]
    /\ Continue(r, IF job[r].cfg = None THEN AfterWizard(r) ELSE "load")
    /\ UNCHANGED <<git, identity, blank, keyring>>

-----------------------------------------------------------------------------
(* EnsureIdentityFile *)

AfterEnsure(r) == IF Req(r).cmd = "clone" THEN "load" ELSE "set file"

(* An SSH identity file yields no recipients; one without any key is an    *)
(* error.                                                                  *)
EnsureIdentity(r) ==
    LET m == Home[r]
        flag == Req(r).identity
    IN  /\ pc[r] = "ensure"
        /\ \/ /\ flag # None
              /\ job' = [job EXCEPT ![r].file = flag]
              /\ Goto(r, AfterEnsure(r))
           \/ /\ flag = None
              /\ identity[m] # {}
              /\ job' = [job EXCEPT ![r].own = identity[m]]
              /\ Goto(r, AfterEnsure(r))
           \/ /\ flag = None
              /\ identity[m] = {}
              /\ IF m \in blank THEN End(r, "failed") ELSE Continue(r, "generate")
        /\ UNCHANGED <<local, keyring>>

(* The file is written, whatever it has become. *)
GenerateIdentity(r) ==
    /\ pc[r] = "generate"
    /\ identity' = [identity EXCEPT ![Home[r]] = {}]
    /\ blank' = blank \cup {Home[r]}
    /\ Continue(r, "fill file")
    /\ UNCHANGED <<git, store, keyring>>

FillIdentity(r) ==
    /\ pc[r] = "fill file"
    /\ identity' = [identity EXCEPT ![Home[r]] = {Generated(r)}]
    /\ blank' = blank \ {Home[r]}
    /\ job' = [job EXCEPT ![r].own = {Generated(r)}]
    /\ Goto(r, AfterEnsure(r))
    /\ UNCHANGED <<git, store, keyring>>

-----------------------------------------------------------------------------
(* Setup: the configuration of the repository, setting by setting *)

Wanted(r) == job[r].own \cup Req(r).extra

(* With no recipient at all, the command fails after this. *)
SetFile(r) ==
    /\ pc[r] = "set file"
    /\ git' = [git EXCEPT ![r].file = IF job[r].file = "default" THEN @ ELSE job[r].file]
    /\ IF Wanted(r) = {} THEN End(r, "failed") ELSE Continue(r, "set url")
    /\ UNCHANGED <<store, identity, blank, keyring>>

SetURL(r) ==
    /\ pc[r] = "set url"
    /\ git' = [git EXCEPT ![r].bucket = Req(r).bucket]
    /\ Continue(r, "set endpoint")
    /\ UNCHANGED <<store, identity, blank, keyring>>

(* An empty endpoint leaves the setting as it is. *)
SetEndpoint(r) ==
    /\ pc[r] = "set endpoint"
    /\ git' = [git EXCEPT ![r].endpoint = IF job[r].endpoint = None THEN @ ELSE job[r].endpoint]
    /\ Continue(r, "set mode")
    /\ UNCHANGED <<store, identity, blank, keyring>>

AfterSettings(r) ==
    IF Req(r).verify THEN Continue(r, "load") ELSE End(r, "unverified")

SetMode(r) ==
    /\ pc[r] = "set mode"
    /\ Req(r).encryption = "none"
    /\ git' = [git EXCEPT ![r].encryption = "none"]
    /\ AfterSettings(r)
    /\ UNCHANGED <<store, identity, blank, keyring>>

(* The recipients are added one by one, unless they are there already, the *)
(* machine's own first.                                                    *)
Unlisted(r) == Wanted(r) \ git[r].recipients

(* Slip: those that were named may come first. *)
NextInAnyOrder(r) == Unlisted(r)

NextListed(r) ==
    IF Unlisted(r) \cap job[r].own # {} THEN Unlisted(r) \cap job[r].own ELSE Unlisted(r)

AddRecipient(r, key) ==
    /\ pc[r] = "set mode"
    /\ Req(r).encryption = "age"
    /\ key \in NextListed(r)
    /\ git' = [git EXCEPT ![r].recipients = @ \cup {key}]
    /\ Continue(r, "set mode")
    /\ UNCHANGED <<store, identity, blank, keyring>>

AllListed(r) ==
    /\ pc[r] = "set mode"
    /\ Req(r).encryption = "age"
    /\ Unlisted(r) = {}
    /\ AfterSettings(r)
    /\ UNCHANGED <<local, keyring>>

-----------------------------------------------------------------------------
(* Credentials and connectivity *)

(* What the configuration of the repository resolves to. *)
Session(r) ==
    Load(Env[Home[r]], EnvToken[Home[r]], git[r], Global[Home[r]], git[r].bucket,
         store[Home[r]])

(* The flags of clone become environment variables. *)
CloneEnv(r) ==
    LET env == Env[Home[r]]
    IN  [env EXCEPT !.endpoint = OrDefault(job[r].endpoint, @),
                    !.file = OrDefault(Req(r).identity, @)]

(* Without a token the user of setup or clone is asked once for one. *)
LoadConfig(r) ==
    LET m == Home[r]
        cfg == IF Req(r).cmd = "clone"
               THEN Load(CloneEnv(r), EnvToken[m], NoSource, Global[m], Req(r).bucket, store[m])
               ELSE Session(r)
    IN  /\ pc[r] = "load"
        /\ job' = [job EXCEPT ![r].cfg = cfg,
                              ![r].section = [endpoint |-> cfg.endpoint, bucket |-> cfg.bucket],
                              ![r].file = IF Req(r).cmd = "push" THEN cfg.file ELSE @]
        /\ \/ Goto(r, "check")
           \/ /\ cfg.token = None
              /\ job[r].cfg = None
              /\ Req(r).cmd # "push"
              /\ Goto(r, "read store")
        /\ UNCHANGED <<local, keyring>>

At(r) == [endpoint |-> job[r].cfg.endpoint, bucket |-> job[r].cfg.bucket]

Mode(r) == IF Req(r).cmd = "setup" THEN Req(r).encryption ELSE job[r].cfg.encryption

AfterCheck(r) ==
    IF Mode(r) = "age" THEN "repo pub" ELSE IF Req(r).cmd = "clone" THEN "git clone" ELSE "end"

CheckBucket(r) ==
    /\ pc[r] = "check"
    /\ IF Reachable(job[r].cfg) THEN Continue(r, AfterCheck(r)) ELSE End(r, "failed")
    /\ UNCHANGED <<local, keyring>>

Finish(r) ==
    /\ pc[r] = "end"
    /\ End(r, IF Req(r).cmd = "push" THEN "pushed" ELSE "ready")
    /\ UNCHANGED <<local, keyring>>

-----------------------------------------------------------------------------
(* The keyring *)

RepoRecipient(r) ==
    /\ pc[r] = "repo pub"
    /\ IF At(r) \in founded
       THEN Continue(r, IF Req(r).cmd = "setup" THEN "slots" ELSE "access")
       ELSE IF Req(r).cmd = "clone" THEN End(r, "failed")
       ELSE Continue(r, "publish")
    /\ UNCHANGED <<local, keyring>>

(* The recipients that the settings name, the remote's being these, and    *)
(* those in recipient files; recipients.txt is read if there are none of   *)
(* either.                                                                 *)
Listed(m, recipients) ==
    LET named == LookupAll(Env[m].recipients, recipients, Global[m].recipients)
        lists == LookupAll(Env[m].lists, {}, Global[m].lists)
    IN  named \cup IF named = {} /\ lists = {} THEN Default[m] ELSE UNION lists

(* A first push founds the keyring for those that are configured, or else  *)
(* for the age keys of the machine.                                        *)
FirstRecipients(r) ==
    LET listed == Listed(Home[r], git[r].recipients)
    IN  IF Req(r).cmd = "setup" THEN Wanted(r)
        ELSE IF listed # {} THEN listed
        ELSE KeysIn(Home[r], job[r].file) \ SshKeys

(* The create-only write of repo.pub; the loser goes on as a member. *)
Publish(r) ==
    /\ pc[r] = "publish"
    /\ \/ /\ FirstRecipients(r) = {}
          /\ End(r, "failed")
          /\ UNCHANGED founded
       \/ /\ FirstRecipients(r) # {}
          /\ At(r) \notin founded
          /\ founded' = founded \cup {At(r)}
          /\ job' = [job EXCEPT ![r].todo = FirstRecipients(r), ![r].founder = TRUE]
          /\ Goto(r, "grant")
       \/ /\ FirstRecipients(r) # {}
          /\ At(r) \in founded
          /\ Continue(r, IF Req(r).cmd = "setup" THEN "slots" ELSE "access")
          /\ UNCHANGED founded
    /\ UNCHANGED <<local, slots, recovery>>

(* Founded by setup, a keyring gets a recovery slot after the others. *)
Grant(r, key) ==
    /\ pc[r] = "grant"
    /\ key \in job[r].todo
    /\ slots' = [slots EXCEPT ![At(r)] = @ \cup {key}]
    /\ job' = [job EXCEPT ![r].todo = @ \ {key}]
    /\ Goto(r, IF job[r].todo # {key} THEN "grant"
               ELSE IF job[r].founder /\ Req(r).cmd = "setup" THEN "recovery" ELSE "end")
    /\ UNCHANGED <<local, founded, recovery>>

GrantRecovery(r) ==
    /\ pc[r] = "recovery"
    /\ recovery' = recovery \cup {At(r)}
    /\ Continue(r, "end")
    /\ UNCHANGED <<local, founded, slots>>

(* In a keyring that is there already, the missing slots are granted. *)
ReadSlots(r) ==
    LET missing == Wanted(r) \ slots[At(r)]
    IN  /\ pc[r] = "slots"
        /\ job' = [job EXCEPT ![r].todo = missing]
        /\ Goto(r, IF missing = {} THEN "end" ELSE "unwrap")
        /\ UNCHANGED <<local, keyring>>

CanUnwrap(r) == KeysIn(Home[r], job[r].file) \cap slots[At(r)] # {}

(* Who cannot unwrap the key is told whom to ask, which is no error. *)
Unwrap(r) ==
    /\ pc[r] = "unwrap"
    /\ IF CanUnwrap(r) THEN Continue(r, "grant") ELSE End(r, "not a member")
    /\ UNCHANGED <<local, keyring>>

CheckAccess(r) ==
    /\ pc[r] = "access"
    /\ IF CanUnwrap(r)
       THEN Continue(r, IF Req(r).cmd = "clone" THEN "git clone" ELSE "end")
       ELSE End(r, "not a member")
    /\ UNCHANGED <<local, keyring>>

-----------------------------------------------------------------------------
(* Clone *)

(* git refuses a directory that exists. *)
GitClone(r) ==
    /\ pc[r] = "git clone"
    /\ IF git[r] = NoRemote
       THEN /\ git' = [git EXCEPT ![r].bucket = Req(r).bucket]
            /\ Continue(r, "keep endpoint")
       ELSE git' = git /\ End(r, "failed")
    /\ UNCHANGED <<store, identity, blank, keyring>>

(* Slip: the endpoint is not kept. *)
ForgetEndpoint(r) ==
    /\ pc[r] = "keep endpoint"
    /\ Continue(r, "keep file")
    /\ UNCHANGED <<local, keyring>>

KeepEndpoint(r) ==
    LET endpoint == job[r].cfg.endpoint
    IN  /\ pc[r] = "keep endpoint"
        /\ git' = [git EXCEPT ![r].endpoint = IF endpoint = Aws THEN @ ELSE endpoint]
        /\ Continue(r, "keep file")
        /\ UNCHANGED <<store, identity, blank, keyring>>

KeepFile(r) ==
    /\ pc[r] = "keep file"
    /\ git' = [git EXCEPT ![r].file = Req(r).identity]
    /\ Continue(r, "end")
    /\ UNCHANGED <<store, identity, blank, keyring>>

-----------------------------------------------------------------------------
Step(r) ==
    \/ AskRemote(r) \/ AskToken(r) \/ PickKey(r) \/ Confirm(r)
    \/ ReadStore(r) \/ EmptyStore(r) \/ FillStore(r)
    \/ EnsureIdentity(r) \/ GenerateIdentity(r) \/ FillIdentity(r)
    \/ SetFile(r) \/ SetURL(r) \/ SetEndpoint(r) \/ SetMode(r)
    \/ (\E key \in PublicKeys : AddRecipient(r, key)) \/ AllListed(r)
    \/ LoadConfig(r) \/ CheckBucket(r) \/ Finish(r)
    \/ RepoRecipient(r) \/ Publish(r) \/ (\E key \in PublicKeys : Grant(r, key))
    \/ GrantRecovery(r) \/ ReadSlots(r) \/ Unwrap(r) \/ CheckAccess(r)
    \/ GitClone(r) \/ KeepEndpoint(r) \/ KeepFile(r)

Next ==
    \E r \in Repos : (\E req \in Requests[r] : Start(r, req)) \/ Step(r) \/ Kill(r)

Spec == Init /\ [][Next]_vars

-----------------------------------------------------------------------------
(* Correctness *)

Points ==
    {"idle", "ask remote", "ask token", "pick key", "confirm", "read store", "empty store",
     "fill store", "ensure", "generate", "fill file", "set file", "set url", "set endpoint", "set mode",
     "load", "check", "end", "repo pub", "publish", "grant", "recovery", "slots", "unwrap",
     "access", "git clone", "keep endpoint", "keep file"}

Job == [run : 0..MaxRuns, req : Request \cup {None}, endpoint : Endpoints \cup {None},
        own : SUBSET PublicKeys, file : File, entered : BOOLEAN, sections : Credentials,
        section : Backend \cup {None},
        cfg : Resolved \cup {None}, todo : SUBSET PublicKeys, founder : BOOLEAN]

(* Every variable stays in its type. *)
TypeOK ==
    /\ git \in [Repos -> Remote]
    /\ store \in [Machines -> Credentials]
    /\ identity \in [Machines -> SUBSET AgeKeys]
    /\ blank \subseteq Machines
    /\ founded \subseteq Backend
    /\ slots \in [Backend -> SUBSET PublicKeys]
    /\ recovery \subseteq Backend
    /\ runs \in 0..MaxRuns
    /\ pc \in [Repos -> Points]
    /\ job \in [Repos -> Job]
    /\ outcome \in [Repos -> {"none", "ready", "unverified", "pushed", "not a member",
                              "aborted", "failed", "killed"}]
    /\ wish \in [Repos -> Request \cup {None}]

(* While its credentials file is rewritten, a machine has no tokens. *)
Rewriting(m) == \E s \in Repos : Home[s] = m /\ pc[s] = "fill store"

Usable(r, req) ==
    LET cfg == Session(r)
    IN  /\ cfg.bucket = req.bucket
        /\ cfg.endpoint = Meant(req).endpoint
        /\ Reachable(cfg)
        /\ cfg.encryption = req.encryption
        /\ req.encryption = "age" => KeysIn(Home[r], cfg.file) \cap slots[Meant(req)] # {}

(* A repository that setup or clone declared ready works, without flags, as *)
(* was asked for: its sessions reach that backend, in that mode, with a    *)
(* machine key that opens the keyring.  It goes on working while other     *)
(* repositories and machines are set up, and when the command is run again *)
(* and interrupted (README: "Re-running setup is safe and idempotent";     *)
(* credstore.go: entries are "qualified by endpoint").                     *)
StaysUsable ==
    \A r \in Repos :
        wish[r] # None /\ ~Rewriting(Home[r]) => Usable(r, wish[r])

Opens(r) ==
    LET cfg == Session(r)
    IN  KeysIn(Home[r], cfg.file) \cap slots[[endpoint |-> cfg.endpoint, bucket |-> cfg.bucket]] # {}

(* Who pushed can read what was pushed, also if the push founded the       *)
(* keyring for recipients that an earlier setup, perhaps an interrupted    *)
(* one, left in the configuration (helper.go, initialRecipientSpecs).      *)
WhoPushedCanRead ==
    \A r \in Repos :
        outcome[r] = "pushed" /\ ~Rewriting(Home[r]) => Session(r).encryption = "none" \/ Opens(r)

(* A machine never loses a key: some keyring may know it by no other       *)
(* (cryptox.go, AppendNewIdentity: "existing identities in the file remain *)
(* valid"; EnsureIdentityFile writes only a file that does not exist).     *)
KeysAreKept == [][\A m \in Machines : identity[m] \subseteq identity'[m]]_vars
=============================================================================
