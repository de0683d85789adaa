-------------------------- MODULE OnboardingProofs --------------------------
(***************************************************************************)
(* Proofs about Onboarding, for every set of repositories, machines,       *)
(* settings and requests.  Its types hold wherever commands are killed; no *)
(* machine loses a key, as long as it runs one command at a time; and what *)
(* was declared ready stays usable, if besides the requests agree and no   *)
(* command is killed while the credentials file is empty.                  *)
(***************************************************************************)
EXTENDS OnboardingInv, FiniteSetTheorems, TLAPS

-----------------------------------------------------------------------------
(* What the settings lead to *)

(* A section of the credentials file names a backend. *)
LEMMA SectionKeyType ==
    ASSUME NEW endpoint \in Endpoints \cup {None}, NEW bucket \in Buckets
    PROVE  SectionKey(endpoint, bucket) \in Backend
BY DEF SectionKey, Backend

(* A bucket that is known has an entry. *)
LEMMA KnownEntry ==
    ASSUME NEW creds \in Credentials, NEW endpoint, NEW bucket, Known(creds, endpoint, bucket)
    PROVE  \E x \in Matches(creds, endpoint, bucket) : TRUE
<1>1. Matches(creds, endpoint, bucket) # {}
    BY FS_EmptySet DEF Known
<1>2. QED
    BY <1>1

(* What is found in one of three places is of their type. *)
LEMMA LookupType ==
    ASSUME NEW S, NEW env \in S \cup {None}, NEW repo \in S \cup {None}, NEW user \in S \cup {None}
    PROVE  Lookup(env, repo, user) \in S \cup {None}
BY DEF Lookup

(* What Load returns names one backend, a mode and a key file. *)
LEMMA LoadType ==
    ASSUME NEW env \in Source, NEW token \in Token, NEW user \in Source,
           NEW repo, repo.endpoint \in Endpoints \cup {None},
           repo.encryption \in Modes \cup {None}, repo.file \in File \cup {None},
           NEW bucket \in Buckets, NEW creds \in Credentials
    PROVE  Load(env, token, repo, user, bucket, creds) \in Resolved
<1> DEFINE endpoint == Lookup(env.endpoint, repo.endpoint, user.endpoint)
           known == token = None /\ Known(creds, endpoint, bucket)
           entry == CHOOSE x \in Matches(creds, endpoint, bucket) : TRUE
<1>1. endpoint \in Endpoints \cup {None}
    BY DEF Source, Lookup
<1>2. known => entry \in Backend /\ creds[entry] \in Token
    <2>1. ASSUME known PROVE entry \in Matches(creds, endpoint, bucket)
        <3>1. \E x \in Matches(creds, endpoint, bucket) : TRUE
            BY <2>1, KnownEntry
        <3>2. QED
            BY <3>1
    <2>2. QED
        BY <2>1 DEF Matches, Complete, Credentials
<1>3. (IF known THEN entry.endpoint ELSE OrDefault(endpoint, Aws)) \in Endpoints \cup {Aws}
    BY <1>1, <1>2 DEF OrDefault, Backend
<1>4. (IF known THEN creds[entry] ELSE token) \in Token
    BY <1>2
<1>5. OrDefault(Lookup(env.encryption, repo.encryption, user.encryption), "age") \in Modes
    BY DEF Source, Lookup, OrDefault, Modes
<1>6. OrDefault(Lookup(env.file, repo.file, user.file), "default") \in File
    BY DEF Source, Lookup, OrDefault, File
<1>7. QED
    BY <1>3, <1>4, <1>5, <1>6 DEF Load, Resolved

-----------------------------------------------------------------------------
(* Types *)

(* What a command under way was asked for. *)
LEMMA Requested ==
    ASSUME TypeInv, NEW r \in Repos, pc[r] # "idle"
    PROVE  /\ Req(r) \in Request
           /\ Req(r).identity \in Ssh[Home[r]] \cup {None}
           /\ Home[r] \in Machines
           /\ job[r].run \in AgeKeys
BY OnboardingAssumption DEF TypeInv, JobInv

(* At first nothing is configured. *)
LEMMA NothingType == NoRemote \in Remote /\ NoCredentials \in Credentials /\ NoJob \in Job
<1>1. NoRemote \in Remote /\ NoCredentials \in Credentials
    BY DEF NoRemote, Remote, NoCredentials, Credentials, Token
<1>2. NoJob \in Job
    BY <1>1, OnboardingAssumption DEF NoJob, Job, File, AgeKeys, PublicKeys
<1>3. QED
    BY <1>1, <1>2

(* The types hold at first. *)
LEMMA TypeInvInit == Init => TypeInv
<1> SUFFICES ASSUME Init PROVE TypeInv
    OBVIOUS
<1>1. TypeOK
    BY NothingType, OnboardingAssumption DEF Init, TypeOK, Points
<1>2. \A r \in Repos : JobInv(r)
    BY DEF Init, JobInv
<1>3. QED
    BY <1>1, <1>2 DEF TypeInv

-----------------------------------------------------------------------------
(* What a step of a repository's command keeps *)

Kept(r) ==
    /\ TypeOK'
    /\ JobInv(r)'
    /\ \A s \in Repos \ {r} : pc'[s] = pc[s] /\ job'[s] = job[s] /\ git'[s] = git[s]

(* A command that starts keeps the types. *)
LEMMA StartKeeps ==
    ASSUME TypeInv, NEW r \in Repos, NEW req \in Requests[r], Start(r, req)
    PROVE  Kept(r)
<1>1. req \in Request /\ req # None
    BY OnboardingAssumption
<1>2. runs + 1 \in AgeKeys /\ runs' \in 0..MaxRuns
    <2>1. runs \in 0..MaxRuns /\ runs < MaxRuns /\ runs' = runs + 1 /\ MaxRuns \in Nat
        BY OnboardingAssumption DEF Start, TypeInv, TypeOK
    <2>2. QED
        BY <2>1 DEF AgeKeys
<1>3. [NoJob EXCEPT !.run = runs + 1, !.req = req, !.endpoint = req.endpoint] \in Job
    <2>1. runs + 1 \in 0..MaxRuns /\ req.endpoint \in Endpoints \cup {None}
        BY <1>1, <1>2, OnboardingAssumption DEF AgeKeys, Request
    <2>2. QED
        BY <1>1, <2>1, NothingType DEF Job
<1>4. job' \in [Repos -> Job] /\ job'[r].req = req /\ job'[r].run = runs + 1
    BY <1>3 DEF Start, TypeInv, TypeOK, NoJob
<1>5. FirstStep(req) \in {"load", "ask token", "ensure", "ask remote", "set url"}
    BY <1>1 DEF FirstStep, Request
<1>6. TypeOK'
    BY <1>1, <1>2, <1>4, <1>5 DEF Start, TypeInv, TypeOK, local, keyring, Points
<1>7. JobInv(r)'
    <2>1. req.cmd = "push" => git'[r].bucket = req.bucket
        BY DEF Start, local
    <2>2. req.cmd = "setup" => FirstStep(req) # "load"
        BY DEF FirstStep
    <2>3. job'[r].cfg = None /\ pc'[r] = FirstStep(req)
        BY DEF Start, NoJob, TypeInv, TypeOK
    <2>4. QED
        BY <1>2, <1>4, <1>5, <2>1, <2>2, <2>3 DEF JobInv, Req, Resolving, Saving
<1>8. QED
    BY <1>6, <1>7 DEF Kept, Start, TypeInv, TypeOK, local

(* The end of a command. *)
LEMMA EndKeeps ==
    ASSUME TypeInv, NEW r \in Repos,
           NEW how \in {"ready", "unverified", "pushed", "not a member", "aborted",
                        "failed", "killed"},
           how = "ready" => pc[r] # "idle",
           End(r, how)
    PROVE  /\ pc' \in [Repos -> Points] /\ job' \in [Repos -> Job] /\ runs' \in 0..MaxRuns
           /\ outcome' \in [Repos -> {"none", "ready", "unverified", "pushed", "not a member",
                                      "aborted", "failed", "killed"}]
           /\ wish' \in [Repos -> Request \cup {None}]
           /\ JobInv(r)'
           /\ \A s \in Repos \ {r} : pc'[s] = pc[s] /\ job'[s] = job[s]
<1>1. NoJob \in Job
    BY NothingType
<1>2. how = "ready" => Req(r) \in Request
    BY Requested
<1>3. QED
    BY <1>1, <1>2 DEF End, TypeInv, TypeOK, JobInv, Points

(* A command that goes on. *)
LEMMA GotoKeeps ==
    ASSUME TypeInv, NEW r \in Repos, NEW label \in Points \ {"idle"}, Goto(r, label),
           pc[r] # "idle",
           job' \in [Repos -> Job], \A s \in Repos \ {r} : job'[s] = job[s],
           job'[r].req = job[r].req, job'[r].run = job[r].run,
           label \in Resolving => job'[r].cfg \in Resolved,
           label \in Saving => job'[r].section \in Backend,
           label = "confirm" /\ job'[r].entered => job'[r].section \in Backend,
           \/ Req(r).cmd = "push"
           \/ /\ Req(r).cmd = "setup"
              /\ label \in {"set endpoint", "set mode", "load"} \/ job'[r].cfg # None
           => git'[r].bucket = Req(r).bucket,
           git' \in [Repos -> Remote], \A s \in Repos \ {r} : git'[s] = git[s],
           store' \in [Machines -> Credentials],
           identity' \in [Machines -> SUBSET AgeKeys], blank' \subseteq Machines,
           founded' \subseteq Backend,
           slots' \in [Backend -> SUBSET PublicKeys],
           recovery' \subseteq Backend
    PROVE  Kept(r)
<1>1. pc' \in [Repos -> Points] /\ pc'[r] = label /\ UNCHANGED <<runs, outcome, wish>>
    BY DEF Goto, TypeInv, TypeOK
<1>2. TypeOK'
    BY <1>1 DEF TypeInv, TypeOK
<1>3. JobInv(r)'
    BY <1>1 DEF TypeInv, JobInv, Req
<1>4. QED
    BY <1>2, <1>3 DEF Kept, Goto, TypeInv, TypeOK

(* A command that goes on with what it has got, and writes nothing. *)
LEMMA ContinueKeeps ==
    ASSUME TypeInv, NEW r \in Repos, NEW label \in Points \ {"idle"}, Continue(r, label),
           pc[r] # "idle",
           label \in Resolving => job[r].cfg \in Resolved,
           label \in Saving => job[r].section \in Backend,
           label = "confirm" => ~job[r].entered,
           label \in {"set endpoint", "set mode", "load"} /\ Req(r).cmd = "setup"
              => pc[r] \in {"set endpoint", "set mode", "load"} \/ job[r].cfg # None,
           UNCHANGED <<local, keyring>>
    PROVE  Kept(r)
<1>1. UNCHANGED <<git, store, identity, blank, founded, slots, recovery, job>> /\ Goto(r, label)
    BY DEF Continue, local, keyring
<1>2. \/ Req(r).cmd = "push"
      \/ /\ Req(r).cmd = "setup"
         /\ label \in {"set endpoint", "set mode", "load"} \/ job'[r].cfg # None
      => git'[r].bucket = Req(r).bucket
    BY <1>1 DEF TypeInv, JobInv
<1>3. QED
    BY <1>1, <1>2, GotoKeeps DEF TypeInv, TypeOK

(* A command that goes on with what it has read or been told. *)
LEMMA NoteKeeps ==
    ASSUME TypeInv, NEW r \in Repos, NEW label \in Points \ {"idle"}, Goto(r, label),
           pc[r] # "idle",
           job' \in [Repos -> Job], \A s \in Repos \ {r} : job'[s] = job[s],
           job'[r].req = job[r].req, job'[r].run = job[r].run,
           label \in Resolving => job'[r].cfg \in Resolved,
           label \in Saving => job'[r].section \in Backend,
           label = "confirm" /\ job'[r].entered => job'[r].section \in Backend,
           /\ Req(r).cmd = "setup"
           /\ label \in {"set endpoint", "set mode", "load"} \/ job'[r].cfg # None
           => git[r].bucket = Req(r).bucket,
           UNCHANGED <<local, keyring>>
    PROVE  Kept(r)
<1>1. UNCHANGED <<git, store, identity, blank, founded, slots, recovery>>
    BY DEF local, keyring
<1>2. Req(r).cmd = "push" => git[r].bucket = Req(r).bucket
    BY DEF TypeInv, JobInv
<1>3. QED
    BY <1>1, <1>2, GotoKeeps DEF TypeInv, TypeOK

(* A command that ends, and writes nothing. *)
LEMMA StopKeeps ==
    ASSUME TypeInv, NEW r \in Repos,
           NEW how \in {"ready", "unverified", "pushed", "not a member", "aborted",
                        "failed", "killed"},
           how = "ready" => pc[r] # "idle",
           End(r, how), UNCHANGED <<local, keyring>>
    PROVE  Kept(r)
BY EndKeeps DEF TypeInv, TypeOK, Kept, local, keyring

-----------------------------------------------------------------------------
(* The actions *)

(* So do the questions of the wizards. *)
LEMMA WizardKeeps ==
    ASSUME TypeInv, NEW r \in Repos, AskRemote(r) \/ AskToken(r) \/ PickKey(r) \/ Confirm(r)
    PROVE  Kept(r)
<1>0. pc[r] \in Points /\ pc[r] # "idle" /\ job \in [Repos -> Job] /\ job[r] \in Job
    BY DEF AskRemote, AskToken, PickKey, Confirm, TypeInv, TypeOK
<1>r. /\ Req(r) \in Request /\ Home[r] \in Machines /\ job[r].run \in AgeKeys
      /\ Ssh[Home[r]] \subseteq SshKeys
    BY <1>0, Requested, OnboardingAssumption
<1>b. /\ Req(r).cmd = "push" => git[r].bucket = Req(r).bucket
      /\ Req(r).cmd = "setup" /\ job[r].cfg # None => git[r].bucket = Req(r).bucket
    BY <1>0 DEF TypeInv, JobInv
<1>1. CASE AskRemote(r)
    <2>1. CASE Continue(r, "ask token")
        BY <1>0, <1>1, <2>1, ContinueKeeps DEF AskRemote, Points, Resolving, Saving
    <2>2. CASE ~Continue(r, "ask token")
        <3>1. /\ job' = [job EXCEPT ![r].endpoint = None] /\ Goto(r, KeyStep(r))
              /\ UNCHANGED <<local, keyring>>
            BY <1>1, <2>2 DEF AskRemote
        <3>2. /\ job' \in [Repos -> Job] /\ job'[r].req = job[r].req /\ job'[r].run = job[r].run
              /\ job'[r].cfg = job[r].cfg /\ \A s \in Repos \ {r} : job'[s] = job[s]
            BY <1>0, <3>1 DEF Job
        <3>3. KeyStep(r) \in {"pick key", "set url"}
            BY DEF KeyStep
        <3>4. QED
            BY <1>0, <1>b, <3>1, <3>2, <3>3, NoteKeeps DEF Resolving, Saving, Points
    <2>3. QED
        BY <2>1, <2>2
<1>2. CASE AskToken(r)
    <2>1. PICK entered \in BOOLEAN :
            job' = [job EXCEPT ![r].entered = entered,
                               ![r].section = SectionKey(job[r].endpoint, Req(r).bucket)]
        BY <1>2 DEF AskToken
    <2>2. SectionKey(job[r].endpoint, Req(r).bucket) \in Backend
        BY <1>0, <1>r, SectionKeyType DEF Job, Request
    <2>3. /\ job' \in [Repos -> Job] /\ job'[r].req = job[r].req /\ job'[r].run = job[r].run
          /\ job'[r].cfg = job[r].cfg /\ \A s \in Repos \ {r} : job'[s] = job[s]
          /\ job'[r].section = SectionKey(job[r].endpoint, Req(r).bucket)
        BY <1>0, <2>1, <2>2 DEF Job
    <2>4. job'[r].section \in Backend
        BY <2>2, <2>3
    <2>5. PICK label \in {"pick key", "confirm"} : Goto(r, label)
        BY <1>2 DEF AskToken
    <2>6. UNCHANGED <<local, keyring>>
        BY <1>2 DEF AskToken
    <2>7. QED
        BY <1>0, <1>b, <2>3, <2>4, <2>5, <2>6, NoteKeeps DEF Resolving, Saving, Points
<1>3. CASE PickKey(r)
    <2>1. PICK key \in identity[Home[r]] \cup Ssh[Home[r]] \cup {Generated(r)} :
            /\ identity' = [identity EXCEPT ![Home[r]] =
                              IF key \in Ssh[Home[r]] THEN @ ELSE @ \cup {key}]
            /\ job' = [job EXCEPT ![r].own = {key},
                                  ![r].file = IF key \in Ssh[Home[r]] THEN key ELSE "default"]
        BY <1>3 DEF PickKey
    <2>2. key \in PublicKeys /\ (key \in Ssh[Home[r]] \/ key \in AgeKeys)
        BY <1>r, <2>1 DEF TypeInv, TypeOK, Generated, PublicKeys
    <2>3. (IF key \in Ssh[Home[r]] THEN key ELSE "default") \in File
        BY <1>r DEF File
    <2>4. /\ job' \in [Repos -> Job] /\ job'[r].req = job[r].req /\ job'[r].run = job[r].run
          /\ job'[r].cfg = job[r].cfg /\ job'[r].section = job[r].section
          /\ \A s \in Repos \ {r} : job'[s] = job[s]
        <3>1. [job[r] EXCEPT !.own = {key},
                             !.file = IF key \in Ssh[Home[r]] THEN key ELSE "default"] \in Job
            BY <1>0, <2>2, <2>3 DEF Job
        <3>2. QED
            BY <1>0, <2>1, <3>1 DEF Job
    <2>5. identity' \in [Machines -> SUBSET AgeKeys] /\ blank' \subseteq Machines
        BY <1>3, <1>r, <2>1, <2>2 DEF PickKey, TypeInv, TypeOK
    <2>6. PICK label \in {"set file", "confirm"} :
            Goto(r, label) /\ (label = "confirm" => job[r].section \in Backend)
        BY <1>0, <1>3 DEF PickKey, Job
    <2>7. UNCHANGED <<git, store, founded, slots, recovery>>
        BY <1>3 DEF PickKey, keyring
    <2>8. QED
        BY <1>0, <1>b, <2>4, <2>5, <2>6, <2>7, GotoKeeps
           DEF Resolving, Saving, Points, TypeInv, TypeOK
<1>4. CASE Confirm(r)
    <2>1. CASE End(r, "aborted")
        BY <1>0, <1>4, <2>1, StopKeeps DEF Confirm
    <2>2. CASE ~End(r, "aborted")
        <3>1. /\ Continue(r, IF job[r].entered THEN "read store" ELSE AfterWizard(r))
              /\ UNCHANGED <<local, keyring>> /\ pc[r] = "confirm"
            BY <1>4, <2>2 DEF Confirm
        <3>2. AfterWizard(r) \in {"ensure", "set file", "set url"}
            BY DEF AfterWizard
        <3>3. job[r].entered => job[r].section \in Backend
            BY <3>1 DEF TypeInv, JobInv
        <3>4. QED
            BY <1>0, <3>1, <3>2, <3>3, ContinueKeeps DEF Resolving, Saving, Points
    <2>3. QED
        BY <2>1, <2>2
<1>5. QED
    BY <1>1, <1>2, <1>3, <1>4

(* So do the three steps of credstore.Save. *)
LEMMA SaveKeeps ==
    ASSUME TypeInv, NEW r \in Repos, ReadStore(r) \/ EmptyStore(r) \/ FillStore(r)
    PROVE  Kept(r)
<1>0. pc[r] \in Points /\ pc[r] # "idle" /\ job \in [Repos -> Job] /\ job[r] \in Job
    BY DEF ReadStore, EmptyStore, FillStore, TypeInv, TypeOK
<1>r. /\ Req(r) \in Request /\ Home[r] \in Machines /\ job[r].run \in AgeKeys
      /\ Ssh[Home[r]] \subseteq SshKeys
    BY <1>0, Requested, OnboardingAssumption
<1>b. /\ Req(r).cmd = "push" => git[r].bucket = Req(r).bucket
      /\ Req(r).cmd = "setup" /\ job[r].cfg # None => git[r].bucket = Req(r).bucket
    BY <1>0 DEF TypeInv, JobInv
<1>s. pc[r] \in Saving /\ job[r].section \in Backend
    BY <1>0 DEF ReadStore, EmptyStore, FillStore, Saving, TypeInv, JobInv
<1>1. CASE ReadStore(r)
    <2>1. /\ job' = [job EXCEPT ![r].sections = store[Home[r]]] /\ Goto(r, "empty store")
          /\ UNCHANGED <<local, keyring>> /\ store[Home[r]] \in Credentials
        BY <1>1, <1>r DEF ReadStore, TypeInv, TypeOK
    <2>2. /\ job' \in [Repos -> Job] /\ job'[r].req = job[r].req /\ job'[r].run = job[r].run
          /\ job'[r].cfg = job[r].cfg /\ job'[r].section = job[r].section
          /\ \A s \in Repos \ {r} : job'[s] = job[s]
        BY <1>0, <2>1 DEF Job
    <2>3. QED
        BY <1>0, <1>b, <1>s, <2>1, <2>2, NoteKeeps DEF Resolving, Saving, Points
<1>2. CASE EmptyStore(r)
    <2>1. /\ store' \in [Machines -> Credentials] /\ Goto(r, "fill store")
          /\ UNCHANGED <<git, identity, blank, founded, slots, recovery, job>>
        BY <1>2, <1>r, NothingType DEF EmptyStore, Continue, keyring, TypeInv, TypeOK
    <2>2. QED
        BY <1>0, <1>b, <1>s, <2>1, GotoKeeps DEF Resolving, Saving, Points, TypeInv, TypeOK
<1>3. CASE FillStore(r)
    <2>1. Meant(Req(r)) \in Token
        BY <1>r, SectionKeyType DEF Meant, Request, Token
    <2>2. [job[r].sections EXCEPT ![job[r].section] = Meant(Req(r))] \in Credentials
        BY <1>0, <2>1 DEF Job, Credentials
    <2>3. store' \in [Machines -> Credentials]
        BY <1>3, <1>r, <2>2 DEF FillStore, TypeInv, TypeOK
    <2>4. AfterWizard(r) \in {"ensure", "set file", "set url"}
        BY DEF AfterWizard
    <2>5. PICK label \in {"ensure", "set file", "set url", "load"} :
            Goto(r, label) /\ (label = "load" => job[r].cfg # None)
        BY <1>3, <2>4 DEF FillStore, Continue
    <2>6. UNCHANGED <<git, identity, blank, founded, slots, recovery, job>>
        BY <1>3 DEF FillStore, Continue, keyring
    <2>7. QED
        BY <1>0, <1>b, <2>3, <2>5, <2>6, GotoKeeps
           DEF Resolving, Saving, Points, TypeInv, TypeOK
<1>4. QED
    BY <1>1, <1>2, <1>3

(* So does EnsureIdentityFile. *)
LEMMA EnsureKeeps ==
    ASSUME TypeInv, NEW r \in Repos, EnsureIdentity(r) \/ GenerateIdentity(r) \/ FillIdentity(r)
    PROVE  Kept(r)
<1>0. pc[r] \in Points /\ pc[r] # "idle" /\ job \in [Repos -> Job] /\ job[r] \in Job
    BY DEF EnsureIdentity, GenerateIdentity, FillIdentity, TypeInv, TypeOK
<1>r. /\ Req(r) \in Request /\ Home[r] \in Machines /\ job[r].run \in AgeKeys
      /\ Ssh[Home[r]] \subseteq SshKeys
    BY <1>0, Requested, OnboardingAssumption
<1>b. /\ Req(r).cmd = "push" => git[r].bucket = Req(r).bucket
      /\ Req(r).cmd = "setup" /\ job[r].cfg # None => git[r].bucket = Req(r).bucket
    BY <1>0 DEF TypeInv, JobInv
<1>a. /\ AfterEnsure(r) \in {"load", "set file"}
      /\ AfterEnsure(r) = "load" => Req(r).cmd = "clone"
    BY DEF AfterEnsure
<1>1. CASE EnsureIdentity(r)
    <2>0. UNCHANGED <<local, keyring>>
        BY <1>1 DEF EnsureIdentity
    <2>1. CASE Req(r).identity # None /\ Goto(r, AfterEnsure(r))
               /\ job' = [job EXCEPT ![r].file = Req(r).identity]
        <3>1. Req(r).identity \in File
            BY <1>r, <2>1 DEF Request, File
        <3>2. /\ job' \in [Repos -> Job] /\ job'[r].req = job[r].req /\ job'[r].run = job[r].run
              /\ job'[r].cfg = job[r].cfg /\ \A s \in Repos \ {r} : job'[s] = job[s]
            BY <1>0, <2>1, <3>1 DEF Job
        <3>3. QED
            BY <1>0, <1>a, <1>b, <2>0, <2>1, <3>2, NoteKeeps DEF Resolving, Saving, Points
    <2>2. CASE Goto(r, AfterEnsure(r)) /\ job' = [job EXCEPT ![r].own = identity[Home[r]]]
        <3>1. identity[Home[r]] \subseteq PublicKeys
            BY <1>r DEF PublicKeys, TypeInv, TypeOK
        <3>2. /\ job' \in [Repos -> Job] /\ job'[r].req = job[r].req /\ job'[r].run = job[r].run
              /\ job'[r].cfg = job[r].cfg /\ \A s \in Repos \ {r} : job'[s] = job[s]
            BY <1>0, <2>2, <3>1 DEF Job
        <3>3. QED
            BY <1>0, <1>a, <1>b, <2>0, <2>2, <3>2, NoteKeeps DEF Resolving, Saving, Points
    <2>3. CASE Continue(r, "generate")
        BY <1>0, <2>0, <2>3, ContinueKeeps DEF Resolving, Saving, Points
    <2>4. CASE End(r, "failed")
        BY <1>0, <2>0, <2>4, StopKeeps
    <2>5. QED
        BY <1>1, <2>1, <2>2, <2>3, <2>4 DEF EnsureIdentity
<1>2. CASE GenerateIdentity(r)
    <2>1. /\ identity' \in [Machines -> SUBSET AgeKeys] /\ blank' \subseteq Machines
          /\ Goto(r, "fill file") /\ job' = job
          /\ UNCHANGED <<git, store, founded, slots, recovery>>
        BY <1>2, <1>r DEF GenerateIdentity, Continue, keyring, TypeInv, TypeOK
    <2>2. QED
        BY <1>0, <1>b, <2>1, GotoKeeps DEF Resolving, Saving, Points, TypeInv, TypeOK
<1>3. CASE FillIdentity(r)
    <2>1. /\ identity' \in [Machines -> SUBSET AgeKeys] /\ blank' \subseteq Machines
          /\ Goto(r, AfterEnsure(r))
          /\ job' = [job EXCEPT ![r].own = {Generated(r)}]
          /\ UNCHANGED <<git, store, founded, slots, recovery>>
        BY <1>3, <1>r DEF FillIdentity, Generated, keyring, TypeInv, TypeOK
    <2>2. {Generated(r)} \subseteq PublicKeys
        BY <1>r DEF Generated, PublicKeys
    <2>3. /\ job' \in [Repos -> Job] /\ job'[r].req = job[r].req /\ job'[r].run = job[r].run
          /\ job'[r].cfg = job[r].cfg /\ \A s \in Repos \ {r} : job'[s] = job[s]
        BY <1>0, <2>1, <2>2 DEF Job
    <2>4. QED
        BY <1>0, <1>a, <1>b, <2>1, <2>3, GotoKeeps
           DEF Resolving, Saving, Points, TypeInv, TypeOK
<1>4. QED
    BY <1>1, <1>2, <1>3

(* So do the settings. *)
LEMMA SetKeeps ==
    ASSUME TypeInv, NEW r \in Repos,
           \/ SetFile(r) \/ SetURL(r) \/ SetEndpoint(r) \/ SetMode(r)
           \/ (\E key \in PublicKeys : AddRecipient(r, key)) \/ AllListed(r)
    PROVE  Kept(r)
<1>0. pc[r] \in Points /\ pc[r] # "idle" /\ job \in [Repos -> Job] /\ job[r] \in Job
    BY DEF SetFile, SetURL, SetEndpoint, SetMode, AddRecipient, AllListed, TypeInv, TypeOK
<1>r. /\ Req(r) \in Request /\ Home[r] \in Machines /\ job[r].run \in AgeKeys
      /\ Ssh[Home[r]] \subseteq SshKeys
    BY <1>0, Requested, OnboardingAssumption
<1>b. /\ Req(r).cmd = "push" => git[r].bucket = Req(r).bucket
      /\ Req(r).cmd = "setup" /\ job[r].cfg # None => git[r].bucket = Req(r).bucket
    BY <1>0 DEF TypeInv, JobInv
<1>w. Wanted(r) \subseteq PublicKeys /\ Req(r).extra \subseteq PublicKeys
    BY <1>0, <1>r DEF Wanted, Job, Request, PublicKeys
<1>u. UNCHANGED <<store, identity, blank, founded, slots, recovery>>
    BY DEF SetFile, SetURL, SetEndpoint, SetMode, AddRecipient, AllListed, local, keyring
<1>g. /\ git' \in [Repos -> Remote] /\ \A s \in Repos \ {r} : git'[s] = git[s]
      /\ git'[r].bucket = IF SetURL(r) THEN Req(r).bucket ELSE git[r].bucket
    <2>0. git \in [Repos -> Remote] /\ git[r] \in Remote
        BY DEF TypeInv, TypeOK
    <2>1. CASE SetFile(r)
        BY <1>0, <2>0, <2>1 DEF SetFile, SetURL, Remote, Job
    <2>2. CASE SetURL(r)
        BY <1>r, <2>0, <2>2 DEF SetURL, Remote, Request
    <2>3. CASE SetEndpoint(r)
        BY <1>0, <2>0, <2>3 DEF SetEndpoint, SetURL, Remote, Job
    <2>4. CASE SetMode(r)
        BY <2>0, <2>4 DEF SetMode, SetURL, Remote, Modes
    <2>5. ASSUME NEW key \in PublicKeys, AddRecipient(r, key)
          PROVE  /\ git' \in [Repos -> Remote] /\ \A s \in Repos \ {r} : git'[s] = git[s]
                 /\ git'[r].bucket = IF SetURL(r) THEN Req(r).bucket ELSE git[r].bucket
        BY <2>0, <2>5 DEF AddRecipient, SetURL, Remote
    <2>6. CASE AllListed(r)
        BY <2>0, <2>6 DEF AllListed, SetURL, local
    <2>7. QED
        BY <2>1, <2>2, <2>3, <2>4, <2>5, <2>6
<1>1. ASSUME NEW how \in {"failed", "unverified"}, End(r, how)
      PROVE  Kept(r)
    BY <1>0, <1>g, <1>u, <1>1, EndKeeps DEF TypeInv, TypeOK, Kept
<1>2. ASSUME NEW label \in {"set url", "set endpoint", "set mode", "load"}, Continue(r, label),
             label # "set url" => SetURL(r) \/ pc[r] \in {"set endpoint", "set mode"}
      PROVE  Kept(r)
    <2>1. \/ Req(r).cmd = "push"
          \/ /\ Req(r).cmd = "setup"
             /\ label \in {"set endpoint", "set mode", "load"} \/ job[r].cfg # None
          => git'[r].bucket = Req(r).bucket
        BY <1>0, <1>g, <1>2 DEF TypeInv, JobInv
    <2>2. Goto(r, label) /\ job' = job
        BY <1>2 DEF Continue
    <2>3. QED
        BY <1>0, <1>g, <1>u, <2>1, <2>2, GotoKeeps
           DEF Resolving, Saving, Points, TypeInv, TypeOK
<1>3. QED
    BY <1>1, <1>2 DEF SetFile, SetURL, SetEndpoint, SetMode, AddRecipient, AllListed, AfterSettings

(* What a command loads. *)
Loaded(r) ==
    IF Req(r).cmd = "clone"
    THEN Load(CloneEnv(r), EnvToken[Home[r]], NoSource, Global[Home[r]], Req(r).bucket,
              store[Home[r]])
    ELSE Session(r)

(* What the command loads has the type of a configuration. *)
LEMMA LoadedType ==
    ASSUME TypeInv, NEW r \in Repos, pc[r] = "load"
    PROVE  Loaded(r) \in Resolved
<1> DEFINE m == Home[r]
<1>0. pc[r] # "idle" /\ job[r] \in Job
    BY DEF TypeInv, TypeOK
<1>1. /\ Req(r) \in Request /\ Home[r] \in Machines
      /\ Env[m] \in Source /\ EnvToken[m] \in Token /\ Global[m] \in Source
      /\ store[m] \in Credentials
    BY <1>0, Requested, OnboardingAssumption DEF TypeInv, TypeOK
<1>2. Req(r).cmd # "clone" => git[r].bucket \in Buckets
    <2>1. Req(r).cmd \in {"setup", "clone", "push"} /\ Req(r).bucket \in Buckets
        BY <1>1 DEF Request
    <2>2. QED
        BY <1>0, <2>1 DEF TypeInv, JobInv
<1>3. CASE Req(r).cmd = "clone"
    <2>1. CloneEnv(r) \in Source
        <3>1. job[r].endpoint \in Endpoints \cup {None}
            BY <1>0 DEF Job
        <3>2. Req(r).identity \in File \cup {None}
            BY <1>1 DEF Request, File
        <3>3. OrDefault(job[r].endpoint, Env[m].endpoint) \in Endpoints \cup {None}
            BY <1>1, <3>1 DEF OrDefault, Source
        <3>4. OrDefault(Req(r).identity, Env[m].file) \in File \cup {None}
            BY <1>1, <3>2 DEF OrDefault, Source
        <3>5. QED
            BY <1>1, <3>3, <3>4 DEF CloneEnv, Source
    <2>2. NoSource.endpoint = None /\ NoSource.encryption = None /\ NoSource.file = None
        BY DEF NoSource
    <2>3. Req(r).bucket \in Buckets
        BY <1>1 DEF Request
    <2>4. QED
        BY <1>1, <1>3, <2>1, <2>2, <2>3, LoadType DEF Loaded
<1>4. CASE Req(r).cmd # "clone"
    <2>1. git[r] \in Remote
        BY DEF TypeInv, TypeOK
    <2>2. Session(r) \in Resolved
        BY <1>1, <1>2, <1>4, <2>1, LoadType DEF Session, Remote
    <2>3. QED
        BY <1>4, <2>2 DEF Loaded
<1>5. QED
    BY <1>3, <1>4

(* Loading it keeps the types. *)
LEMMA LoadKeeps ==
    ASSUME TypeInv, NEW r \in Repos, LoadConfig(r)
    PROVE  Kept(r)
<1>0. pc[r] \in Points /\ pc[r] # "idle" /\ job \in [Repos -> Job] /\ job[r] \in Job
    BY DEF LoadConfig, TypeInv, TypeOK
<1>b. /\ Req(r).cmd = "push" => git[r].bucket = Req(r).bucket
      /\ Req(r).cmd = "setup" /\ job[r].cfg # None => git[r].bucket = Req(r).bucket
    BY <1>0 DEF TypeInv, JobInv
<1> DEFINE cfg == Loaded(r)
           section == [endpoint |-> cfg.endpoint, bucket |-> cfg.bucket]
<1>3. cfg \in Resolved
    BY LoadedType DEF LoadConfig
<1>4. section \in Backend
    BY <1>3 DEF Resolved, Backend
<1>5. /\ job' = [job EXCEPT ![r].cfg = cfg, ![r].section = section,
                            ![r].file = IF Req(r).cmd = "push" THEN cfg.file ELSE @]
      /\ UNCHANGED <<local, keyring>> /\ pc[r] = "load"
      /\ Goto(r, "check") \/ Goto(r, "read store")
    BY DEF LoadConfig, Loaded
<1>6. cfg.file \in File
    BY <1>3 DEF Resolved
<1> HIDE DEF cfg, section
<1>7. /\ job' \in [Repos -> Job] /\ job'[r].req = job[r].req /\ job'[r].run = job[r].run
      /\ job'[r].cfg = cfg /\ job'[r].section = section
      /\ \A s \in Repos \ {r} : job'[s] = job[s]
    BY <1>0, <1>3, <1>4, <1>5, <1>6 DEF Job
<1>8. Req(r).cmd = "setup" => git[r].bucket = Req(r).bucket
    BY <1>0, <1>5 DEF TypeInv, JobInv
<1>9. QED
    BY <1>0, <1>3, <1>4, <1>5, <1>7, <1>8, NoteKeeps DEF Resolving, Saving, Points

(* So do the calls that only read. *)
LEMMA CheckKeeps ==
    ASSUME TypeInv, NEW r \in Repos,
           CheckBucket(r) \/ Finish(r) \/ RepoRecipient(r) \/ Unwrap(r) \/ CheckAccess(r)
    PROVE  Kept(r)
<1>0. pc[r] # "idle" /\ UNCHANGED <<local, keyring>>
    BY DEF CheckBucket, Finish, RepoRecipient, Unwrap, CheckAccess
<1>1. CASE Finish(r)
    BY <1>0, <1>1, StopKeeps DEF Finish
<1>2. CASE ~Finish(r)
    <2>1. pc[r] \in Resolving
        BY <1>2 DEF CheckBucket, RepoRecipient, Unwrap, CheckAccess, Resolving
    <2>2. job[r].cfg \in Resolved
        BY <1>0, <2>1 DEF TypeInv, JobInv
    <2>3. AfterCheck(r) \in {"repo pub", "git clone", "end"}
        BY DEF AfterCheck
    <2>4. \/ End(r, "failed") \/ End(r, "not a member")
          \/ \E label \in {"repo pub", "git clone", "end", "slots", "access", "publish", "grant"} :
                Continue(r, label)
        BY <1>2, <2>3 DEF CheckBucket, RepoRecipient, Unwrap, CheckAccess
    <2>5. ASSUME NEW label \in {"repo pub", "git clone", "end", "slots", "access", "publish",
                                "grant"},
                 Continue(r, label)
          PROVE  Kept(r)
        BY <1>0, <2>2, <2>5, ContinueKeeps DEF Saving, Points
    <2>6. QED
        BY <1>0, <2>4, <2>5, StopKeeps
<1>3. QED
    BY <1>1, <1>2

(* The recipients that are listed are SSH keys and those of the remote. *)
LEMMA ListedType ==
    ASSUME NEW m \in Machines, NEW recipients
    PROVE  Listed(m, recipients) \subseteq recipients \cup SshKeys
<1>1. Env[m] \in Source /\ Global[m] \in Source /\ Default[m] \subseteq SshKeys
    BY OnboardingAssumption
<1>2. LookupAll(Env[m].recipients, recipients, Global[m].recipients)
        \subseteq recipients \cup SshKeys
    BY <1>1 DEF LookupAll, Source
<1>3. LookupAll(Env[m].lists, {}, Global[m].lists) \subseteq SUBSET SshKeys
    BY <1>1 DEF LookupAll, Source
<1>4. QED
    BY <1>1, <1>2, <1>3 DEF Listed

(* So do the writes to the keyring. *)
LEMMA KeyringKeeps ==
    ASSUME TypeInv, NEW r \in Repos,
           Publish(r) \/ (\E key \in PublicKeys : Grant(r, key)) \/ GrantRecovery(r) \/ ReadSlots(r)
    PROVE  Kept(r)
<1>0. pc[r] \in Points /\ pc[r] # "idle" /\ job \in [Repos -> Job] /\ job[r] \in Job
    BY DEF Publish, Grant, GrantRecovery, ReadSlots, TypeInv, TypeOK
<1>r. /\ Req(r) \in Request /\ Home[r] \in Machines /\ job[r].run \in AgeKeys
      /\ Ssh[Home[r]] \subseteq SshKeys
    BY <1>0, Requested, OnboardingAssumption
<1>b. /\ Req(r).cmd = "push" => git[r].bucket = Req(r).bucket
      /\ Req(r).cmd = "setup" /\ job[r].cfg # None => git[r].bucket = Req(r).bucket
    BY <1>0 DEF TypeInv, JobInv
<1>c. job[r].cfg \in Resolved /\ At(r) \in Backend
    <2>1. pc[r] \in Resolving
        BY DEF Publish, Grant, GrantRecovery, ReadSlots, Resolving
    <2>2. job[r].cfg \in Resolved
        BY <1>0, <2>1 DEF TypeInv, JobInv
    <2>3. QED
        BY <2>2 DEF At, Resolved, Backend
<1>p. git[r] \in Remote /\ identity[Home[r]] \subseteq AgeKeys /\ slots[At(r)] \subseteq PublicKeys
    BY <1>r, <1>c DEF TypeInv, TypeOK
<1>w. Wanted(r) \subseteq PublicKeys /\ FirstRecipients(r) \subseteq PublicKeys
    <2>1. Wanted(r) \subseteq PublicKeys
        BY <1>0, <1>r DEF Wanted, Job, Request, PublicKeys
    <2>2. KeysIn(Home[r], job[r].file) \ SshKeys \subseteq PublicKeys
        BY <1>0, <1>p DEF KeysIn, Job, File, PublicKeys
    <2>3. QED
        <3>1. Listed(Home[r], git[r].recipients) \subseteq PublicKeys
            BY <1>r, <1>p, ListedType DEF Remote, PublicKeys
        <3>2. QED
            BY <2>1, <2>2, <3>1 DEF FirstRecipients
<1>1. CASE Publish(r)
    <2>1. CASE End(r, "failed") /\ UNCHANGED founded
        BY <1>0, <1>1, <2>1, StopKeeps DEF Publish, keyring
    <2>2. CASE /\ founded' = founded \cup {At(r)}
               /\ job' = [job EXCEPT ![r].todo = FirstRecipients(r), ![r].founder = TRUE]
               /\ Goto(r, "grant")
        <3>1. UNCHANGED <<git, store, identity, blank, slots, recovery>>
            BY <1>1 DEF Publish, local
        <3>2. /\ job' \in [Repos -> Job] /\ job'[r].req = job[r].req /\ job'[r].run = job[r].run
              /\ job'[r].cfg = job[r].cfg /\ \A s \in Repos \ {r} : job'[s] = job[s]
            BY <1>0, <1>w, <2>2 DEF Job
        <3>3. founded' \subseteq Backend
            BY <1>c, <2>2 DEF TypeInv, TypeOK
        <3>4. QED
            BY <1>0, <1>b, <1>c, <2>2, <3>1, <3>2, <3>3, GotoKeeps
               DEF Resolving, Saving, Points, TypeInv, TypeOK
    <2>3. CASE /\ Continue(r, IF Req(r).cmd = "setup" THEN "slots" ELSE "access")
               /\ UNCHANGED founded
        <3>1. UNCHANGED <<local, keyring>>
            BY <1>1, <2>3 DEF Publish, keyring
        <3>2. QED
            BY <1>0, <1>c, <2>3, <3>1, ContinueKeeps DEF Resolving, Saving, Points
    <2>4. QED
        BY <1>1, <2>1, <2>2, <2>3 DEF Publish
<1>2. ASSUME NEW key \in PublicKeys, Grant(r, key)
      PROVE  Kept(r)
    <2>1. /\ slots' = [slots EXCEPT ![At(r)] = @ \cup {key}]
          /\ job' = [job EXCEPT ![r].todo = @ \ {key}]
          /\ \E label \in {"grant", "recovery", "end"} : Goto(r, label)
          /\ UNCHANGED <<git, store, identity, blank, founded, recovery>>
        BY <1>2 DEF Grant, local
    <2>2. /\ job' \in [Repos -> Job] /\ job'[r].req = job[r].req /\ job'[r].run = job[r].run
          /\ job'[r].cfg = job[r].cfg /\ \A s \in Repos \ {r} : job'[s] = job[s]
        BY <1>0, <2>1 DEF Job
    <2>3. slots' \in [Backend -> SUBSET PublicKeys]
        BY <1>2, <2>1 DEF TypeInv, TypeOK
    <2>4. QED
        BY <1>0, <1>b, <1>c, <2>1, <2>2, <2>3, GotoKeeps
           DEF Resolving, Saving, Points, TypeInv, TypeOK
<1>3. CASE GrantRecovery(r)
    <2>1. /\ recovery' \subseteq Backend /\ Goto(r, "end") /\ job' = job
          /\ UNCHANGED <<git, store, identity, blank, founded, slots>>
        BY <1>3, <1>c DEF GrantRecovery, Continue, local, TypeInv, TypeOK
    <2>2. QED
        BY <1>0, <1>b, <2>1, GotoKeeps DEF Resolving, Saving, Points, TypeInv, TypeOK
<1>4. CASE ReadSlots(r)
    <2>1. /\ job' = [job EXCEPT ![r].todo = Wanted(r) \ slots[At(r)]]
          /\ UNCHANGED <<local, keyring>> /\ \E label \in {"end", "unwrap"} : Goto(r, label)
        BY <1>4 DEF ReadSlots
    <2>2. /\ job' \in [Repos -> Job] /\ job'[r].req = job[r].req /\ job'[r].run = job[r].run
          /\ job'[r].cfg = job[r].cfg /\ \A s \in Repos \ {r} : job'[s] = job[s]
        BY <1>0, <1>w, <2>1 DEF Job
    <2>3. QED
        BY <1>0, <1>b, <1>c, <2>1, <2>2, NoteKeeps DEF Resolving, Saving, Points
<1>5. QED
    BY <1>1, <1>2, <1>3, <1>4

(* So does what clone does with git. *)
LEMMA CloneKeeps ==
    ASSUME TypeInv, NEW r \in Repos, GitClone(r) \/ KeepEndpoint(r) \/ KeepFile(r)
    PROVE  Kept(r)
<1>0. pc[r] \in Points /\ pc[r] # "idle" /\ job \in [Repos -> Job] /\ job[r] \in Job
    BY DEF GitClone, KeepEndpoint, KeepFile, TypeInv, TypeOK
<1>r. /\ Req(r) \in Request /\ Home[r] \in Machines /\ job[r].run \in AgeKeys
      /\ Ssh[Home[r]] \subseteq SshKeys
    BY <1>0, Requested, OnboardingAssumption
<1>b. /\ Req(r).cmd = "push" => git[r].bucket = Req(r).bucket
      /\ Req(r).cmd = "setup" /\ job[r].cfg # None => git[r].bucket = Req(r).bucket
    BY <1>0 DEF TypeInv, JobInv
<1>u. UNCHANGED <<store, identity, blank, founded, slots, recovery>>
    BY DEF GitClone, KeepEndpoint, KeepFile, keyring
<1>c. pc[r] \in Resolving => job[r].cfg \in Resolved
    BY <1>0 DEF TypeInv, JobInv
<1>g. /\ git' \in [Repos -> Remote] /\ \A s \in Repos \ {r} : git'[s] = git[s]
      /\ git'[r].bucket \in {git[r].bucket, Req(r).bucket}
    <2>0. git \in [Repos -> Remote] /\ git[r] \in Remote
        BY DEF TypeInv, TypeOK
    <2>1. CASE GitClone(r)
        <3>1. git' = git \/ git' = [git EXCEPT ![r].bucket = Req(r).bucket]
            BY <2>1 DEF GitClone
        <3>2. QED
            BY <1>r, <2>0, <3>1 DEF Remote, Request
    <2>2. CASE KeepEndpoint(r)
        <3>1. job[r].cfg.endpoint \in Endpoints \cup {Aws}
            BY <1>c, <2>2 DEF KeepEndpoint, Resolving, Resolved
        <3>2. QED
            BY <2>0, <2>2, <3>1 DEF KeepEndpoint, Remote
    <2>3. CASE KeepFile(r)
        <3>1. Req(r).identity \in File \cup {None}
            BY <1>r DEF Request, File
        <3>2. QED
            BY <2>0, <2>3, <3>1 DEF KeepFile, Remote
    <2>4. QED
        BY <2>1, <2>2, <2>3
<1>1. CASE End(r, "failed")
    BY <1>0, <1>g, <1>u, <1>1, EndKeeps DEF TypeInv, TypeOK, Kept
<1>2. ASSUME NEW label \in {"keep endpoint", "keep file", "end"}, Continue(r, label),
             label = "keep endpoint" => pc[r] = "git clone"
      PROVE  Kept(r)
    <2>1. Goto(r, label) /\ job' = job /\ (label \in Resolving => job[r].cfg \in Resolved)
        BY <1>2, <1>c DEF Continue, Resolving
    <2>2. QED
        BY <1>0, <1>b, <1>g, <1>u, <2>1, GotoKeeps
           DEF Saving, Points, TypeInv, TypeOK
<1>3. QED
    BY <1>1, <1>2 DEF GitClone, KeepEndpoint, KeepFile

-----------------------------------------------------------------------------
(* All steps *)

(* So does whatever else a command does. *)
LEMMA TaskKeeps ==
    ASSUME TypeInv, NEW r \in Repos,
           (\E req \in Requests[r] : Start(r, req)) \/ Step(r) \/ Kill(r)
    PROVE  Kept(r)
<1>1. CASE Kill(r)
    BY <1>1, StopKeeps DEF Kill
<1>2. QED
    BY <1>1, StartKeeps, WizardKeeps, SaveKeeps, EnsureKeeps, SetKeeps, LoadKeeps, CheckKeeps,
       KeyringKeeps, CloneKeeps DEF Step

(* Every step keeps the types. *)
LEMMA TypeInvNext == TypeInv /\ [Next]_vars => TypeInv'
<1> SUFFICES ASSUME TypeInv, [Next]_vars PROVE TypeInv'
    OBVIOUS
<1>1. CASE UNCHANGED vars
    BY <1>1 DEF TypeInv, TypeOK, JobInv, Req, vars, local, keyring
<1>2. CASE Next
    <2>1. PICK r \in Repos : (\E req \in Requests[r] : Start(r, req)) \/ Step(r) \/ Kill(r)
        BY <1>2 DEF Next
    <2>2. Kept(r)
        BY <2>1, TaskKeeps
    <2>3. ASSUME NEW s \in Repos \ {r} PROVE JobInv(s)'
        <3>1. pc'[s] = pc[s] /\ job'[s] = job[s] /\ git'[s] = git[s]
            BY <2>2 DEF Kept
        <3>2. JobInv(s)
            BY DEF TypeInv
        <3>3. QED
            BY <3>1, <3>2 DEF JobInv, Req
    <2>4. QED
        BY <2>2, <2>3 DEF Kept, TypeInv
<1>3. QED
    BY <1>1, <1>2

(* Every variable stays in its type, for every set of repositories,        *)
(* machines, settings and requests, wherever commands are killed.          *)
THEOREM OnboardingTypes == Spec => []TypeOK
<1>1. TypeInv => TypeOK
    BY DEF TypeInv
<1>2. QED
    BY <1>1, TypeInvInit, TypeInvNext, PTL DEF Spec

-----------------------------------------------------------------------------
(* No machine loses a key *)

(* At first no command is under way. *)
LEMMA OwnFileInit == Init => OwnFile
BY DEF Init, OwnFile

(* Who does not look for a key file, or ask for a key, leaves the file.      *)
LEMMA FileWriters ==
    ASSUME TypeInv, NEW r \in Repos,
           (\E req \in Requests[r] : Start(r, req)) \/ Step(r) \/ Kill(r)
    PROVE  \/ UNCHANGED identity
           \/ GenerateIdentity(r) \/ FillIdentity(r)
           \/ \E key : identity' = [identity EXCEPT ![Home[r]] = @ \cup {key}]
<1>1. CASE PickKey(r)
    <2>1. PICK key \in identity[Home[r]] \cup Ssh[Home[r]] \cup {Generated(r)} :
            identity' = [identity EXCEPT ![Home[r]] =
                           IF key \in Ssh[Home[r]] THEN @ ELSE @ \cup {key}]
        BY <1>1 DEF PickKey
    <2>2. CASE key \in Ssh[Home[r]]
        BY <2>1, <2>2 DEF TypeInv, TypeOK
    <2>3. CASE key \notin Ssh[Home[r]]
        BY <2>1, <2>3
    <2>4. QED
        BY <2>2, <2>3
<1>2. CASE ~PickKey(r) /\ ~GenerateIdentity(r) /\ ~FillIdentity(r)
    BY <1>2 DEF Start, Step, Kill, AskRemote, AskToken, Confirm, ReadStore, EmptyStore, FillStore,
                EnsureIdentity, SetFile, SetURL, SetEndpoint, SetMode, AddRecipient, AllListed,
                LoadConfig, CheckBucket, Finish, RepoRecipient, Publish, Grant, GrantRecovery, ReadSlots, Unwrap,
                CheckAccess, GitClone, KeepEndpoint, KeepFile, local
<1>3. QED
    BY <1>1, <1>2

(* Where the key file is written. *)
Writing == {"generate", "fill file"}

(* A command that finds no key file is the only one to come to write it.    *)
LEMMA Generators ==
    ASSUME TypeInv, NEW r \in Repos,
           (\E req \in Requests[r] : Start(r, req)) \/ Step(r) \/ Kill(r),
           pc'[r] \in Writing
    PROVE  /\ pc[r] # "idle"
           /\ \/ identity[Home[r]] = {} /\ UNCHANGED identity
              \/ GenerateIdentity(r)
<1>t. pc \in [Repos -> Points]
    BY DEF TypeInv, TypeOK
<1>1. ~Kill(r) /\ ~\E how : End(r, how)
    <2>1. "idle" \notin Writing
        BY DEF Writing
    <2>2. QED
        BY <1>t, <2>1 DEF Kill, End
<1>2. ~\E req \in Requests[r] : Start(r, req)
    <2>1. SUFFICES ASSUME NEW req \in Requests[r], Start(r, req) PROVE FALSE
        OBVIOUS
    <2>2. FirstStep(req) \notin Writing
        <3>1. req.cmd \in {"setup", "clone", "push"}
            <4>1. req \in Request
                BY OnboardingAssumption
            <4>2. QED
                BY <4>1 DEF Request
        <3>2. QED
            BY <3>1 DEF FirstStep, Writing
    <2>3. QED
        BY <1>t, <2>1, <2>2 DEF Start
<1>3. EnsureIdentity(r) \/ GenerateIdentity(r)
    <2>1. {KeyStep(r), AfterWizard(r), AfterEnsure(r), AfterCheck(r)}
             \cap Writing = {}
        BY DEF KeyStep, AfterWizard, AfterEnsure, AfterCheck, Writing
    <2>0. \A label \in {"ask token", "pick key", "confirm", "read store", "empty store",
                        "fill store", "load", "set file", "set url", "set endpoint", "set mode",
                        "check", "slots", "access", "publish", "grant", "recovery", "end",
                        "unwrap", "git clone", "keep endpoint", "keep file"} : label \notin Writing
        BY DEF Writing
    <2>2. \A label : Goto(r, label) \/ Continue(r, label) => label \in Writing
        BY <1>t DEF Goto, Continue
    <2>3. ~AskRemote(r) /\ ~AskToken(r) /\ ~PickKey(r) /\ ~Confirm(r)
        BY <1>1, <2>0, <2>1, <2>2 DEF AskRemote, AskToken, PickKey, Confirm
    <2>4. ~ReadStore(r) /\ ~EmptyStore(r) /\ ~FillStore(r) /\ ~FillIdentity(r)
        BY <1>1, <2>0, <2>1, <2>2 DEF ReadStore, EmptyStore, FillStore, FillIdentity
    <2>5. /\ ~SetFile(r) /\ ~SetURL(r) /\ ~SetEndpoint(r) /\ ~SetMode(r)
          /\ ~(\E key \in PublicKeys : AddRecipient(r, key)) /\ ~AllListed(r)
        BY <1>1, <2>0, <2>2
           DEF SetFile, SetURL, SetEndpoint, SetMode, AddRecipient, AllListed, AfterSettings
    <2>6. ~LoadConfig(r) /\ ~CheckBucket(r) /\ ~Finish(r) /\ ~RepoRecipient(r) /\ ~Publish(r)
        BY <1>1, <2>0, <2>1, <2>2 DEF LoadConfig, CheckBucket, Finish, RepoRecipient, Publish
    <2>7. /\ ~\E key \in PublicKeys : Grant(r, key)
          /\ ~GrantRecovery(r) /\ ~ReadSlots(r) /\ ~Unwrap(r) /\ ~CheckAccess(r)
        BY <1>1, <2>0, <2>2 DEF Grant, GrantRecovery, ReadSlots, Unwrap, CheckAccess
    <2>8. ~GitClone(r) /\ ~KeepEndpoint(r) /\ ~KeepFile(r)
        BY <1>1, <2>0, <2>2 DEF GitClone, KeepEndpoint, KeepFile
    <2>9. QED
        BY <1>1, <1>2, <2>3, <2>4, <2>5, <2>6, <2>7, <2>8 DEF Step
<1>4. pc[r] # "idle" /\ (EnsureIdentity(r) => UNCHANGED identity)
    BY <1>3 DEF EnsureIdentity, GenerateIdentity, local
<1>5. EnsureIdentity(r) => identity[Home[r]] = {}
    <2>1. AfterEnsure(r) \notin Writing
        BY DEF AfterEnsure, Writing
    <2>2. \A label : Goto(r, label) => label \in Writing
        BY <1>t DEF Goto
    <2>3. QED
        BY <1>3, <2>1, <2>2 DEF EnsureIdentity
<1>6. QED
    BY <1>3, <1>4, <1>5

(* A command begins when no other is under way on the machine. *)
LEMMA Starters ==
    ASSUME Alone, TypeInv, NEW r \in Repos, pc[r] = "idle",
           (\E req \in Requests[r] : Start(r, req)) \/ Step(r) \/ Kill(r)
    PROVE  /\ UNCHANGED identity
           /\ pc'[r] = "idle" \/ \A s \in Repos : Home[s] = Home[r] => pc[s] = "idle"
<1>1. ~Step(r)
    BY DEF Step, AskRemote, AskToken, PickKey, Confirm, ReadStore, EmptyStore, FillStore,
           EnsureIdentity, GenerateIdentity, FillIdentity, SetFile, SetURL, SetEndpoint, SetMode,
           AddRecipient, AllListed, LoadConfig, CheckBucket, Finish, RepoRecipient, Publish, Grant,
           GrantRecovery, ReadSlots, Unwrap, CheckAccess, GitClone, KeepEndpoint, KeepFile
<1>2. CASE Kill(r)
    BY <1>2 DEF Kill, End, local, TypeInv, TypeOK
<1>3. CASE \E req \in Requests[r] : Start(r, req)
    BY <1>3 DEF Start, local
<1>4. QED
    BY <1>1, <1>2, <1>3

(* Commands that run alone on their machine add keys to its file and take   *)
(* none away.                                                               *)
LEMMA OwnFileNext ==
    ASSUME Alone, TypeInv, OwnFile, [Next]_vars
    PROVE  OwnFile' /\ \A m \in Machines : identity[m] \subseteq identity'[m]
<1>1. CASE UNCHANGED vars
    BY <1>1 DEF OwnFile, vars, local
<1>2. CASE Next
    <2>1. PICK x \in Repos : (\E req \in Requests[x] : Start(x, req)) \/ Step(x) \/ Kill(x)
        BY <1>2 DEF Next
    <2>2. \A r \in Repos \ {x} : pc'[r] = pc[r]
        BY <2>1, TaskKeeps DEF Kept
    <2>3. \A m \in Machines : identity[m] \subseteq identity'[m]
        <3>1. CASE GenerateIdentity(x) \/ FillIdentity(x)
            BY <3>1 DEF GenerateIdentity, FillIdentity, OwnFile, TypeInv, TypeOK
        <3>2. CASE ~GenerateIdentity(x) /\ ~FillIdentity(x)
            <4>1. \/ UNCHANGED identity
                  \/ \E key : identity' = [identity EXCEPT ![Home[x]] = @ \cup {key}]
                BY <2>1, <3>2, FileWriters
            <4>2. QED
                BY <4>1 DEF TypeInv, TypeOK
        <3>3. QED
            BY <3>1, <3>2
    <2>4. \A m \in Machines \ {Home[x]} : identity'[m] = identity[m]
        BY <2>1, FileWriters DEF GenerateIdentity, FillIdentity, TypeInv, TypeOK
    <2>5. ASSUME NEW r \in Repos \ {x}, Home[r] = Home[x], pc'[r] # "idle"
          PROVE  pc'[x] = "idle"
        BY <2>1, <2>2, <2>5, Starters DEF OwnFile
    <2>6. ASSUME NEW r \in Repos, pc'[r] \in {"generate", "fill file"}
          PROVE  identity'[Home[r]] = {}
        <3>1. CASE r = x
            <4>1. Home[r] \in Machines /\ identity \in [Machines -> SUBSET AgeKeys]
                BY OnboardingAssumption DEF TypeInv, TypeOK
            <4>2. QED
                BY <2>1, <2>6, <3>1, <4>1, Generators DEF GenerateIdentity, Writing
        <3>2. CASE r # x /\ Home[r] # Home[x]
            <4>1. pc[r] \in {"generate", "fill file"} /\ Home[r] \in Machines
                BY <2>2, <2>6, <3>2, OnboardingAssumption
            <4>2. QED
                BY <2>4, <3>2, <4>1 DEF OwnFile
        <3>3. CASE r # x /\ Home[r] = Home[x]
            <4>1. pc[r] \in {"generate", "fill file"} /\ pc[x] = "idle"
                BY <2>2, <2>6, <3>3 DEF OwnFile
            <4>2. QED
                BY <2>1, <3>3, <4>1, Starters DEF OwnFile
        <3>4. QED
            BY <3>1, <3>2, <3>3
    <2>7. \A r, s \in Repos :
             Home[r] = Home[s] /\ pc'[r] # "idle" /\ pc'[s] # "idle" => r = s
        BY <2>2, <2>5 DEF OwnFile
    <2>8. QED
        BY <2>3, <2>6, <2>7 DEF OwnFile
<1>3. QED
    BY <1>1, <1>2

(* With one command at a time on a machine, no command, killed or not,     *)
(* takes a key from the machine key file (cryptox.go, AppendNewIdentity and *)
(* EnsureIdentityFile).                                                    *)
THEOREM KeysAreNeverLost == ASSUME Alone PROVE Spec => KeysAreKept
<1>1. TypeInv /\ OwnFile /\ [Next]_vars => OwnFile'
    BY OwnFileNext
<1>2. TypeInv /\ OwnFile /\ [Next]_vars
        => [\A m \in Machines : identity[m] \subseteq identity'[m]]_vars
    BY OwnFileNext
<1>3. QED
    BY <1>1, <1>2, TypeInvInit, TypeInvNext, OwnFileInit, PTL DEF Spec, KeysAreKept

(* A bucket is known if exactly one complete section matches it. *)
LEMMA KnownOne ==
    ASSUME NEW creds, IsFiniteSet(Complete(creds)), NEW e, NEW b
    PROVE  Known(creds, e, b) <=> \E x \in Complete(creds) : Matches(creds, e, b) = {x}
<1>1. Matches(creds, e, b) \in SUBSET Complete(creds)
    BY DEF Matches
<1>2. IsFiniteSet(Matches(creds, e, b))
    BY <1>1, FS_Subset
<1>3. Known(creds, e, b) <=> \E x : Matches(creds, e, b) = {x}
    BY <1>2, FS_Singleton DEF Known
<1>4. QED
    BY <1>1, <1>3

(* A backend is its endpoint and its bucket. *)
LEMMA SameBackend ==
    ASSUME NEW x \in Backend, NEW y \in Backend, x.endpoint = y.endpoint, x.bucket = y.bucket
    PROVE  x = y
BY DEF Backend

Reaches(cfg, x) == cfg.endpoint = x.endpoint /\ Reachable(cfg)

(* What is found makes the backend reachable. *)
LEMMA FoundIsLoaded ==
    ASSUME NEW env, NEW token, NEW repo, NEW user, NEW x \in Backend, NEW creds,
           NEW b, x.bucket = b,
           IsFiniteSet(Complete(creds)),
           Finds(token, creds, Lookup(env.endpoint, repo.endpoint, user.endpoint), x)
    PROVE  Reaches(Load(env, token, repo, user, b, creds), x)
<1> DEFINE e == Lookup(env.endpoint, repo.endpoint, user.endpoint)
           cfg == Load(env, token, repo, user, b, creds)
<1>0. /\ x # None /\ x.endpoint # None
      /\ x = [endpoint |-> x.endpoint, bucket |-> x.bucket]
    BY SettingsAssumption DEF Backend
<1>1. CASE token = x
    <2>1. cfg.endpoint = OrDefault(e, Aws) /\ cfg.token = x /\ cfg.bucket = x.bucket
        BY <1>0, <1>1 DEF Load
    <2>2. OrDefault(e, Aws) = x.endpoint
        BY <1>0, <1>1 DEF Finds
    <2>3. QED
        BY <1>0, <2>1, <2>2 DEF Reachable, Reaches
<1>2. CASE token # x
    <2>1. token = None /\ creds[x] = x /\ x \in Complete(creds)
        BY <1>0, <1>2 DEF Finds, Complete
    <2>2. Matches(creds, e, x.bucket) = {x}
        <3>1. CASE e = x.endpoint
            <4>1. \A y \in Complete(creds) : y.bucket = x.bucket /\ y.endpoint = e => y = x
                BY <3>1, SameBackend DEF Complete
            <4>2. QED
                BY <1>0, <2>1, <3>1, <4>1 DEF Matches
        <3>2. CASE e # x.endpoint
            BY <1>0, <1>2, <3>2 DEF Finds
        <3>3. QED
            BY <3>1, <3>2
    <2>3. Known(creds, e, x.bucket)
        BY <2>1, <2>2, KnownOne
    <2>4. (CHOOSE y \in Matches(creds, e, x.bucket) : TRUE) = x
        BY <2>2
    <2>5. cfg.endpoint = x.endpoint /\ cfg.token = x /\ cfg.bucket = x.bucket
        BY <2>1, <2>3, <2>4 DEF Load
    <2>6. QED
        BY <1>0, <2>5 DEF Reachable, Reaches
<1>3. QED
    BY <1>1, <1>2

(* What is reachable was found: by an endpoint of its own, or because      *)
(* nothing on the machine bears its bucket name but its token.             *)
LEMMA LoadedIsFound ==
    ASSUME NEW env, NEW token \in Token, NEW repo, NEW user, NEW x \in Backend,
           NEW b, x.bucket = b,
           NEW creds \in Credentials, IsFiniteSet(Complete(creds)),
           creds[x] \in {None, x},
           Lookup(env.endpoint, repo.endpoint, user.endpoint) \in Endpoints \cup {None},
           \/ Lookup(env.endpoint, repo.endpoint, user.endpoint) = x.endpoint
           \/ /\ \A y \in Backend : y.bucket = b => creds[y] \in {None, x}
              /\ token # None /\ token.bucket = b => token = x,
           Reachable(Load(env, token, repo, user, b, creds))
    PROVE  Finds(token, creds, Lookup(env.endpoint, repo.endpoint, user.endpoint), x)
<1> DEFINE e == Lookup(env.endpoint, repo.endpoint, user.endpoint)
           cfg == Load(env, token, repo, user, b, creds)
           entry == CHOOSE y \in Matches(creds, e, x.bucket) : TRUE
<1>0. /\ x # None /\ x.endpoint # None
      /\ x = [endpoint |-> x.endpoint, bucket |-> x.bucket]
    BY SettingsAssumption DEF Backend
<1>1. cfg.token = [endpoint |-> cfg.endpoint, bucket |-> x.bucket]
    BY DEF Reachable, Load
<1>2. CASE token # None
    <2>1. cfg.endpoint = OrDefault(e, Aws) /\ cfg.token = token
        BY <1>2 DEF Load
    <2>2. token = [endpoint |-> OrDefault(e, Aws), bucket |-> x.bucket]
        BY <1>1, <2>1
    <2>3. token.bucket = x.bucket /\ token.endpoint = OrDefault(e, Aws)
        BY <2>2
    <2>4. CASE e # x.endpoint
        <3>1. token = x
            BY <1>2, <2>3, <2>4
        <3>2. QED
            BY <2>1, <2>3, <3>1 DEF Finds
    <2>5. CASE e = x.endpoint
        <3>1. OrDefault(e, Aws) = x.endpoint
            BY <1>0, <2>5 DEF OrDefault
        <3>2. token = x
            BY <1>0, <2>2, <3>1
        <3>3. QED
            BY <2>1, <3>1, <3>2 DEF Finds
    <2>6. QED
        BY <2>4, <2>5
<1>3. CASE token = None
    <2>1. Known(creds, e, x.bucket)
        <3>1. SUFFICES ASSUME ~Known(creds, e, x.bucket) PROVE FALSE
            OBVIOUS
        <3>2. cfg.token = None /\ cfg.endpoint = OrDefault(e, Aws)
            BY <1>3, <3>1 DEF Load
        <3>3. OrDefault(e, Aws) \in Endpoints \cup {Aws} /\ x.bucket \in Buckets
            BY DEF OrDefault, Backend
        <3>4. cfg.token \in Backend
            BY <1>1, <3>2, <3>3 DEF Backend
        <3>5. QED
            BY <3>2, <3>4, SettingsAssumption
    <2>2. PICK y \in Complete(creds) : Matches(creds, e, x.bucket) = {y}
        BY <2>1, KnownOne
    <2>3. /\ y \in Backend /\ creds[y] # None /\ y.bucket = x.bucket
          /\ e # None => y.endpoint = e
        BY <2>2 DEF Matches, Complete
    <2>4. entry = y
        BY <2>2
    <2>5. cfg.endpoint = y.endpoint /\ cfg.token = creds[y]
        BY <1>3, <2>1, <2>4 DEF Load
    <2>6. creds[y] = y
        BY <1>1, <2>3, <2>5 DEF Backend
    <2>7. y = x
        <3>1. CASE e # x.endpoint
            BY <2>3, <2>6, <3>1
        <3>2. CASE e = x.endpoint
            BY <1>0, <2>3, <3>2, SameBackend
        <3>3. QED
            BY <3>1, <3>2
    <2>8. e = x.endpoint \/ (e = None /\ Matches(creds, None, x.bucket) = {x})
        BY <2>2, <2>3, <2>7
    <2>9. QED
        BY <1>3, <2>5, <2>6, <2>7, <2>8 DEF Finds
<1>4. QED
    BY <1>2, <1>3

(* Who finds no token knows none. *)
LEMMA NothingFound ==
    ASSUME NEW env, NEW token, NEW repo, NEW user, NEW b, NEW creds,
           IsFiniteSet(Complete(creds)),
           Load(env, token, repo, user, b, creds).token = None
    PROVE  /\ Load(env, token, repo, user, b, creds).endpoint
                = OrDefault(Lookup(env.endpoint, repo.endpoint, user.endpoint), Aws)
           /\ ~Known(creds, Lookup(env.endpoint, repo.endpoint, user.endpoint), b)
<1> DEFINE e == Lookup(env.endpoint, repo.endpoint, user.endpoint)
<1>1. token = None
    BY DEF Load
<1>2. SUFFICES ASSUME Known(creds, e, b) PROVE FALSE
    BY DEF Load
<1>3. PICK y \in Complete(creds) : Matches(creds, e, b) = {y}
    BY <1>2, KnownOne
<1>4. (CHOOSE z \in Matches(creds, e, b) : TRUE) = y
    BY <1>3
<1>5. creds[y] # None
    BY DEF Complete
<1>6. QED
    BY <1>1, <1>2, <1>4, <1>5 DEF Load

-----------------------------------------------------------------------------
(* The tokens of a machine *)

Task(r) == (\E req \in Requests[r] : Start(r, req)) \/ Step(r) \/ Kill(r)

(* What is asked for is a backend. *)
LEMMA Asked ==
    ASSUME NEW r \in Repos, NEW q \in Requests[r]
    PROVE  /\ q \in Request /\ q # None /\ Home[r] \in Machines
           /\ Meant(q) \in Backend /\ Meant(q).bucket = q.bucket
           /\ Meant(q).endpoint = OrDefault(q.endpoint, Aws)
<1>1. q \in Request /\ q # None /\ Home[r] \in Machines
    BY OnboardingAssumption
<1>2. Meant(q) \in Backend
    BY <1>1, SectionKeyType DEF Meant, Request
<1>3. QED
    BY <1>1, <1>2 DEF Meant, SectionKey, OrDefault

(* The tokens of a machine are, while its file is empty, in the hands of    *)
(* the one command that emptied it.                                         *)
LEMMA TokensAt ==
    ASSUME OwnFile, NEW s \in Repos, pc[s] = "fill store"
    PROVE  Tokens(Home[s]) = job[s].sections
<1> DEFINE c == CHOOSE t \in Repos : Home[t] = Home[s] /\ pc[t] = "fill store"
<1>1. c \in Repos /\ Home[c] = Home[s] /\ pc[c] = "fill store"
    OBVIOUS
<1>2. c = s
    BY <1>1 DEF OwnFile
<1>3. Rewriting(Home[s])
    BY DEF Rewriting
<1>4. QED
    BY <1>2, <1>3 DEF Tokens

(* So they are after a step. *)
LEMMA TokensAtNext ==
    ASSUME OwnFile', NEW s \in Repos, pc'[s] = "fill store"
    PROVE  Tokens(Home[s])' = job'[s].sections
<1> DEFINE c == CHOOSE t \in Repos : Home[t] = Home[s] /\ pc'[t] = "fill store"
<1>1. c \in Repos /\ Home[c] = Home[s] /\ pc'[c] = "fill store"
    OBVIOUS
<1>2. c = s
    BY <1>1 DEF OwnFile
<1>3. Rewriting(Home[s])'
    BY DEF Rewriting
<1>4. QED
    BY <1>2, <1>3 DEF Tokens

(* Who comes to "fill store" has just emptied the file, and nothing but    *)
(* filling it leads on.                                                    *)
LEMMA StoreWriters ==
    ASSUME TypeInv, "fill store" \notin Killable, NEW x \in Repos, Task(x)
    PROVE  \/ EmptyStore(x) \/ FillStore(x)
           \/ UNCHANGED store /\ pc[x] # "fill store" /\ pc'[x] # "fill store"
<1>t. pc \in [Repos -> Points]
    BY DEF TypeInv, TypeOK
<1>l. /\ KeyStep(x) # "fill store" /\ AfterWizard(x) # "fill store"
      /\ AfterEnsure(x) # "fill store" /\ AfterCheck(x) # "fill store"
    BY DEF KeyStep, AfterWizard, AfterEnsure, AfterCheck
<1>g. \A label : Goto(x, label) \/ Continue(x, label) => pc'[x] = label
    BY <1>t DEF Goto, Continue
<1>e. \A how : End(x, how) => pc'[x] = "idle"
    BY <1>t DEF End
<1>1. CASE \E req \in Requests[x] : Start(x, req)
    <2>1. PICK req \in Requests[x] : Start(x, req)
        BY <1>1
    <2>2. FirstStep(req) # "fill store"
        <3>1. req.cmd \in {"setup", "clone", "push"}
            BY Asked DEF Request
        <3>2. QED
            BY <3>1 DEF FirstStep
    <2>3. QED
        BY <1>t, <2>1, <2>2 DEF Start, local
<1>2. CASE Kill(x)
    BY <1>2, <1>e DEF Kill, local
<1>3. CASE AskRemote(x) \/ AskToken(x) \/ PickKey(x) \/ Confirm(x) \/ ReadStore(x)
    BY <1>3, <1>l, <1>g, <1>e DEF AskRemote, AskToken, PickKey, Confirm, ReadStore, local
<1>4. CASE EnsureIdentity(x) \/ GenerateIdentity(x) \/ FillIdentity(x)
    BY <1>4, <1>l, <1>g, <1>e DEF EnsureIdentity, GenerateIdentity, FillIdentity, local
<1>5. CASE \/ SetFile(x) \/ SetURL(x) \/ SetEndpoint(x) \/ SetMode(x)
           \/ (\E key \in PublicKeys : AddRecipient(x, key)) \/ AllListed(x)
    BY <1>5, <1>l, <1>g, <1>e
       DEF SetFile, SetURL, SetEndpoint, SetMode, AddRecipient, AllListed, AfterSettings, local
<1>6. CASE LoadConfig(x) \/ CheckBucket(x) \/ Finish(x)
    BY <1>6, <1>l, <1>g, <1>e DEF LoadConfig, CheckBucket, Finish, local
<1>7. CASE RepoRecipient(x) \/ Publish(x) \/ (\E key \in PublicKeys : Grant(x, key))
    BY <1>7, <1>g, <1>e DEF RepoRecipient, Publish, Grant, local
<1>8. CASE GrantRecovery(x) \/ ReadSlots(x) \/ Unwrap(x) \/ CheckAccess(x)
    BY <1>8, <1>g, <1>e DEF GrantRecovery, ReadSlots, Unwrap, CheckAccess, local
<1>9. CASE GitClone(x) \/ KeepEndpoint(x) \/ KeepFile(x)
    BY <1>9, <1>g, <1>e DEF GitClone, KeepEndpoint, KeepFile
<1>10. QED
    BY <1>1, <1>2, <1>3, <1>4, <1>5, <1>6, <1>7, <1>8, <1>9 DEF Task, Step

(* The tokens change only when one is saved. *)
LEMMA TokensStep ==
    ASSUME TypeInv, OwnFile, OwnFile', "fill store" \notin Killable,
           NEW x \in Repos, Task(x), pc[x] = "empty store" => job[x].sections = store[Home[x]],
           NEW m \in Machines
    PROVE  \/ Tokens(m)' = Tokens(m)
           \/ /\ FillStore(x) /\ m = Home[x]
              /\ Tokens(m)' = [Tokens(m) EXCEPT ![job[x].section] = Meant(Req(x))]
<1>1. \A s \in Repos \ {x} : pc'[s] = pc[s] /\ job'[s] = job[s]
    BY TaskKeeps DEF Task, Kept
<1>2. /\ pc \in [Repos -> Points] /\ store \in [Machines -> Credentials]
      /\ Home[x] \in Machines
    BY OnboardingAssumption DEF TypeInv, TypeOK
<1>3. ASSUME NEW s \in Repos \ {x}, Home[s] = m, pc[s] = "fill store"
      PROVE  Tokens(m)' = Tokens(m)
    <2>1. pc'[s] = "fill store" /\ job'[s] = job[s]
        BY <1>1, <1>3
    <2>2. Tokens(m) = job[s].sections
        BY <1>3, TokensAt
    <2>3. Tokens(m)' = job'[s].sections
        BY <1>3, <2>1, TokensAtNext
    <2>4. QED
        BY <2>1, <2>2, <2>3
<1>4. CASE UNCHANGED store /\ pc[x] # "fill store" /\ pc'[x] # "fill store"
    <2>1. CASE \E s \in Repos \ {x} : Home[s] = m /\ pc[s] = "fill store"
        BY <1>3, <2>1
    <2>2. CASE ~\E s \in Repos \ {x} : Home[s] = m /\ pc[s] = "fill store"
        <3>1. ~Rewriting(m) /\ ~Rewriting(m)'
            BY <1>1, <1>4, <2>2 DEF Rewriting
        <3>2. QED
            BY <1>4, <3>1 DEF Tokens
    <2>3. QED
        BY <2>1, <2>2
<1>5. CASE EmptyStore(x)
    <2>1. /\ pc[x] = "empty store" /\ pc'[x] = "fill store" /\ job' = job
          /\ store' = [store EXCEPT ![Home[x]] = NoCredentials]
        BY <1>2, <1>5 DEF EmptyStore, Continue, Goto
    <2>2. CASE m = Home[x]
        <3>1. Tokens(m)' = job[x].sections
            BY <2>1, <2>2, TokensAtNext
        <3>2. ~Rewriting(m)
            BY <2>1, <2>2 DEF OwnFile, Rewriting
        <3>3. QED
            BY <2>1, <2>2, <3>1, <3>2 DEF Tokens
    <2>3. CASE m # Home[x]
        <3>1. CASE \E s \in Repos \ {x} : Home[s] = m /\ pc[s] = "fill store"
            BY <1>3, <3>1
        <3>2. CASE ~\E s \in Repos \ {x} : Home[s] = m /\ pc[s] = "fill store"
            <4>1. ~Rewriting(m) /\ ~Rewriting(m)'
                BY <1>1, <2>3, <3>2 DEF Rewriting
            <4>2. QED
                BY <1>2, <2>1, <2>3, <4>1 DEF Tokens
        <3>3. QED
            BY <3>1, <3>2
    <2>4. QED
        BY <2>2, <2>3
<1>6. CASE FillStore(x)
    <2>1. /\ pc[x] = "fill store" /\ pc'[x] # "fill store"
          /\ store' = [store EXCEPT ![Home[x]] =
                         [job[x].sections EXCEPT ![job[x].section] = Meant(Req(x))]]
        <3>1. AfterWizard(x) # "fill store"
            BY DEF AfterWizard
        <3>2. QED
            BY <1>2, <1>6, <3>1 DEF FillStore, Continue, Goto
    <2>2. CASE m = Home[x]
        <3>1. Tokens(m) = job[x].sections
            BY <2>1, <2>2, TokensAt
        <3>2. ~Rewriting(m)'
            BY <1>1, <2>1, <2>2 DEF OwnFile, Rewriting
        <3>3. QED
            BY <1>2, <1>6, <2>1, <2>2, <3>1, <3>2 DEF Tokens
    <2>3. CASE m # Home[x]
        <3>1. CASE \E s \in Repos \ {x} : Home[s] = m /\ pc[s] = "fill store"
            BY <1>3, <3>1
        <3>2. CASE ~\E s \in Repos \ {x} : Home[s] = m /\ pc[s] = "fill store"
            <4>1. ~Rewriting(m) /\ ~Rewriting(m)'
                BY <1>1, <2>3, <3>2 DEF Rewriting
            <4>2. QED
                BY <1>2, <2>1, <2>3, <4>1 DEF Tokens
        <3>3. QED
            BY <3>1, <3>2
    <2>4. QED
        BY <2>2, <2>3
<1>7. QED
    BY <1>4, <1>5, <1>6, StoreWriters

(* Every token in the file opens a backend, or there is none. *)
LEMMA TokensType ==
    ASSUME TypeInv, NEW m \in Machines
    PROVE  Tokens(m) \in Credentials
<1> DEFINE c == CHOOSE s \in Repos : Home[s] = m /\ pc[s] = "fill store"
<1>1. CASE Rewriting(m)
    <2>1. c \in Repos
        BY <1>1 DEF Rewriting
    <2>2. job[c] \in Job
        BY <2>1 DEF TypeInv, TypeOK
    <2>3. job[c].sections \in Credentials
        BY <2>2 DEF Job
    <2>4. QED
        BY <1>1, <2>3 DEF Tokens
<1>2. CASE ~Rewriting(m)
    BY <1>2 DEF Tokens, TypeInv, TypeOK
<1>3. QED
    BY <1>1, <1>2

-----------------------------------------------------------------------------
(* It holds at first *)

(* At first there are no tokens, settings, commands or promises. *)
LEMMA ReadyInvInit == Init => ReadyInv
<1> SUFFICES ASSUME Init PROVE ReadyInv
    OBVIOUS
<1>1. ASSUME NEW r \in Repos
      PROVE  /\ Home[r] \in Machines /\ pc[r] = "idle" /\ git[r] = NoRemote
             /\ wish[r] = None /\ outcome[r] = "none"
             /\ Tokens(Home[r]) = NoCredentials
    <2>1. Home[r] \in Machines /\ pc[r] = "idle" /\ ~Rewriting(Home[r])
        BY OnboardingAssumption DEF Init, Rewriting
    <2>2. QED
        BY <2>1 DEF Init, Tokens
<1>2. TokenInv
    <2>1. Complete(NoCredentials) = {}
        BY DEF Complete, NoCredentials
    <2>2. QED
        BY <1>1, <2>1, FS_EmptySet DEF TokenInv, NoCredentials
<1>3. ASSUME NEW r \in Repos
      PROVE  CommandInv(r) /\ GitInv(r) /\ WishInv(r) /\ PushedInv(r)
    <2>1. CommandInv(r)
        BY <1>1 DEF CommandInv
    <2>3. GitInv(r)
        <3>1. /\ git[r].file = None /\ git[r].bucket = None /\ git[r].endpoint = None
              /\ git[r].encryption = None /\ git[r].recipients = {} /\ None # "default"
            BY <1>1, SettingsAssumption DEF NoRemote, File
        <3>2. QED
            BY <3>1 DEF GitInv
    <2>4. WishInv(r) /\ PushedInv(r)
        BY <1>1, Asked DEF WishInv, PushedInv
    <2>5. QED
        BY <2>1, <2>3, <2>4
<1>4. QED
    BY <1>2, <1>3 DEF ReadyInv

-----------------------------------------------------------------------------
(* Saving a token harms nobody *)

(* Who finds a backend still does after another token is saved, if the new  *)
(* one is for another bucket name, or an endpoint tells the two apart.      *)
LEMMA FindsStays ==
    ASSUME NEW token, NEW creds \in Credentials, NEW e, NEW x \in Backend,
           NEW y \in Backend, NEW z, z # None,
           Finds(token, creds, e, x),
           y = x => z = x,
           y # x /\ y.bucket = x.bucket => e # None \/ Matches(creds, None, x.bucket) # {x}
    PROVE  Finds(token, [creds EXCEPT ![y] = z], e, x)
<1> DEFINE creds2 == [creds EXCEPT ![y] = z]
<1>0. x.endpoint # None /\ x # None
    BY SettingsAssumption DEF Backend
<1>1. CASE token = x /\ OrDefault(e, Aws) = x.endpoint
    BY <1>1 DEF Finds
<1>2. CASE token = None /\ creds[x] = x /\ e = x.endpoint
    BY <1>2 DEF Finds, Credentials
<1>3. CASE token = None /\ creds[x] = x /\ e = None /\ Matches(creds, None, x.bucket) = {x}
    <2>1. creds2[x] = x
        BY <1>3 DEF Credentials
    <2>2. y = x \/ y.bucket # x.bucket
        BY <1>3
    <2>3. ASSUME NEW v \in Backend PROVE v \in Matches(creds2, None, x.bucket) <=> v = x
        <3>1. v \in Matches(creds, None, x.bucket) <=> v = x
            BY <1>3
        <3>2. v = y \/ creds2[v] = creds[v]
            BY DEF Credentials
        <3>3. QED
            BY <1>0, <2>1, <2>2, <3>1, <3>2 DEF Matches, Complete
    <2>4. Matches(creds2, None, x.bucket) = {x}
        BY <2>3 DEF Matches, Complete
    <2>5. QED
        BY <1>3, <2>1, <2>4 DEF Finds
<1>4. QED
    BY <1>1, <1>2, <1>3 DEF Finds

(* A machine that leads to no endpoint asks for one backend of that name. *)
Unqualified(m, q, e) ==
    e = None => Sole(m, q) /\ Env[m].endpoint = None /\ Global[m].endpoint = None

(* If a machine asks for one backend under a bucket name, two requests with *)
(* that name mean the same one.                                             *)
LEMMA SameMeaning ==
    ASSUME NEW m, NEW p, NEW q, NEW r \in Repos, NEW s \in Repos,
           p \in Requests[r], q \in Requests[s], Home[r] = m, Home[s] = m,
           p.bucket = q.bucket, Sole(m, p) \/ Sole(m, q)
    PROVE  Meant(p) = Meant(q)
BY DEF Sole, Meant

(* What the command under way knows of what it saves. *)
LEMMA Saver ==
    ASSUME TypeInv, NEW x \in Repos, CommandInv(x), pc[x] # "idle"
    PROVE  Req(x) \in Requests[x] /\ CommandOf(x, Req(x)) /\ SaveInv(x, Req(x))
BY DEF TypeInv, JobInv, CommandInv, CommandOf

(* The token that a command saves confuses no other repository of its       *)
(* machine.                                                                 *)
LEMMA FillHarmsNobody ==
    ASSUME TypeInv, NEW x \in Repos, FillStore(x), CommandInv(x),
           NEW r \in Repos, Home[r] = Home[x], NEW q \in Requests[r], NEW e,
           Unqualified(Home[r], q, e), Found(Home[r], q, e)
    PROVE  Finds(EnvToken[Home[r]], [Tokens(Home[x]) EXCEPT ![job[x].section] = Meant(Req(x))],
                 e, Meant(q))
<1> DEFINE m == Home[r]
           p == Req(x)
           y == job[x].section
<1>0. pc[x] = "fill store" /\ pc[x] # "idle"
    BY DEF FillStore
<1>1. p \in Requests[x] /\ y \in Backend
    BY <1>0 DEF TypeInv, JobInv, Saving
<1>2. /\ Meant(p) \in Backend /\ Meant(p).bucket = p.bucket
      /\ Meant(q) \in Backend /\ Meant(q).bucket = q.bucket
      /\ Tokens(m) \in Credentials /\ Meant(p) # None
    BY <1>1, Asked, TokensType, SettingsAssumption
<1>3. \/ y = Meant(p)
      \/ y.bucket = p.bucket /\ Useless(m, p)
    BY <1>0, Saver DEF SaveInv, Saving
<1>4. y = Meant(q) => Meant(p) = Meant(q)
    BY <1>1, <1>2, <1>3, SameMeaning DEF Useless
<1>5. ASSUME y # Meant(q), y.bucket = Meant(q).bucket, e = None
      PROVE  Matches(Tokens(m), None, Meant(q).bucket) # {Meant(q)}
    <2>1. p.bucket = q.bucket
        BY <1>2, <1>3, <1>5
    <2>2. Meant(p) = Meant(q)
        BY <1>1, <1>5, <2>1, SameMeaning DEF Unqualified
    <2>3. QED
        BY <1>2, <1>3, <1>5, <2>1, <2>2 DEF Useless, Unqualified
<1>6. QED
    BY <1>1, <1>2, <1>4, <1>5, FindsStays DEF Found

-----------------------------------------------------------------------------
(* What a command leaves to the others *)

Grown ==
    /\ \A m \in Machines : identity[m] \subseteq identity'[m]
    /\ \A b \in Backend : slots[b] \subseteq slots'[b]

(* A command keeps its own history, and no slot is ever taken away. *)
LEMMA Histories ==
    ASSUME TypeInv, NEW x \in Repos, Task(x)
    PROVE  /\ \A b \in Backend : slots[b] \subseteq slots'[b]
           /\ \A s \in Repos \ {x} : wish'[s] = wish[s] /\ outcome'[s] = outcome[s]
<1>t. slots \in [Backend -> SUBSET PublicKeys]
    BY DEF TypeInv, TypeOK
<1>h. ASSUME \/ \E label : Goto(x, label) \/ Continue(x, label)
             \/ \E how : End(x, how)
      PROVE  \A s \in Repos \ {x} : wish'[s] = wish[s] /\ outcome'[s] = outcome[s]
    BY <1>h DEF Goto, Continue, End, TypeInv, TypeOK
<1>1. CASE \E req \in Requests[x] : Start(x, req)
    <2>1. PICK req \in Requests[x] : Start(x, req)
        BY <1>1
    <2>2. slots' = slots
        BY <2>1 DEF Start, keyring
    <2>3. \A s \in Repos \ {x} : wish'[s] = wish[s] /\ outcome'[s] = outcome[s]
        BY <2>1 DEF Start, TypeInv, TypeOK
    <2>4. QED
        BY <2>2, <2>3
<1>2. CASE Kill(x)
    BY <1>2, <1>h DEF Kill, keyring
<1>3. CASE AskRemote(x) \/ AskToken(x) \/ PickKey(x) \/ Confirm(x)
    BY <1>3, <1>h DEF AskRemote, AskToken, PickKey, Confirm, keyring
<1>4. CASE \/ ReadStore(x) \/ EmptyStore(x) \/ FillStore(x)
           \/ EnsureIdentity(x) \/ GenerateIdentity(x) \/ FillIdentity(x)
    BY <1>4, <1>h DEF ReadStore, EmptyStore, FillStore, EnsureIdentity, GenerateIdentity,
                      FillIdentity, keyring
<1>5. CASE \/ SetFile(x) \/ SetURL(x) \/ SetEndpoint(x) \/ SetMode(x)
           \/ (\E key \in PublicKeys : AddRecipient(x, key)) \/ AllListed(x)
    BY <1>5, <1>h DEF SetFile, SetURL, SetEndpoint, SetMode, AddRecipient, AllListed,
                      AfterSettings, keyring
<1>6. CASE LoadConfig(x) \/ CheckBucket(x) \/ Finish(x)
    BY <1>6, <1>h DEF LoadConfig, CheckBucket, Finish, keyring
<1>7. CASE RepoRecipient(x) \/ Publish(x) \/ GrantRecovery(x) \/ ReadSlots(x) \/ Unwrap(x)
    BY <1>7, <1>h DEF RepoRecipient, Publish, GrantRecovery, ReadSlots, Unwrap, keyring
<1>8. CASE \E key \in PublicKeys : Grant(x, key)
    BY <1>8, <1>h, <1>t DEF Grant
<1>9. CASE CheckAccess(x) \/ GitClone(x) \/ KeepEndpoint(x) \/ KeepFile(x)
    BY <1>9, <1>h DEF CheckAccess, GitClone, KeepEndpoint, KeepFile, keyring
<1>10. QED
    BY <1>1, <1>2, <1>3, <1>4, <1>5, <1>6, <1>7, <1>8, <1>9 DEF Task, Step

(* Keys and slots are only ever added to. *)
LEMMA KeysGrow ==
    ASSUME Alone, TypeInv, OwnFile, NEW x \in Repos, Task(x)
    PROVE  Grown
<1>1. [Next]_vars
    BY DEF Task, Next
<1>2. QED
    BY <1>1, OwnFileNext, Histories DEF Grown

(* While a command is under way, nothing else happens on its machine. *)
LEMMA Apart ==
    ASSUME Alone, TypeInv, OwnFile, OwnFile', "fill store" \notin Killable,
           NEW x \in Repos, Task(x), CommandInv(x),
           NEW r \in Repos \ {x}, pc[r] # "idle"
    PROVE  Tokens(Home[r])' = Tokens(Home[r]) /\ store'[Home[r]] = store[Home[r]]
<1>1. Home[r] \in Machines /\ Home[x] \in Machines /\ store \in [Machines -> Credentials]
    BY OnboardingAssumption DEF TypeInv, TypeOK
<1>2. CASE Home[x] # Home[r]
    <2>1. store'[Home[r]] = store[Home[r]]
        BY <1>1, <1>2, StoreWriters DEF EmptyStore, FillStore
    <2>2. QED
        BY <1>1, <1>2, <2>1, TokensStep, Saver DEF SaveInv
<1>3. CASE Home[x] = Home[r]
    <2>1. pc[x] = "idle"
        BY <1>3 DEF OwnFile
    <2>2. ~EmptyStore(x) /\ ~FillStore(x)
        BY <2>1 DEF EmptyStore, FillStore
    <2>3. QED
        BY <1>1, <2>2, StoreWriters, TokensStep, Saver DEF SaveInv
<1>4. QED
    BY <1>2, <1>3

(* Backends that are found stay found. *)
LEMMA FoundStays ==
    ASSUME TypeInv, OwnFile, OwnFile', "fill store" \notin Killable,
           NEW x \in Repos, Task(x), CommandInv(x),
           NEW r \in Repos, NEW q \in Requests[r], NEW e,
           Unqualified(Home[r], q, e), Found(Home[r], q, e)
    PROVE  Finds(EnvToken[Home[r]], Tokens(Home[r])', e, Meant(q))
<1>1. Home[r] \in Machines
    BY Asked
<1>2. CASE Tokens(Home[r])' = Tokens(Home[r])
    BY <1>2 DEF Found
<1>3. CASE Tokens(Home[r])' # Tokens(Home[r])
    <2>1. /\ FillStore(x) /\ Home[r] = Home[x]
          /\ Tokens(Home[r])' = [Tokens(Home[r]) EXCEPT ![job[x].section] = Meant(Req(x))]
        BY <1>1, <1>3, TokensStep, Saver DEF SaveInv
    <2>2. Finds(EnvToken[Home[r]],
                [Tokens(Home[x]) EXCEPT ![job[x].section] = Meant(Req(x))], e, Meant(q))
        BY <2>1, FillHarmsNobody
    <2>3. Tokens(Home[r]) = Tokens(Home[x])
        BY <2>1
    <2>4. QED
        BY <2>1, <2>2, <2>3
<1>4. QED
    BY <1>2, <1>3

(* The tokens stay those of the requests. *)
LEMMA TokenInvNext ==
    ASSUME TypeInv, OwnFile, OwnFile', "fill store" \notin Killable,
           NEW x \in Repos, Task(x), CommandInv(x), TokenInv
    PROVE  TokenInv'
<1> SUFFICES ASSUME NEW r \in Repos
             PROVE  /\ IsFiniteSet(Complete(Tokens(Home[r])'))
                    /\ \A q \in Requests[r] : \A v \in Backend :
                         v = Meant(q) \/ (Sole(Home[r], q) /\ v.bucket = q.bucket) =>
                           Tokens(Home[r])'[v] \in {None, Meant(q)}
    BY DEF TokenInv, Sole, Meant
<1> DEFINE m == Home[r]
           p == Req(x)
           y == job[x].section
<1>1. Home[r] \in Machines
    BY OnboardingAssumption
<1>2. CASE Tokens(m)' = Tokens(m)
    BY <1>2 DEF TokenInv
<1>3. CASE Tokens(m)' # Tokens(m)
    <2>1. /\ FillStore(x) /\ Home[r] = Home[x]
          /\ Tokens(m)' = [Tokens(m) EXCEPT ![y] = Meant(p)]
        BY <1>1, <1>3, TokensStep, Saver DEF SaveInv
    <2>2. pc[x] = "fill store" /\ pc[x] # "idle"
        BY <2>1 DEF FillStore
    <2>3. p \in Requests[x] /\ y \in Backend /\ Tokens(m) \in Credentials
        BY <1>1, <2>2, TokensType DEF TypeInv, JobInv, Saving
    <2>4. \/ y = Meant(p)
          \/ y.bucket = p.bucket /\ Sole(m, p)
        BY <2>1, <2>2, Saver DEF SaveInv, Saving, Useless
    <2>5. IsFiniteSet(Complete(Tokens(m)'))
        <3>1. Complete(Tokens(m)') \subseteq Complete(Tokens(m)) \cup {y}
            BY <2>1, <2>3 DEF Complete, Credentials
        <3>2. IsFiniteSet(Complete(Tokens(m)) \cup {y})
            BY FS_AddElement DEF TokenInv
        <3>3. QED
            BY <3>1, <3>2, FS_Subset
    <2>6. ASSUME NEW q \in Requests[r], NEW v \in Backend,
                 v = Meant(q) \/ (Sole(m, q) /\ v.bucket = q.bucket)
          PROVE  Tokens(m)'[v] \in {None, Meant(q)}
        <3>1. CASE v # y
            BY <2>1, <2>3, <2>6, <3>1 DEF TokenInv, Credentials
        <3>2. CASE v = y
            <4>1. Tokens(m)'[v] = Meant(p)
                BY <2>1, <2>3, <3>2 DEF Credentials
            <4>2. Meant(p) = Meant(q)
                <5>1. Meant(q).bucket = q.bucket /\ Meant(p).bucket = p.bucket
                    BY <2>3, Asked
                <5>2. CASE v = Meant(p) /\ v = Meant(q)
                    BY <5>2
                <5>3. CASE p.bucket = q.bucket /\ (Sole(m, p) \/ Sole(m, q))
                    BY <2>1, <2>3, <5>3, SameMeaning
                <5>4. QED
                    BY <2>4, <2>6, <3>2, <5>1, <5>2, <5>3
            <4>3. QED
                BY <4>1, <4>2
        <3>3. QED
            BY <3>1, <3>2
    <2>7. QED
        BY <2>5, <2>6
<1>4. QED
    BY <1>2, <1>3

-----------------------------------------------------------------------------
(* What stays when a command takes a step *)

Quiet == Alone /\ Agreed /\ "fill store" \notin Killable

Good == TypeInv /\ OwnFile /\ ReadyInv

Turn(x) == Good /\ OwnFile' /\ Task(x)

(* What one command leaves alone, and what every command keeps. *)
LEMMA TurnKeeps ==
    ASSUME Quiet, NEW x \in Repos, Turn(x)
    PROVE  /\ Grown /\ TokenInv' /\ Kept(x)
           /\ \A r \in Repos \ {x} : /\ pc'[r] = pc[r] /\ job'[r] = job[r] /\ git'[r] = git[r]
                                    /\ wish'[r] = wish[r] /\ outcome'[r] = outcome[r]
<1>1. Grown
    BY KeysGrow DEF Quiet, Turn, Good
<1>2. CommandInv(x) /\ TokenInv
    BY DEF Turn, Good, ReadyInv
<1>3. TokenInv'
    BY <1>2, TokenInvNext DEF Quiet, Turn, Good
<1>4. Kept(x)
    BY TaskKeeps DEF Turn, Good, Task
<1>5. QED
    BY <1>1, <1>3, <1>4, Histories DEF Turn, Good, Kept

(* A bucket without an endpoint is the only one of its name. *)
LEMMA ConfiguredOne ==
    ASSUME Quiet, NEW r \in Repos, NEW q \in Requests[r], GitInv(r),
           git[r].bucket = q.bucket, pc[r] \notin Window
    PROVE  Unqualified(Home[r], q, Configured(r))
<1>1. q.bucket # None
    BY Asked, SettingsAssumption DEF Request
<1>2. ~Sole(Home[r], q) => git[r].endpoint = q.endpoint /\ q.endpoint # None
    BY <1>1 DEF Quiet, Agreed, Backed, Qualified, GitInv
<1>3. QED
    BY <1>2 DEF Unqualified, Configured, Lookup

(* A repository that works goes on working. *)
LEMMA ServesStays ==
    ASSUME Quiet, NEW x \in Repos, Turn(x), NEW r \in Repos, NEW q \in Requests[r],
           Serves(r, q), git'[r] = git[r]
    PROVE  Serves(r, q)' /\ ModeOf(r)' = ModeOf(r)
<1>1. ModeOf(r)' = ModeOf(r) /\ FileOf(r)' = FileOf(r) /\ Configured(r)' = Configured(r)
    BY DEF ModeOf, FileOf, Configured
<1>2. Home[r] \in Machines /\ Meant(q) \in Backend
    BY Asked
<1>3. CommandInv(x) /\ GitInv(r)
    BY DEF Turn, Good, ReadyInv
<1>4. Finds(EnvToken[Home[r]], Tokens(Home[r])', Configured(r), Meant(q))
    <2>1. CASE pc[r] \notin Window
        <3>1. Unqualified(Home[r], q, Configured(r)) /\ Found(Home[r], q, Configured(r))
            BY <1>3, <2>1, ConfiguredOne DEF Serves
        <3>2. QED
            BY <1>3, <3>1, FoundStays DEF Quiet, Turn, Good
    <2>2. CASE pc[r] \in Window
        <3>1. Tokens(Home[r])' = Tokens(Home[r])
            <4>1. CASE r = x
                <5>1. ~FillStore(x) /\ pc[x] # "empty store"
                    BY <2>2, <4>1 DEF FillStore, Window
                <5>2. QED
                    BY <1>2, <5>1, TokensStep DEF Quiet, Turn, Good
            <4>2. CASE r # x
                BY <1>3, <2>2, <4>2, Apart DEF Quiet, Turn, Good, Window
            <4>3. QED
                BY <4>1, <4>2
        <3>2. QED
            BY <3>1 DEF Serves, Found
    <2>3. QED
        BY <2>1, <2>2
<1>5. Opening(r, q) => Opening(r, q)'
    BY <1>1, <1>2, TurnKeeps DEF Opening, KeysIn, Grown
<1>6. QED
    BY <1>1, <1>4, <1>5 DEF Serves, Found

(* What is known of a command under way. *)
LEMMA Underway ==
    ASSUME Quiet, NEW x \in Repos, Turn(x), pc[x] # "idle"
    PROVE  /\ Req(x) \in Requests[x] /\ Req(x) \in Request /\ CommandOf(x, Req(x)) /\ GitInv(x)
           /\ Home[x] \in Machines /\ Meant(Req(x)) \in Backend
           /\ Meant(Req(x)).bucket = Req(x).bucket
           /\ Req(x).cmd \in {"setup", "clone", "push"} /\ Req(x).encryption \in {"age", "none"}
           /\ Req(x).identity \in Ssh[Home[x]] \cup {None} /\ Ssh[Home[x]] \subseteq SshKeys
           /\ job[x].run \in AgeKeys
           /\ Backed(Home[x], Req(x)) /\ Moded(Home[x], Req(x)) /\ Keyed(Home[x], Req(x))
           /\ \A p \in Requests[x] : Compatible(p, Req(x)) /\ Compatible(Req(x), p)
           /\ pc \in [Repos -> Points] /\ job \in [Repos -> Job] /\ git \in [Repos -> Remote]
           /\ identity \in [Machines -> SUBSET AgeKeys] /\ store \in [Machines -> Credentials]
           /\ slots \in [Backend -> SUBSET PublicKeys]
<1>1. TypeInv /\ CommandInv(x) /\ GitInv(x)
    BY DEF Turn, Good, ReadyInv
<1>2. /\ Req(x) \in Requests[x] /\ CommandOf(x, Req(x)) /\ Home[x] \in Machines
      /\ job[x].run \in AgeKeys
    BY <1>1, Saver, Requested
<1>3. /\ Req(x) \in Request /\ Meant(Req(x)) \in Backend
      /\ Meant(Req(x)).bucket = Req(x).bucket
    BY <1>2, Asked
<1>4. /\ Req(x).cmd \in {"setup", "clone", "push"} /\ Req(x).encryption \in {"age", "none"}
      /\ Req(x).identity \in Ssh[Home[x]] \cup {None} /\ Ssh[Home[x]] \subseteq SshKeys
    BY <1>2, <1>3, OnboardingAssumption DEF Request, Modes
<1>5. /\ Backed(Home[x], Req(x)) /\ Moded(Home[x], Req(x)) /\ Keyed(Home[x], Req(x))
      /\ \A p \in Requests[x] : Compatible(p, Req(x)) /\ Compatible(Req(x), p)
    BY <1>2 DEF Quiet, Agreed
<1>6. QED
    BY <1>1, <1>2, <1>3, <1>4, <1>5 DEF TypeInv, TypeOK

SettingUp == {"set file", "set url", "set endpoint", "set mode"}

(* Setup has found the key file, or been given it, and says for whom. *)
LEMMA WantedOpens ==
    ASSUME Quiet, NEW x \in Repos, Turn(x), pc[x] # "idle", NEW q \in Requests[x], Req(x) = q,
           q.cmd = "setup", q.encryption = "age", ~Before(x, q), Wanted(x) # {}
    PROVE  Wanted(x) \cap KeysIn(Home[x], Chosen(q)) # {}
<1>1. KeyInv(x, q) /\ Keyed(Home[x], q)
    BY Underway DEF CommandOf
<1>2. CASE Chosen(q) = "default"
    <2>1. job[x].own # {} /\ job[x].own \subseteq KeysIn(Home[x], Chosen(q))
        BY <1>1, <1>2 DEF KeyInv, KeysIn
    <2>2. QED
        BY <2>1 DEF Wanted
<1>3. CASE Chosen(q) # "default"
    <2>1. job[x].own = {} /\ Chosen(q) = q.identity /\ KeysIn(Home[x], Chosen(q)) = {q.identity}
        BY <1>1, <1>3 DEF KeyInv, Chosen, KeysIn
    <2>2. q.identity \in q.extra
        BY <1>1, <1>3, <2>1 DEF Wanted, Keyed
    <2>3. QED
        BY <2>1, <2>2 DEF Wanted
<1>4. QED
    BY <1>2, <1>3

(* What is known where the configuration is written. *)
LEMMA SetBegins ==
    ASSUME Quiet, NEW x \in Repos, Turn(x), NEW q \in Requests[x], Req(x) = q, pc[x] \in SettingUp
    PROVE  /\ q.cmd = "setup" /\ q.encryption \in {"age", "none"} /\ ~Before(x, q)
           /\ job[x].endpoint = q.endpoint \/ job[x].endpoint = None
           /\ q.encryption = "age" => job[x].file = Chosen(q)
           /\ q.encryption = "age" /\ pc[x] # "set file" =>
                Wanted(x) # {} /\ (Chosen(q) # "default" => git[x].file = Chosen(q))
           /\ q.encryption = "none" /\ job[x].cfg # None => git[x].encryption = "none"
           /\ git \in [Repos -> Remote] /\ pc \in [Repos -> Points]
           /\ outcome[x] # "pushed" /\ Home[x] \in Machines /\ Grown
<1>0. pc[x] # "idle"
    BY DEF SettingUp
<1>1. /\ CommandOf(x, q) /\ q.cmd \in {"setup", "clone", "push"} /\ q.encryption \in {"age", "none"}
      /\ git \in [Repos -> Remote] /\ pc \in [Repos -> Points] /\ Home[x] \in Machines /\ Grown
    BY <1>0, Underway, TurnKeeps
<1>2. q.cmd = "setup" /\ (job[x].endpoint = q.endpoint \/ job[x].endpoint = None)
    BY <1>1 DEF CommandOf, RouteInv, Routes, SettingUp, Saving
<1>3. ~Before(x, q)
    BY <1>2 DEF Before, Early, SettingUp
<1>4. q.encryption = "age" => job[x].file = Chosen(q)
    BY <1>1, <1>2, <1>3 DEF CommandOf, KeyInv
<1>5. /\ q.encryption = "age" /\ pc[x] # "set file" =>
           Wanted(x) # {} /\ (Chosen(q) # "default" => git[x].file = Chosen(q))
      /\ q.encryption = "none" /\ job[x].cfg # None => git[x].encryption = "none"
    BY <1>1, <1>2 DEF CommandOf, LateInv, Late, SettingUp
<1>6. outcome[x] # "pushed"
    BY <1>0 DEF Turn, Good, ReadyInv, PushedInv
<1>7. QED
    BY <1>1, <1>2, <1>3, <1>4, <1>5, <1>6

(* Where setup adds the recipients, that is all it does. *)
LEMMA Listing ==
    ASSUME TypeInv, NEW x \in Repos, Task(x), pc[x] = "set mode"
    PROVE  \/ SetMode(x)
           \/ \E key \in PublicKeys : AddRecipient(x, key)
           \/ AllListed(x)
           \/ Kill(x)
BY DEF Task, Start, Step, AskRemote, AskToken, PickKey, Confirm, ReadStore, EmptyStore, FillStore,
       EnsureIdentity, GenerateIdentity, FillIdentity, SetFile, SetURL, SetEndpoint, LoadConfig,
       CheckBucket, Finish, RepoRecipient, Publish, Grant, GrantRecovery, ReadSlots, Unwrap,
       CheckAccess, GitClone, KeepEndpoint, KeepFile

(* When it goes on, a key of the repository is among them. *)
LEMMA ListedOpens ==
    ASSUME Quiet, NEW x \in Repos, Turn(x), Between(x), ~Between(x)',
           NEW p \in Requests[x], p.cmd = "setup", p.encryption = "age"
    PROVE  KeysIn(Home[x], Chosen(p)) \cap git[x].recipients # {}
<1>0. pc[x] = "set mode" /\ pc[x] # "idle" /\ pc[x] \in SettingUp /\ ~Kill(x)
    BY DEF Between, SettingUp, Kill
<1>1. PICK q \in Requests[x] : q = Req(x)
    BY <1>0, Underway
<1>2. /\ q.cmd = "setup" /\ ~Before(x, q) /\ pc[x] # "set file" /\ pc \in [Repos -> Points]
      /\ q.encryption = "age" => Wanted(x) # {}
    BY <1>0, <1>1, SetBegins
<1>3. q.encryption = "age" /\ Chosen(p) = Chosen(q)
    BY <1>0, <1>1, <1>2, Underway DEF Compatible
<1>4. ~SetMode(x)
    BY <1>1, <1>3 DEF SetMode
<1>5. ~\E key \in PublicKeys : AddRecipient(x, key)
    BY <1>0, <1>2 DEF AddRecipient, Continue, Goto, Between
<1>6. AllListed(x)
    BY <1>0, <1>4, <1>5, Listing DEF Turn, Good
<1>7. Wanted(x) \subseteq git[x].recipients
    BY <1>6 DEF AllListed, Unlisted
<1>8. Wanted(x) \cap KeysIn(Home[x], Chosen(q)) # {}
    BY <1>0, <1>1, <1>2, <1>3, WantedOpens
<1>9. QED
    BY <1>3, <1>7, <1>8

(* A configuration that does not change stays one that comes from the       *)
(* requests.                                                                *)
LEMMA GitStays ==
    ASSUME Quiet, NEW x \in Repos, Turn(x), NEW r \in Repos, git'[r] = git[r],
           pc[r] \in Window =>
             pc'[r] \in Window \/ \A q \in Requests[r] : Sole(Home[r], q)
    PROVE  GitInv(r)'
<1>1. GitInv(r) /\ Grown
    BY TurnKeeps DEF Turn, Good, ReadyInv
<1>2. \A q \in Requests[r] : Meant(q) \in Backend
    BY Asked
<1>3. \A q \in Requests[r] : git[r].file \in slots[Meant(q)] => git[r].file \in slots'[Meant(q)]
    BY <1>1, <1>2 DEF Grown
<1>4. \A p \in Requests[r] : KeysIn(Home[r], Chosen(p)) \subseteq KeysIn(Home[r], Chosen(p))'
    BY <1>1, Asked DEF KeysIn, Grown
<1>5. ASSUME NEW q \in Requests[r]
      PROVE  /\ git'[r].bucket \in {None, q.bucket} /\ git'[r].endpoint \in {None, q.endpoint}
             /\ git'[r].encryption # None => git'[r].encryption = "none" /\ q.encryption = "none"
             /\ git'[r].bucket # None /\ ~Sole(Home[r], q) /\ pc'[r] \notin Window =>
                  git'[r].endpoint = q.endpoint
             /\ git'[r].file # None =>
                  \/ q.encryption = "none"
                  \/ \E p \in Requests[r] : p.cmd = "setup" /\ Chosen(p) = git'[r].file
                  \/ git'[r].file \in slots'[Meant(q)]
    BY <1>1, <1>3 DEF GitInv
<1>6. git'[r].recipients # {} =>
        \E p \in Requests[r] :
           /\ p.cmd = "setup" /\ p.encryption = "age"
           /\ Between(r)' \/ KeysIn(Home[r], Chosen(p))' \cap git'[r].recipients # {}
           /\ Chosen(p) # "default" => git'[r].file = Chosen(p)
    <2>1. SUFFICES ASSUME git'[r].recipients # {}
                   PROVE  \E p \in Requests[r] :
                            /\ p.cmd = "setup" /\ p.encryption = "age"
                            /\ \/ Between(r)'
                               \/ KeysIn(Home[r], Chosen(p))' \cap git'[r].recipients # {}
                            /\ Chosen(p) # "default" => git'[r].file = Chosen(p)
        OBVIOUS
    <2>2. PICK p \in Requests[r] :
            /\ p.cmd = "setup" /\ p.encryption = "age"
            /\ Between(r) \/ KeysIn(Home[r], Chosen(p)) \cap git[r].recipients # {}
            /\ Chosen(p) # "default" => git[r].file = Chosen(p)
        BY <1>1, <2>1 DEF GitInv
    <2>3. ASSUME Between(r), ~Between(r)'
          PROVE  KeysIn(Home[r], Chosen(p)) \cap git[r].recipients # {}
        <3>1. r = x
            BY <2>3, TurnKeeps DEF Between
        <3>2. QED
            BY <2>2, <2>3, <3>1, ListedOpens
    <2>4. QED
        BY <1>4, <2>2, <2>3
<1>7. QED
    BY <1>1, <1>5, <1>6 DEF GitInv

(* The history of a repository whose command has not just begun or ended. *)
LEMMA WishStays ==
    ASSUME Quiet, NEW x \in Repos, Turn(x), NEW r \in Repos, git'[r] = git[r],
           wish'[r] = wish[r],
           pc'[r] # "idle" => pc[r] # "idle" /\ Req(r)' = Req(r)
    PROVE  WishInv(r)'
<1>1. WishInv(r)
    BY DEF Turn, Good, ReadyInv
<1>2. ASSUME NEW q \in Requests[r], wish'[r] = q
      PROVE  /\ Serves(r, q)' /\ ModeOf(r)' = q.encryption
             /\ q.cmd = "setup" /\ q.encryption = "age" /\ Chosen(q) # "default" =>
                  git'[r].file = Chosen(q)
             /\ pc'[r] # "idle" => Req(r)' = q \/ Req(r)'.cmd = "push"
    <2>1. Serves(r, q) /\ ModeOf(r) = q.encryption
        BY <1>1, <1>2 DEF WishInv
    <2>2. QED
        BY <1>1, <1>2, <2>1, ServesStays DEF WishInv
<1>3. QED
    BY <1>1, <1>2 DEF WishInv

(* Who could read what was pushed still can. *)
LEMMA PushedStays ==
    ASSUME Quiet, NEW x \in Repos, Turn(x), NEW r \in Repos, git'[r] = git[r],
           outcome'[r] = "pushed" => outcome[r] = "pushed" /\ pc'[r] = pc[r]
    PROVE  PushedInv(r)'
<1>1. PushedInv(r)
    BY DEF Turn, Good, ReadyInv
<1>2. QED
    BY <1>1, ServesStays DEF PushedInv

(* What is not the command's own stays as it was. *)
LEMMA OthersKeep ==
    ASSUME Quiet, NEW x \in Repos, Turn(x), NEW r \in Repos \ {x}
    PROVE  CommandInv(r)' /\ GitInv(r)' /\ WishInv(r)' /\ PushedInv(r)'
<1>1. /\ pc'[r] = pc[r] /\ job'[r] = job[r] /\ git'[r] = git[r] /\ Req(r)' = Req(r)
      /\ wish'[r] = wish[r] /\ outcome'[r] = outcome[r] /\ Grown /\ Home[r] \in Machines
    BY TurnKeeps, OnboardingAssumption DEF Req
<1>2. GitInv(r)' /\ WishInv(r)' /\ PushedInv(r)'
    BY <1>1, GitStays, WishStays, PushedStays
<1>3. ASSUME pc[r] # "idle", NEW q \in Requests[r], Req(r) = q
      PROVE  CommandOf(r, q)'
    <2>1. CommandInv(x) /\ CommandOf(r, q)
        BY <1>3 DEF Turn, Good, ReadyInv, CommandInv
    <2>2. Tokens(Home[r])' = Tokens(Home[r]) /\ store'[Home[r]] = store[Home[r]]
        BY <1>3, <2>1, Apart DEF Quiet, Turn, Good
    <2>3. /\ Configured(r)' = Configured(r) /\ Looked(r, q)' = Looked(r, q)
          /\ ModeOf(r)' = ModeOf(r) /\ FileOf(r)' = FileOf(r) /\ Before(r, q)' = Before(r, q)
          /\ Late(r)' = Late(r) /\ Wanted(r)' = Wanted(r) /\ At(r)' = At(r)
          /\ Mode(r)' = Mode(r) /\ Useless(Home[r], q)' = Useless(Home[r], q)
        BY <1>1, <2>2 DEF Configured, Looked, ModeOf, FileOf, Before, Late, Wanted, At, Mode,
                          Useless, Sole, Meant, Req
    <2>4. \A f : KeysIn(Home[r], f) \subseteq KeysIn(Home[r], f)'
        BY <1>1 DEF KeysIn, Grown
    <2>5. slots[Meant(q)] \subseteq slots'[Meant(q)]
        BY <1>1, Asked DEF Grown
    <2>6. SaveInv(r, q)' /\ RouteInv(r, q)'
        BY <1>1, <2>1, <2>2, <2>3 DEF CommandOf, SaveInv, RouteInv, Sole, Meant
    <2>7. KeyInv(r, q)' /\ LateInv(r, q)'
        BY <1>1, <2>1, <2>3 DEF CommandOf, KeyInv, LateInv, Grown
    <2>8. CheckInv(r, q)'
        BY <1>1, <2>1, <2>2, <2>3 DEF CommandOf, CheckInv, Found
    <2>9. EndInv(r, q)'
        <3>1. Sees(r, q) => Sees(r, q)'
            BY <1>1, <2>3, <2>4, <2>5 DEF Sees
        <3>2. Opening(r, q) => Opening(r, q)'
            BY <2>3, <2>4, <2>5 DEF Opening
        <3>3. Serves(r, q) => Serves(r, q)'
            BY <1>1, ServesStays
        <3>4. KeysIn(Home[r], job[r].file) \cap slots[Meant(q)] # {} =>
              KeysIn(Home[r], job[r].file)' \cap slots'[Meant(q)] # {}
            BY <1>1, <2>4, <2>5
        <3>5. QED
            BY <1>1, <2>1, <2>3, <3>1, <3>2, <3>3, <3>4 DEF CommandOf, EndInv
    <2>10. QED
        BY <2>6, <2>7, <2>8, <2>9 DEF CommandOf
<1>4. CommandInv(r)'
    BY <1>1, <1>3 DEF CommandInv
<1>5. QED
    BY <1>2, <1>4

-----------------------------------------------------------------------------
(* What a command does to its own repository *)

Own(x) == CommandInv(x)' /\ GitInv(x)' /\ WishInv(x)' /\ PushedInv(x)'

(* A command that ends without success leaves its repository as it was. *)
LEMMA Ending ==
    ASSUME Quiet, NEW x \in Repos, Turn(x), git'[x] = git[x],
           pc[x] \notin Window \/ \A q \in Requests[x] : Sole(Home[x], q),
           NEW how, how # "ready", how # "pushed", End(x, how)
    PROVE  Own(x)
<1>1. pc'[x] = "idle" /\ outcome'[x] = how /\ wish'[x] = wish[x]
    BY DEF End, Turn, Good, TypeInv, TypeOK
<1>2. CommandInv(x)'
    BY <1>1 DEF CommandInv
<1>3. QED
    BY <1>1, <1>2, GitStays, WishStays, PushedStays DEF Own

(* A command that goes on, and leaves the configuration alone, keeps the    *)
(* invariant if it is where a command for that request can be.              *)
LEMMA Moving ==
    ASSUME Quiet, NEW x \in Repos, Turn(x), pc[x] \notin Window, git'[x] = git[x],
           NEW label, Goto(x, label), pc[x] # "idle", Req(x)' = Req(x),
           \A q \in Requests[x] : Req(x) = q => CommandOf(x, q)'
    PROVE  Own(x)
<1>1. pc'[x] = label /\ outcome'[x] = outcome[x] /\ wish'[x] = wish[x]
    BY DEF Goto, Turn, Good, TypeInv, TypeOK
<1>2. outcome[x] # "pushed"
    BY DEF Turn, Good, ReadyInv, PushedInv
<1>3. CommandInv(x)'
    BY DEF CommandInv
<1>4. QED
    BY <1>1, <1>2, <1>3, GitStays, WishStays, PushedStays DEF Own

(* Before the check of the bucket there is less to show. *)
LEMMA NotYet ==
    ASSUME NEW x \in Repos, NEW q, pc'[x] \notin {"check"} \cup Checked
    PROVE  CheckInv(x, q)' /\ EndInv(x, q)'
BY DEF CheckInv, EndInv, Checked, OnKeyring

(* A command starts with nothing settled. What was declared ready before    *)
(* counts on only for the same request, or for a push.                      *)
LEMMA StartReady ==
    ASSUME Quiet, NEW x \in Repos, Turn(x), NEW req \in Requests[x], Start(x, req)
    PROVE  Own(x)
<1>1. /\ pc \in [Repos -> Points] /\ job \in [Repos -> Job] /\ wish \in [Repos -> Request \cup {None}]
      /\ outcome'[x] = "none"
    BY DEF Turn, Good, TypeInv, TypeOK, Start
<1>2. /\ pc[x] = "idle" /\ pc'[x] = FirstStep(req) /\ git'[x] = git[x]
      /\ wish'[x] = IF req.cmd = "push" \/ wish[x] = req THEN wish[x] ELSE None
      /\ job'[x] = [NoJob EXCEPT !.run = runs + 1, !.req = req, !.endpoint = req.endpoint]
    BY <1>1 DEF Start, local
<1>3. /\ job'[x].req = req /\ job'[x].endpoint = req.endpoint /\ job'[x].own = {}
      /\ job'[x].file = "default" /\ job'[x].entered = FALSE /\ job'[x].cfg = None
    BY <1>2 DEF NoJob
<1>4. /\ req.cmd \in {"setup", "clone", "push"} /\ req.encryption \in {"age", "none"}
      /\ req.wizard \in BOOLEAN
    BY Asked DEF Request, Modes
<1>5. PICK label \in {"load", "ask token", "ensure", "ask remote", "set url"} :
        /\ pc'[x] = label
        /\ req.cmd = "push" <=> label = "load"
        /\ label = "ask token" => req.cmd = "clone"
        /\ label = "ask remote" => req.cmd = "setup" /\ req.wizard
        /\ label = "set url" => req.cmd = "setup" /\ req.encryption = "none"
        /\ label = "ensure" /\ req.cmd = "setup" => ~req.wizard
    BY <1>2, <1>4 DEF FirstStep
<1>6. CommandOf(x, req)'
    <2>1. SaveInv(x, req)'
        BY <1>3, <1>5 DEF SaveInv, Saving
    <2>2. RouteInv(x, req)'
        BY <1>3, <1>4, <1>5 DEF RouteInv, Routes, Points, Early
    <2>3. KeyInv(x, req)' /\ LateInv(x, req)'
        BY <1>3, <1>4, <1>5 DEF KeyInv, LateInv, Before, Late, Early, Saving
    <2>4. CheckInv(x, req)' /\ EndInv(x, req)'
        BY <1>5, NotYet DEF Checked, OnKeyring
    <2>5. QED
        BY <2>1, <2>2, <2>3, <2>4 DEF CommandOf
<1>7. CommandInv(x)'
    BY <1>3, <1>6 DEF CommandInv, Req
<1>8. GitInv(x)' /\ PushedInv(x)'
    BY <1>1, <1>2, GitStays, PushedStays DEF Window
<1>9. WishInv(x)'
    <2>1. WishInv(x)
        BY DEF Turn, Good, ReadyInv
    <2>2. wish'[x] \in Requests[x] \cup {None}
        BY <1>2, <2>1 DEF WishInv
    <2>3. ASSUME NEW q \in Requests[x], wish'[x] = q
          PROVE  /\ Serves(x, q)' /\ ModeOf(x)' = q.encryption
                 /\ q.cmd = "setup" /\ q.encryption = "age" /\ Chosen(q) # "default" =>
                      git'[x].file = Chosen(q)
                 /\ Req(x)' = q \/ Req(x)'.cmd = "push"
        <3>1. wish[x] = q /\ (q = req \/ req.cmd = "push")
            BY <1>2, <2>3, Asked
        <3>2. Serves(x, q) /\ ModeOf(x) = q.encryption
            BY <2>1, <3>1 DEF WishInv
        <3>3. Serves(x, q)' /\ ModeOf(x)' = q.encryption
            BY <1>2, <3>2, ServesStays
        <3>4. QED
            BY <1>2, <1>3, <2>1, <3>1, <3>3 DEF WishInv, Req
    <2>4. QED
        BY <2>2, <2>3 DEF WishInv
<1>10. QED
    BY <1>7, <1>8, <1>9 DEF Own

(* The setup wizard asks for endpoint and bucket. *)
LEMMA AskRemoteReady ==
    ASSUME Quiet, NEW x \in Repos, Turn(x), AskRemote(x)
    PROVE  Own(x)
<1>0. pc[x] = "ask remote" /\ git'[x] = git[x]
    BY DEF AskRemote, local
<1>1. PICK q \in Requests[x] : q = Req(x)
    BY <1>0, Underway
<1>2. /\ CommandOf(x, q) /\ GitInv(x) /\ q.cmd = "setup" /\ q.wizard
      /\ job \in [Repos -> Job] /\ job[x] \in Job
    <2>1. CommandOf(x, q) /\ q.cmd \in {"setup", "clone", "push"} /\ job \in [Repos -> Job]
        BY <1>0, <1>1, Underway
    <2>2. QED
        BY <1>0, <1>1, <2>1, Underway DEF CommandOf, RouteInv, Routes, Saving
<1>3. /\ job[x].entered = FALSE /\ job[x].cfg = None /\ job[x].endpoint = q.endpoint
      /\ q.encryption = "age" => job[x].own = {} /\ job[x].file = "default"
    BY <1>0, <1>2 DEF CommandOf, SaveInv, RouteInv, KeyInv, Before, Early, Job
<1>4. CASE Continue(x, "ask token")
    <2>1. job' = job /\ pc'[x] = "ask token" /\ Req(x)' = Req(x)
        BY <1>4, Underway, <1>0 DEF Continue, Goto, Req
    <2>2. SaveInv(x, q)' /\ RouteInv(x, q)'
        BY <1>2, <1>3, <2>1 DEF SaveInv, RouteInv, Routes, Points, Early, Saving
    <2>3. KeyInv(x, q)' /\ LateInv(x, q)'
        BY <1>2, <1>3, <2>1 DEF KeyInv, LateInv, Before, Late, Early, Saving
    <2>4. CommandOf(x, q)'
        BY <2>1, <2>2, <2>3, NotYet DEF CommandOf, Checked, OnKeyring
    <2>5. QED
        BY <1>0, <1>1, <1>4, <2>1, <2>4, Moving DEF Continue, Window
<1>5. CASE ~Continue(x, "ask token")
    <2>1. /\ git[x].bucket = q.bucket /\ job' = [job EXCEPT ![x].endpoint = None]
          /\ Goto(x, KeyStep(x))
        BY <1>1, <1>5 DEF AskRemote
    <2>2. /\ job'[x].endpoint = None /\ job'[x].entered = FALSE /\ job'[x].cfg = None
          /\ job'[x].own = job[x].own /\ job'[x].file = job[x].file /\ Req(x)' = Req(x)
        BY <1>2, <1>3, <2>1 DEF Job, Req
    <2>3. pc'[x] = IF q.encryption = "age" THEN "pick key" ELSE "set url"
        BY <1>0, <1>1, <2>1, Underway DEF Goto, KeyStep
    <2>4. Sole(Home[x], q) \/ git[x].endpoint = q.endpoint
        <3>1. git[x].bucket # None
            BY <2>1, Asked, SettingsAssumption DEF Request
        <3>2. QED
            BY <1>0, <1>2, <3>1 DEF GitInv, Window
    <2>5. SaveInv(x, q)'
        BY <2>2, <2>3 DEF SaveInv, Saving
    <2>6. RouteInv(x, q)'
        BY <1>0, <1>2, <2>2, <2>3, <2>4 DEF RouteInv, Routes, Points, Early, Sole
    <2>7. KeyInv(x, q)' /\ LateInv(x, q)'
        BY <1>2, <1>3, <2>2, <2>3 DEF KeyInv, LateInv, Before, Late, Early, Saving
    <2>8. CommandOf(x, q)'
        BY <2>3, <2>5, <2>6, <2>7, NotYet DEF CommandOf, Checked, OnKeyring
    <2>9. QED
        BY <1>0, <1>1, <2>1, <2>2, <2>8, Moving DEF Window
<1>6. QED
    BY <1>4, <1>5

(* A wizard asks for the token, which is the one for the backend that is    *)
(* meant.                                                                   *)
LEMMA AskTokenReady ==
    ASSUME Quiet, NEW x \in Repos, Turn(x), AskToken(x)
    PROVE  Own(x)
<1>0. pc[x] = "ask token" /\ git'[x] = git[x]
    BY DEF AskToken, local
<1>1. PICK q \in Requests[x] : q = Req(x)
    BY <1>0, Underway
<1>2. /\ CommandOf(x, q) /\ q.cmd \in {"setup", "clone"} /\ q.encryption \in {"age", "none"}
      /\ job \in [Repos -> Job] /\ job[x] \in Job
    <2>1. /\ CommandOf(x, q) /\ q.cmd \in {"setup", "clone", "push"} /\ job \in [Repos -> Job]
          /\ q.encryption \in {"age", "none"}
        BY <1>0, <1>1, Underway
    <2>2. QED
        BY <1>0, <2>1 DEF CommandOf, RouteInv, Routes
<1>3. /\ job[x].cfg = None /\ job[x].endpoint = q.endpoint
      /\ q.encryption = "age" => job[x].own = {} /\ job[x].file = "default"
    BY <1>0, <1>2 DEF CommandOf, RouteInv, KeyInv, Before, Early
<1>4. PICK entered \in BOOLEAN :
        job' = [job EXCEPT ![x].entered = entered, ![x].section = Meant(q)]
    BY <1>1, <1>3 DEF AskToken, Meant
<1>5. /\ job'[x].endpoint = q.endpoint /\ job'[x].section = Meant(q) /\ job'[x].cfg = None
      /\ job'[x].own = job[x].own /\ job'[x].file = job[x].file /\ Req(x)' = Req(x)
    BY <1>2, <1>3, <1>4 DEF Job, Req
<1>6. DEFINE label == IF q.cmd = "setup" /\ q.encryption = "age" THEN "pick key" ELSE "confirm"
<1>7. Goto(x, label) /\ pc'[x] = label
    BY <1>0, <1>1, Underway DEF AskToken, Goto
<1>8. SaveInv(x, q)' /\ RouteInv(x, q)'
    <2>1. q.cmd = "setup" => q.wizard
        BY <1>0, <1>2 DEF CommandOf, RouteInv
    <2>2. QED
        BY <1>2, <1>5, <1>7, <2>1 DEF SaveInv, RouteInv, Routes, Points, Early, Saving
<1>9. KeyInv(x, q)' /\ LateInv(x, q)'
    BY <1>2, <1>3, <1>5, <1>7 DEF KeyInv, LateInv, Before, Late, Early, Saving
<1>10. CommandOf(x, q)'
    BY <1>7, <1>8, <1>9, NotYet DEF CommandOf, Checked, OnKeyring
<1>11. QED
    BY <1>0, <1>1, <1>5, <1>7, <1>10, Moving DEF Window

(* A wizard settles the key; setup finds no SSH key to pick, so its key is  *)
(* one of the default file.                                                 *)
LEMMA PickKeyReady ==
    ASSUME Quiet, NEW x \in Repos, Turn(x), PickKey(x)
    PROVE  Own(x)
<1>0. pc[x] = "pick key" /\ git'[x] = git[x]
    BY DEF PickKey
<1>1. PICK q \in Requests[x] : q = Req(x)
    BY <1>0, Underway
<1>2. /\ CommandOf(x, q) /\ q.cmd = "setup" /\ q.wizard /\ q.encryption \in {"age", "none"}
      /\ job \in [Repos -> Job] /\ job[x] \in Job
    <2>1. /\ CommandOf(x, q) /\ q.cmd \in {"setup", "clone", "push"} /\ job \in [Repos -> Job]
          /\ q.encryption \in {"age", "none"}
        BY <1>0, <1>1, Underway
    <2>2. QED
        BY <1>0, <2>1 DEF CommandOf, RouteInv, Routes, Saving
<1>3. job[x].cfg = None /\ RouteInv(x, q) /\ SaveInv(x, q)
    BY <1>0, <1>2 DEF CommandOf, RouteInv, Early
<1>4. PICK key \in identity[Home[x]] \cup Ssh[Home[x]] \cup {Generated(x)} :
        /\ identity' = [identity EXCEPT ![Home[x]] =
                          IF key \in Ssh[Home[x]] THEN @ ELSE @ \cup {key}]
        /\ job' = [job EXCEPT ![x].own = {key},
                              ![x].file = IF key \in Ssh[Home[x]] THEN key ELSE "default"]
    BY DEF PickKey
<1>5. /\ job'[x].endpoint = job[x].endpoint /\ job'[x].section = job[x].section
      /\ job'[x].cfg = None /\ job'[x].entered = job[x].entered /\ Req(x)' = Req(x)
      /\ job'[x].own = {key}
      /\ job'[x].file = IF key \in Ssh[Home[x]] THEN key ELSE "default"
    BY <1>2, <1>3, <1>4 DEF Job, Req
<1>6. PICK label \in {"set file", "confirm"} : Goto(x, label) /\ pc'[x] = label
    BY <1>0, Underway DEF PickKey, Goto
<1>7. SaveInv(x, q)'
    BY <1>0, <1>3, <1>5, <1>6 DEF SaveInv, Saving
<1>8. RouteInv(x, q)'
    BY <1>0, <1>2, <1>3, <1>5, <1>6 DEF RouteInv, Routes, Points, Early, Sole
<1>9. KeyInv(x, q)'
    <2>1. ASSUME q.encryption = "age"
          PROVE  /\ Chosen(q) = "default" /\ job'[x].file = "default"
                 /\ job'[x].own \subseteq identity'[Home[x]]
        <3>1. Ssh[Home[x]] = {} /\ Chosen(q) = "default"
            BY <1>0, <1>1, <1>2, <2>1, Underway DEF Keyed, Chosen
        <3>2. QED
            BY <1>0, <1>4, <1>5, <3>1, Underway
    <2>2. QED
        BY <1>2, <1>5, <1>6, <2>1 DEF KeyInv, Before, Early, Saving
<1>10. LateInv(x, q)'
    BY <1>5, <1>6 DEF LateInv, Late, Saving
<1>11. CommandOf(x, q)'
    BY <1>6, <1>7, <1>8, <1>9, <1>10, NotYet DEF CommandOf, Checked, OnKeyring
<1>12. QED
    BY <1>0, <1>1, <1>5, <1>6, <1>11, Moving DEF Window

(* A confirmed wizard saves the token it was given, or goes on. *)
LEMMA ConfirmReady ==
    ASSUME Quiet, NEW x \in Repos, Turn(x), Confirm(x)
    PROVE  Own(x)
<1>0. pc[x] = "confirm" /\ git'[x] = git[x]
    BY DEF Confirm, local
<1>1. PICK q \in Requests[x] : q = Req(x)
    BY <1>0, Underway
<1>2. /\ CommandOf(x, q) /\ q.cmd \in {"setup", "clone"} /\ q.encryption \in {"age", "none"}
      /\ job[x].cfg = None
    <2>1. /\ CommandOf(x, q) /\ q.cmd \in {"setup", "clone", "push"}
          /\ q.encryption \in {"age", "none"}
        BY <1>0, <1>1, Underway
    <2>2. QED
        BY <1>0, <2>1 DEF CommandOf, RouteInv, Routes
<1>3. SaveInv(x, q) /\ RouteInv(x, q) /\ KeyInv(x, q) /\ Grown /\ Home[x] \in Machines
    BY <1>0, <1>2, Underway, TurnKeeps DEF CommandOf
<1>4. CASE End(x, "aborted")
    BY <1>0, <1>4, Ending DEF Window
<1>5. CASE ~End(x, "aborted")
    <2> DEFINE label == IF job[x].entered THEN "read store" ELSE AfterWizard(x)
    <2>1. Goto(x, label) /\ job' = job /\ pc'[x] = label /\ Req(x)' = Req(x)
        BY <1>0, <1>5, Underway DEF Confirm, Continue, Goto, Req
    <2>2. \/ pc'[x] = "read store" /\ job[x].section = Meant(q)
          \/ pc'[x] = "ensure" /\ q.cmd = "clone"
          \/ pc'[x] = "set file" /\ q.cmd = "setup" /\ q.encryption = "age"
          \/ pc'[x] = "set url" /\ q.cmd = "setup" /\ q.encryption = "none"
        BY <1>0, <1>1, <1>2, <1>3, <2>1 DEF AfterWizard, SaveInv
    <2>3. SaveInv(x, q)'
        BY <2>1, <2>2 DEF SaveInv, Saving, Meant
    <2>4. RouteInv(x, q)'
        BY <1>0, <1>2, <1>3, <2>1, <2>2 DEF RouteInv, Routes, Points, Early, Saving, Sole
    <2>5. KeyInv(x, q)'
        BY <1>0, <1>2, <1>3, <2>1, <2>2 DEF KeyInv, Before, Early, Saving, Grown
    <2>6. LateInv(x, q)'
        BY <1>2, <2>1, <2>2 DEF LateInv, Late, Saving
    <2>7. CommandOf(x, q)'
        BY <2>2, <2>3, <2>4, <2>5, <2>6, NotYet DEF CommandOf, Checked, OnKeyring
    <2>8. QED
        BY <1>0, <1>1, <2>1, <2>7, Moving DEF Window
<1>6. QED
    BY <1>4, <1>5

(* The credentials file is read, then emptied: its tokens are kept in       *)
(* memory.                                                                  *)
LEMMA ReadReady ==
    ASSUME Quiet, NEW x \in Repos, Turn(x), ReadStore(x) \/ EmptyStore(x)
    PROVE  Own(x)
<1>0. pc[x] \in {"read store", "empty store"} /\ git'[x] = git[x]
    BY DEF ReadStore, EmptyStore, local
<1>1. PICK q \in Requests[x] : q = Req(x)
    BY <1>0, Underway
<1>2. /\ CommandOf(x, q) /\ q.cmd \in {"setup", "clone", "push"} /\ job \in [Repos -> Job]
      /\ job[x] \in Job /\ pc \in [Repos -> Points] /\ Home[x] \in Machines /\ Grown
    BY <1>0, <1>1, Underway, TurnKeeps
<1>3. /\ SaveInv(x, q) /\ RouteInv(x, q) /\ KeyInv(x, q) /\ LateInv(x, q)
      /\ q.cmd # "push"
    BY <1>0, <1>2 DEF CommandOf, RouteInv, Routes
<1>4. /\ job'[x].endpoint = job[x].endpoint /\ job'[x].section = job[x].section
      /\ job'[x].cfg = job[x].cfg /\ job'[x].entered = job[x].entered
      /\ job'[x].own = job[x].own /\ job'[x].file = job[x].file /\ Req(x)' = Req(x)
    <2>1. CASE ReadStore(x)
        <3>1. job' = [job EXCEPT ![x].sections = store[Home[x]]]
            BY <2>1 DEF ReadStore
        <3>2. QED
            BY <1>2, <3>1 DEF Job, Req
    <2>2. CASE EmptyStore(x)
        BY <2>2 DEF EmptyStore, Continue, Req
    <2>3. QED
        BY <2>1, <2>2
<1>5. PICK label \in {"empty store", "fill store"} :
        /\ Goto(x, label) /\ pc'[x] = label
        /\ label = "empty store" =>
             job'[x].sections = store[Home[x]] /\ store'[Home[x]] = store[Home[x]]
    <2>1. CASE ReadStore(x)
        BY <1>2, <2>1 DEF ReadStore, Goto, Job, local
    <2>2. CASE EmptyStore(x)
        BY <1>2, <2>2 DEF EmptyStore, Continue, Goto
    <2>3. QED
        BY <2>1, <2>2
<1>6. Tokens(Home[x])' = Tokens(Home[x])
    <2>1. ~FillStore(x)
        BY <1>0 DEF FillStore
    <2>2. QED
        BY <1>0, <1>2, <1>3, <2>1, TokensStep DEF SaveInv, Quiet, Turn, Good
<1>7. SaveInv(x, q)'
    BY <1>0, <1>3, <1>4, <1>5, <1>6 DEF SaveInv, Saving, Useless, Sole, Meant
<1>8. RouteInv(x, q)'
    BY <1>0, <1>2, <1>3, <1>4, <1>5 DEF RouteInv, Routes, Points, Early, Saving, Sole
<1>9. KeyInv(x, q)'
    BY <1>0, <1>2, <1>3, <1>4, <1>5 DEF KeyInv, Before, Early, Saving, Grown
<1>10. LateInv(x, q)'
    BY <1>0, <1>3, <1>4, <1>5 DEF LateInv, Late, Saving, Wanted, Req
<1>11. CommandOf(x, q)'
    BY <1>5, <1>7, <1>8, <1>9, <1>10, NotYet DEF CommandOf, Checked, OnKeyring
<1>12. QED
    BY <1>0, <1>1, <1>4, <1>5, <1>11, Moving DEF Window

(* The credentials file is written back with one more token. *)
LEMMA FillReady ==
    ASSUME Quiet, NEW x \in Repos, Turn(x), FillStore(x)
    PROVE  Own(x)
<1>0. pc[x] = "fill store" /\ git'[x] = git[x]
    BY DEF FillStore
<1>1. PICK q \in Requests[x] : q = Req(x)
    BY <1>0, Underway
<1>2. /\ CommandOf(x, q) /\ q.cmd \in {"setup", "clone", "push"}
      /\ q.encryption \in {"age", "none"} /\ Home[x] \in Machines /\ Grown
    BY <1>0, <1>1, Underway, TurnKeeps
<1>3. /\ RouteInv(x, q) /\ KeyInv(x, q) /\ LateInv(x, q)
      /\ q.cmd # "push"
    BY <1>0, <1>2 DEF CommandOf, RouteInv, Routes
<1>4. DEFINE label == IF job[x].cfg = None THEN AfterWizard(x) ELSE "load"
<1>5. Goto(x, label) /\ job' = job /\ pc'[x] = label /\ Req(x)' = Req(x)
    BY <1>0, Underway DEF FillStore, Continue, Goto, Req
<1>6. \/ pc'[x] = "load" /\ job[x].cfg # None
      \/ /\ job[x].cfg = None
         /\ \/ pc'[x] = "ensure" /\ q.cmd = "clone"
            \/ pc'[x] = "set file" /\ q.cmd = "setup" /\ q.encryption = "age"
            \/ pc'[x] = "set url" /\ q.cmd = "setup" /\ q.encryption = "none"
    BY <1>1, <1>2, <1>3, <1>5 DEF AfterWizard
<1>7. SaveInv(x, q)'
    BY <1>6 DEF SaveInv, Saving
<1>8. RouteInv(x, q)'
    BY <1>0, <1>2, <1>3, <1>5, <1>6 DEF RouteInv, Routes, Points, Early, Sole
<1>9. KeyInv(x, q)'
    BY <1>0, <1>2, <1>3, <1>5, <1>6 DEF KeyInv, Before, Early, Saving, Grown
<1>10. LateInv(x, q)'
    BY <1>0, <1>3, <1>5, <1>6 DEF LateInv, Late, Saving, Wanted, Req
<1>11. CommandOf(x, q)'
    BY <1>6, <1>7, <1>8, <1>9, <1>10, NotYet DEF CommandOf, Checked, OnKeyring
<1>12. QED
    BY <1>0, <1>1, <1>5, <1>11, Moving DEF Window

(* A command with flags takes the key file it is given, or the default one, *)
(* which it writes if there is none.                                        *)
LEMMA EnsureReady ==
    ASSUME Quiet, NEW x \in Repos, Turn(x),
           EnsureIdentity(x) \/ GenerateIdentity(x) \/ FillIdentity(x)
    PROVE  Own(x)
<1>0. pc[x] \in {"ensure", "generate", "fill file"} /\ git'[x] = git[x]
    BY DEF EnsureIdentity, GenerateIdentity, FillIdentity, local
<1>f. CASE End(x, "failed")
    BY <1>0, <1>f, Ending DEF Window
<1>g. CASE ~End(x, "failed")
    <2>1. PICK q \in Requests[x] : q = Req(x)
        BY <1>0, Underway
    <2>2. /\ CommandOf(x, q) /\ q.cmd \in {"setup", "clone"} /\ q.encryption \in {"age", "none"}
          /\ job \in [Repos -> Job] /\ job[x] \in Job /\ pc \in [Repos -> Points]
          /\ Home[x] \in Machines /\ Grown /\ identity \in [Machines -> SUBSET AgeKeys]
          /\ q.identity \in SshKeys \cup {None}
        <3>1. /\ CommandOf(x, q) /\ q.cmd \in {"setup", "clone", "push"} /\ job \in [Repos -> Job]
              /\ q.encryption \in {"age", "none"} /\ pc \in [Repos -> Points]
              /\ Home[x] \in Machines /\ Grown /\ identity \in [Machines -> SUBSET AgeKeys]
              /\ q.identity \in SshKeys \cup {None}
            BY <1>0, <2>1, Underway, TurnKeeps
        <3>2. QED
            BY <1>0, <3>1 DEF CommandOf, RouteInv, Routes, Saving
    <2>3. /\ RouteInv(x, q) /\ job[x].cfg = None
          /\ q.encryption = "age" => job[x].own = {} /\ job[x].file = "default"
          /\ q.cmd = "setup" => ~q.wizard
          /\ pc[x] \in Writing => q.identity = None
        BY <1>0, <2>2 DEF CommandOf, RouteInv, KeyInv, Before, Early, Writing
    <2>4. Chosen(q) = IF q.identity = None THEN "default" ELSE q.identity
        BY <2>2, <2>3 DEF Chosen
    <2>5. q.identity # "default" /\ None # "default"
        BY <2>2, SettingsAssumption DEF File
    <2>6. PICK label \in {"generate", "fill file", "load", "set file"} :
            /\ Goto(x, label) /\ pc'[x] = label /\ Req(x)' = Req(x)
            /\ job'[x].endpoint = job[x].endpoint /\ job'[x].cfg = None
            /\ label \in Writing => job' = job /\ q.identity = None
            /\ label = "load" => q.cmd = "clone"
            /\ label = "set file" => q.cmd = "setup"
            /\ label \notin Writing /\ q.encryption = "age" =>
                 /\ job'[x].file = Chosen(q)
                 /\ IF q.identity = None
                    THEN job'[x].own # {} /\ job'[x].own \subseteq identity'[Home[x]]
                    ELSE job'[x].own = {}
        <3> DEFINE label == IF q.cmd = "clone" THEN "load" ELSE "set file"
        <3>0. AfterEnsure(x) = label
            BY <2>1 DEF AfterEnsure
        <3>w. {"load", "set file"} \cap Writing = {} /\ {"generate", "fill file"} = Writing
            BY DEF Writing
        <3>1. CASE GenerateIdentity(x)
            <4>1. Continue(x, "fill file") /\ pc[x] \in Writing
                BY <3>1, <3>w DEF GenerateIdentity
            <4>2. /\ job' = job /\ Goto(x, "fill file") /\ pc'[x] = "fill file"
                  /\ Req(x)' = Req(x)
                BY <2>2, <4>1 DEF Continue, Goto, Req
            <4>3. QED
                BY <2>3, <3>w, <4>1, <4>2
        <3>5. CASE FillIdentity(x)
            <4>1. /\ job' = [job EXCEPT ![x].own = {Generated(x)}]
                  /\ identity' = [identity EXCEPT ![Home[x]] = {Generated(x)}]
                  /\ Goto(x, label) /\ pc[x] \in Writing
                BY <3>0, <3>5, <3>w DEF FillIdentity
            <4>2. /\ job'[x].endpoint = job[x].endpoint /\ job'[x].cfg = None /\ Req(x)' = Req(x)
                  /\ job'[x].file = job[x].file /\ job'[x].own = {Generated(x)}
                BY <2>2, <2>3, <4>1 DEF Job, Req
            <4>3. pc'[x] = label
                BY <2>2, <4>1 DEF Goto
            <4>4. job'[x].own \subseteq identity'[Home[x]]
                BY <2>2, <4>1, <4>2
            <4>5. QED
                BY <2>2, <2>3, <2>4, <3>w, <4>1, <4>2, <4>3, <4>4
        <3>2. CASE EnsureIdentity(x) /\ q.identity # None
            <4>1. job' = [job EXCEPT ![x].file = q.identity] /\ Goto(x, label)
                BY <2>1, <3>0, <3>2 DEF EnsureIdentity
            <4>2. /\ job'[x].endpoint = job[x].endpoint /\ job'[x].cfg = None /\ Req(x)' = Req(x)
                  /\ job'[x].file = q.identity /\ job'[x].own = job[x].own
                BY <2>2, <2>3, <4>1 DEF Job, Req
            <4>3. pc'[x] = label
                BY <2>2, <4>1 DEF Goto
            <4>4. QED
                BY <2>2, <2>3, <2>4, <3>2, <3>w, <4>1, <4>2, <4>3
        <3>3. CASE EnsureIdentity(x) /\ q.identity = None /\ identity[Home[x]] # {}
            <4>1. job' = [job EXCEPT ![x].own = identity[Home[x]]] /\ Goto(x, label)
                BY <2>1, <3>0, <3>3 DEF EnsureIdentity
            <4>2. /\ job'[x].endpoint = job[x].endpoint /\ job'[x].cfg = None /\ Req(x)' = Req(x)
                  /\ job'[x].file = job[x].file /\ job'[x].own = identity[Home[x]]
                BY <2>2, <2>3, <4>1 DEF Job, Req
            <4>3. pc'[x] = label /\ job'[x].own \subseteq identity'[Home[x]]
                BY <2>2, <4>1, <4>2 DEF Goto, Grown
            <4>4. QED
                BY <2>2, <2>3, <2>4, <3>3, <3>w, <4>1, <4>2, <4>3
        <3>4. CASE EnsureIdentity(x) /\ q.identity = None /\ identity[Home[x]] = {}
            <4>1. Continue(x, "generate")
                BY <1>g, <2>1, <3>4 DEF EnsureIdentity
            <4>2. job' = job /\ Goto(x, "generate") /\ pc'[x] = "generate" /\ Req(x)' = Req(x)
                BY <2>2, <4>1 DEF Continue, Goto, Req
            <4>3. QED
                BY <2>3, <3>4, <3>w, <4>2
        <3>6. QED
            BY <3>1, <3>2, <3>3, <3>4, <3>5
    <2>7. SaveInv(x, q)'
        BY <2>6 DEF SaveInv, Saving
    <2>8. RouteInv(x, q)'
        BY <1>0, <2>2, <2>3, <2>6 DEF RouteInv, Routes, Points, Early, Sole, Writing
    <2>9. KeyInv(x, q)'
        BY <2>2, <2>3, <2>4, <2>5, <2>6 DEF KeyInv, Before, Early, Saving, Writing
    <2>10. LateInv(x, q)'
        BY <2>6 DEF LateInv, Late, Saving
    <2>11. CommandOf(x, q)'
        BY <2>6, <2>7, <2>8, <2>9, <2>10, NotYet DEF CommandOf, Checked, OnKeyring
    <2>12. QED
        BY <1>0, <2>1, <2>6, <2>11, Moving DEF Window
<1>h. QED
    BY <1>f, <1>g

(* Knowing the endpoint too, a command finds the same backend. *)
LEMMA FoundByEndpoint ==
    ASSUME NEW r \in Repos, NEW q \in Requests[r], NEW token, NEW creds, NEW env, NEW e, NEW user,
           e \in {None, q.endpoint},
           Finds(token, creds, Lookup(env, None, user), Meant(q))
    PROVE  Finds(token, creds, Lookup(env, e, user), Meant(q))
<1>1. CASE e = None
    BY <1>1
<1>2. CASE e # None /\ env # None
    BY <1>2 DEF Lookup
<1>3. CASE e # None /\ env = None
    <2>1. Lookup(env, e, user) = q.endpoint /\ Meant(q).endpoint = q.endpoint
          /\ OrDefault(q.endpoint, Aws) = q.endpoint
        BY <1>3, Asked DEF Lookup, OrDefault
    <2>2. QED
        BY <2>1 DEF Finds
<1>4. QED
    BY <1>1, <1>2, <1>3

(* A setting that setup writes is the one the other requests ask for too. *)
LEMMA Setting ==
    ASSUME Quiet, NEW x \in Repos, Turn(x), NEW q \in Requests[x], Req(x) = q, q.cmd = "setup",
           pc[x] \in SettingUp, wish'[x] = wish[x], outcome'[x] # "pushed",
           pc'[x] # "idle" => Req(x)' = q,
           git'[x].bucket \in {git[x].bucket, q.bucket},
           git'[x].endpoint \in {git[x].endpoint, q.endpoint},
           \/ git'[x].encryption = git[x].encryption
           \/ git'[x].encryption = "none" /\ q.encryption = "none",
           \/ git'[x].file = git[x].file
           \/ git'[x].file # "default" /\ (q.encryption = "age" => git'[x].file = Chosen(q)),
           \/ /\ git'[x].recipients = git[x].recipients
              /\ ~Between(x) \/ q.encryption = "none"
           \/ /\ q.encryption = "age"
              /\ Between(x)' \/ KeysIn(Home[x], Chosen(q))' \cap git'[x].recipients # {}
              /\ Chosen(q) # "default" => git'[x].file = Chosen(q),
           git'[x].bucket # None /\ ~Sole(Home[x], q) /\ pc'[x] \notin Window =>
             git'[x].endpoint = q.endpoint
    PROVE  GitInv(x)' /\ WishInv(x)' /\ PushedInv(x)'
<1>0. pc[x] # "idle" /\ ~FillStore(x) /\ pc[x] # "empty store"
    BY DEF SettingUp, FillStore
<1>1. /\ GitInv(x) /\ Grown /\ WishInv(x) /\ Home[x] \in Machines
      /\ q.encryption \in {"age", "none"} /\ Moded(Home[x], q)
      /\ \A p \in Requests[x] : Compatible(p, q)
    <2>1. WishInv(x)
        BY DEF Turn, Good, ReadyInv
    <2>2. QED
        BY <1>0, <2>1, Underway, TurnKeeps
<1>2. Tokens(Home[x])' = Tokens(Home[x])
    BY <1>0, <1>1, TokensStep DEF Quiet, Turn, Good
<1>3. \A f : KeysIn(Home[x], f) \subseteq KeysIn(Home[x], f)'
    BY <1>1 DEF KeysIn, Grown
<1>4. \A p \in Requests[x] : slots[Meant(p)] \subseteq slots'[Meant(p)]
    BY <1>1, Asked DEF Grown
<1>5. GitInv(x)'
    <2>1. git'[x].file # "default"
        BY <1>1 DEF GitInv
    <2>2. ASSUME NEW p \in Requests[x]
          PROVE  /\ git'[x].bucket \in {None, p.bucket} /\ git'[x].endpoint \in {None, p.endpoint}
                 /\ git'[x].encryption # None => git'[x].encryption = "none" /\ p.encryption = "none"
                 /\ git'[x].bucket # None /\ ~Sole(Home[x], p) /\ pc'[x] \notin Window =>
                      git'[x].endpoint = p.endpoint
                 /\ git'[x].file # None =>
                      \/ p.encryption = "none"
                      \/ \E s \in Requests[x] : s.cmd = "setup" /\ Chosen(s) = git'[x].file
                      \/ git'[x].file \in slots'[Meant(p)]
        <3>1. p.bucket = q.bucket /\ p.endpoint = q.endpoint /\ p.encryption = q.encryption
            BY <1>1 DEF Compatible
        <3>2. Sole(Home[x], p) <=> Sole(Home[x], q)
            BY <3>1 DEF Sole
        <3>3. git'[x].file # None =>
                \/ p.encryption = "none"
                \/ \E s \in Requests[x] : s.cmd = "setup" /\ Chosen(s) = git'[x].file
                \/ git'[x].file \in slots'[Meant(p)]
            BY <1>1, <1>4, <3>1 DEF GitInv
        <3>4. QED
            BY <1>1, <3>1, <3>2, <3>3 DEF GitInv
    <2>3. git'[x].recipients # {} =>
            \E p \in Requests[x] :
              /\ p.cmd = "setup" /\ p.encryption = "age"
              /\ Between(x)' \/ KeysIn(Home[x], Chosen(p))' \cap git'[x].recipients # {}
              /\ Chosen(p) # "default" => git'[x].file = Chosen(p)
        <3>1. CASE /\ q.encryption = "age"
                   /\ Between(x)' \/ KeysIn(Home[x], Chosen(q))' \cap git'[x].recipients # {}
                   /\ Chosen(q) # "default" => git'[x].file = Chosen(q)
            BY <3>1
        <3>2. CASE /\ git'[x].recipients = git[x].recipients /\ git[x].recipients # {}
                   /\ ~Between(x) \/ q.encryption = "none"
            <4>1. PICK p \in Requests[x] :
                    /\ p.cmd = "setup" /\ p.encryption = "age"
                    /\ Between(x) \/ KeysIn(Home[x], Chosen(p)) \cap git[x].recipients # {}
                    /\ Chosen(p) # "default" => git[x].file = Chosen(p)
                BY <1>1, <3>2 DEF GitInv
            <4>2. Chosen(p) = Chosen(q) /\ q.encryption = "age"
                BY <1>1, <4>1 DEF Compatible
            <4>3. QED
                BY <1>3, <3>2, <4>1, <4>2
        <3>3. QED
            BY <3>1, <3>2
    <2>4. QED
        BY <2>1, <2>2, <2>3 DEF GitInv
<1>6. ASSUME wish[x] = q
      PROVE  /\ Serves(x, q)' /\ ModeOf(x)' = q.encryption
             /\ q.encryption = "age" /\ Chosen(q) # "default" => git'[x].file = Chosen(q)
    <2>1. /\ Serves(x, q) /\ ModeOf(x) = q.encryption
          /\ q.encryption = "age" /\ Chosen(q) # "default" => git[x].file = Chosen(q)
        BY <1>1, <1>6 DEF WishInv
    <2>2. Found(Home[x], q, Configured(x))'
        <3>1. Found(Home[x], q, Configured(x)) /\ git[x].endpoint \in {None, q.endpoint}
            BY <1>1, <2>1 DEF Serves, GitInv
        <3>2. Finds(EnvToken[Home[x]], Tokens(Home[x]), Configured(x)', Meant(q))
            <4>1. CASE git'[x].endpoint = git[x].endpoint
                BY <3>1, <4>1 DEF Found, Configured
            <4>2. CASE git'[x].endpoint # git[x].endpoint
                <5>1. git[x].endpoint = None /\ git'[x].endpoint = q.endpoint
                    BY <3>1, <4>2
                <5>2. QED
                    BY <3>1, <5>1, FoundByEndpoint DEF Found, Configured
            <4>3. QED
                BY <4>1, <4>2
        <3>3. QED
            BY <1>2, <3>2 DEF Found, Meant
    <2>3. ModeOf(x)' = q.encryption
        BY <1>1, <2>1, SettingsAssumption DEF ModeOf, Moded, Lookup, OrDefault, Modes
    <2>4. git[x].file # "default" /\ git'[x].file # "default"
        BY <1>1, <1>5 DEF GitInv
    <2>5. q.encryption = "age" => FileOf(x)' = FileOf(x)
        BY <2>1, <2>4 DEF FileOf
    <2>6. q.encryption = "age" => Opening(x, q)'
        <3>1. q.encryption = "age" => Opening(x, q)
            BY <2>1 DEF Serves
        <3>2. QED
            BY <1>3, <1>4, <2>5, <3>1 DEF Opening, Meant
    <2>7. git'[x].bucket = q.bucket
        BY <2>1 DEF Serves
    <2>8. QED
        BY <1>1, <2>1, <2>2, <2>3, <2>4, <2>6, <2>7 DEF Serves
<1>7. WishInv(x)'
    <2>1. \A p \in Requests[x] : wish[x] = p => p = q
        BY <1>0, <1>1 DEF WishInv
    <2>2. QED
        BY <1>1, <1>6, <2>1 DEF WishInv
<1>8. QED
    BY <1>5, <1>7 DEF PushedInv

(* What setup keeps while it writes the configuration. *)
LEMMA SetStep ==
    ASSUME Quiet, NEW x \in Repos, Turn(x), NEW q \in Requests[x], Req(x) = q,
           pc[x] \in SettingUp, pc'[x] \in {"set url", "set endpoint", "set mode", "load"},
           job' = job, identity' = identity,
           git'[x].endpoint = git[x].endpoint \/ job[x].endpoint = q.endpoint,
           q.encryption = "age" => Wanted(x) # {} /\ (Chosen(q) # "default" => git'[x].file = Chosen(q)),
           q.encryption = "none" /\ (pc'[x] = "load" \/ job[x].cfg # None) =>
             git'[x].encryption = "none"
    PROVE  CommandOf(x, q)'
<1>0. pc[x] # "idle"
    BY DEF SettingUp
<1>1. CommandOf(x, q) /\ q.cmd \in {"setup", "clone", "push"}
    BY <1>0, Underway
<1>2. RouteInv(x, q) /\ KeyInv(x, q) /\ q.cmd = "setup"
    BY <1>1 DEF CommandOf, RouteInv, Routes, SettingUp, Saving
<1>3. SaveInv(x, q)'
    BY DEF SaveInv, Saving
<1>4. RouteInv(x, q)'
    BY <1>2 DEF RouteInv, Routes, Points, Early, SettingUp, Sole
<1>5. KeyInv(x, q)'
    BY <1>2 DEF KeyInv, Before, Early, Saving, SettingUp
<1>6. LateInv(x, q)'
    BY DEF LateInv, Late, Wanted, Req
<1>7. QED
    BY <1>3, <1>4, <1>5, <1>6, NotYet DEF CommandOf, Checked, OnKeyring

(* The key file is configured, or left as it is if it is the default one. *)
LEMMA SetFileReady ==
    ASSUME Quiet, NEW x \in Repos, Turn(x), SetFile(x)
    PROVE  Own(x)
<1>0. pc[x] = "set file" /\ pc[x] # "idle" /\ pc[x] \in SettingUp
    BY DEF SetFile, SettingUp
<1>1. PICK q \in Requests[x] : q = Req(x)
    BY <1>0, Underway
<1>2. /\ q.cmd = "setup" /\ (q.encryption = "age" => job[x].file = Chosen(q))
      /\ git \in [Repos -> Remote] /\ pc \in [Repos -> Points] /\ outcome[x] # "pushed"
      /\ q.encryption \in {"age", "none"}
      /\ q.encryption = "none" /\ job[x].cfg # None => git[x].encryption = "none"
    BY <1>0, <1>1, SetBegins
<1>3. git'[x] = [git[x] EXCEPT !.file = IF job[x].file = "default" THEN @ ELSE job[x].file]
    BY <1>2 DEF SetFile
<1>4. /\ git'[x].bucket = git[x].bucket /\ git'[x].endpoint = git[x].endpoint
      /\ git'[x].encryption = git[x].encryption /\ git'[x].recipients = git[x].recipients
      /\ git'[x].file = IF job[x].file = "default" THEN git[x].file ELSE job[x].file
    <2>1. git[x] \in Remote
        BY <1>2
    <2>2. QED
        BY <1>3, <2>1 DEF Remote
<1>5. git'[x].bucket # None /\ ~Sole(Home[x], q) => git'[x].endpoint = q.endpoint
    BY <1>0, <1>1, <1>4, Underway DEF GitInv, Window
<1>6. CASE Wanted(x) = {}
    <2>1. /\ pc'[x] = "idle" /\ outcome'[x] = "failed" /\ wish'[x] = wish[x]
        BY <1>2, <1>6 DEF SetFile, End, Turn, Good, TypeInv, TypeOK
    <2>2. GitInv(x)' /\ WishInv(x)' /\ PushedInv(x)'
        BY <1>0, <1>1, <1>2, <1>4, <1>5, <2>1, Setting DEF Between
    <2>3. QED
        BY <2>1, <2>2 DEF Own, CommandInv
<1>7. CASE Wanted(x) # {}
    <2>1. /\ pc'[x] = "set url" /\ job' = job /\ outcome'[x] = outcome[x] /\ wish'[x] = wish[x]
          /\ Req(x)' = q /\ identity' = identity
        BY <1>1, <1>2, <1>7 DEF SetFile, Continue, Goto, Req
    <2>2. GitInv(x)' /\ WishInv(x)' /\ PushedInv(x)'
        BY <1>0, <1>1, <1>2, <1>4, <1>5, <2>1, Setting DEF Between
    <2>3. CommandOf(x, q)'
        BY <1>0, <1>1, <1>2, <1>4, <1>7, <2>1, SetStep
    <2>4. QED
        BY <2>1, <2>2, <2>3 DEF Own, CommandInv
<1>8. QED
    BY <1>6, <1>7

(* The bucket is set, and with it where the repository leads. *)
LEMMA SetURLReady ==
    ASSUME Quiet, NEW x \in Repos, Turn(x), SetURL(x)
    PROVE  Own(x)
<1>0. pc[x] = "set url" /\ pc[x] # "idle" /\ pc[x] \in SettingUp
    BY DEF SetURL, SettingUp
<1>1. PICK q \in Requests[x] : q = Req(x)
    BY <1>0, Underway
<1>2. /\ q.cmd = "setup" /\ q.encryption \in {"age", "none"}
      /\ git \in [Repos -> Remote] /\ pc \in [Repos -> Points] /\ outcome[x] # "pushed"
      /\ q.encryption = "age" =>
           Wanted(x) # {} /\ (Chosen(q) # "default" => git[x].file = Chosen(q))
      /\ q.encryption = "none" /\ job[x].cfg # None => git[x].encryption = "none"
    BY <1>0, <1>1, SetBegins
<1>3. git'[x] = [git[x] EXCEPT !.bucket = q.bucket]
    BY <1>1, <1>2 DEF SetURL
<1>4. /\ git'[x].bucket = q.bucket /\ git'[x].endpoint = git[x].endpoint
      /\ git'[x].encryption = git[x].encryption /\ git'[x].recipients = git[x].recipients
      /\ git'[x].file = git[x].file
    <2>1. git[x] \in Remote
        BY <1>2
    <2>2. QED
        BY <1>3, <2>1 DEF Remote
<1>5. /\ pc'[x] = "set endpoint" /\ pc'[x] \in Window /\ job' = job /\ outcome'[x] = outcome[x]
      /\ wish'[x] = wish[x] /\ Req(x)' = q /\ identity' = identity
    BY <1>1, <1>2 DEF SetURL, Continue, Goto, Req, Window
<1>6. GitInv(x)' /\ WishInv(x)' /\ PushedInv(x)'
    BY <1>0, <1>1, <1>2, <1>4, <1>5, Setting DEF Between
<1>7. CommandOf(x, q)'
    BY <1>0, <1>1, <1>2, <1>4, <1>5, SetStep
<1>8. QED
    BY <1>5, <1>6, <1>7 DEF Own, CommandInv

(* The endpoint is set, which tells two backends with one bucket name       *)
(* apart.                                                                   *)
LEMMA SetEndpointReady ==
    ASSUME Quiet, NEW x \in Repos, Turn(x), SetEndpoint(x)
    PROVE  Own(x)
<1>0. pc[x] = "set endpoint" /\ pc[x] # "idle" /\ pc[x] \in SettingUp
    BY DEF SetEndpoint, SettingUp
<1>1. PICK q \in Requests[x] : q = Req(x)
    BY <1>0, Underway
<1>2. /\ q.cmd = "setup" /\ q.encryption \in {"age", "none"}
      /\ job[x].endpoint = q.endpoint \/ job[x].endpoint = None
      /\ git \in [Repos -> Remote] /\ pc \in [Repos -> Points] /\ outcome[x] # "pushed"
      /\ q.encryption = "age" =>
           Wanted(x) # {} /\ (Chosen(q) # "default" => git[x].file = Chosen(q))
      /\ q.encryption = "none" /\ job[x].cfg # None => git[x].encryption = "none"
    BY <1>0, <1>1, SetBegins
<1>3. git'[x] = [git[x] EXCEPT !.endpoint = IF job[x].endpoint = None THEN @ ELSE job[x].endpoint]
    BY <1>2 DEF SetEndpoint
<1>4. /\ git'[x].bucket = git[x].bucket /\ git'[x].recipients = git[x].recipients
      /\ git'[x].endpoint = IF job[x].endpoint = None THEN git[x].endpoint ELSE job[x].endpoint
      /\ git'[x].encryption = git[x].encryption /\ git'[x].file = git[x].file
    <2>1. git[x] \in Remote
        BY <1>2
    <2>2. QED
        BY <1>3, <2>1 DEF Remote
<1>5. /\ pc'[x] = "set mode" /\ job' = job /\ outcome'[x] = outcome[x]
      /\ wish'[x] = wish[x] /\ Req(x)' = q /\ identity' = identity
    BY <1>1, <1>2 DEF SetEndpoint, Continue, Goto, Req
<1>6. ~Sole(Home[x], q) => git'[x].endpoint = q.endpoint
    <2>1. RouteInv(x, q) /\ Backed(Home[x], q)
        BY <1>0, <1>1, Underway DEF CommandOf
    <2>2. QED
        BY <1>4, <2>1 DEF RouteInv, Backed, Qualified
<1>7. GitInv(x)' /\ WishInv(x)' /\ PushedInv(x)'
    BY <1>0, <1>1, <1>2, <1>4, <1>5, <1>6, Setting DEF Between
<1>8. CommandOf(x, q)'
    BY <1>0, <1>1, <1>2, <1>4, <1>5, SetStep
<1>9. QED
    BY <1>5, <1>7, <1>8 DEF Own, CommandInv

(* Where the configuration goes on from its last setting, or ends. *)
LEMMA AfterSettingsReady ==
    ASSUME Quiet, NEW x \in Repos, Turn(x), NEW q \in Requests[x], Req(x) = q,
           pc[x] = "set mode", AfterSettings(x), identity' = identity,
           git'[x].endpoint = git[x].endpoint, git'[x].file = git[x].file,
           q.encryption = "none" => git'[x].encryption = "none"
    PROVE  CommandInv(x)' /\ pc'[x] \in {"idle", "load"} /\ (pc'[x] # "idle" => Req(x)' = q)
<1>0. pc[x] # "idle" /\ pc[x] # "set file" /\ pc[x] \in SettingUp
    BY DEF SettingUp
<1>1. /\ q.cmd = "setup" /\ pc \in [Repos -> Points]
      /\ q.encryption = "age" =>
           Wanted(x) # {} /\ (Chosen(q) # "default" => git[x].file = Chosen(q))
    BY <1>0, SetBegins
<1>2. CASE pc'[x] = "idle"
    BY <1>2 DEF CommandInv
<1>3. CASE pc'[x] # "idle"
    <2>1. pc'[x] = "load" /\ job' = job /\ Req(x)' = q
        BY <1>1, <1>3 DEF AfterSettings, Continue, Goto, End, Req
    <2>2. CommandOf(x, q)'
        BY <1>0, <1>1, <2>1, SetStep
    <2>3. QED
        BY <2>1, <2>2 DEF CommandInv
<1>4. QED
    BY <1>2, <1>3

(* Plaintext is configured. *)
LEMMA SetModeReady ==
    ASSUME Quiet, NEW x \in Repos, Turn(x), SetMode(x)
    PROVE  Own(x)
<1>0. pc[x] = "set mode" /\ pc[x] # "idle" /\ pc[x] \in SettingUp
    BY DEF SetMode, SettingUp
<1>1. PICK q \in Requests[x] : q = Req(x)
    BY <1>0, Underway
<1>2. /\ q.cmd = "setup" /\ q.encryption = "none"
      /\ git \in [Repos -> Remote] /\ pc \in [Repos -> Points] /\ outcome[x] # "pushed"
    BY <1>0, <1>1, SetBegins DEF SetMode
<1>3. git'[x] = [git[x] EXCEPT !.encryption = "none"]
    BY <1>2 DEF SetMode
<1>4. /\ git'[x].bucket = git[x].bucket /\ git'[x].endpoint = git[x].endpoint
      /\ git'[x].file = git[x].file /\ git'[x].recipients = git[x].recipients
      /\ git'[x].encryption = "none"
    <2>1. git[x] \in Remote
        BY <1>2
    <2>2. QED
        BY <1>3, <2>1 DEF Remote
<1>5. identity' = identity /\ wish'[x] = wish[x] /\ outcome'[x] # "pushed"
    BY <1>2 DEF SetMode, AfterSettings, Continue, Goto, End, Turn, Good, TypeInv, TypeOK
<1>6. CommandInv(x)' /\ pc'[x] \in {"idle", "load"} /\ (pc'[x] # "idle" => Req(x)' = q)
    BY <1>0, <1>1, <1>4, <1>5, AfterSettingsReady DEF SetMode
<1>7. git'[x].bucket # None /\ ~Sole(Home[x], q) => git'[x].endpoint = q.endpoint
    BY <1>0, <1>1, <1>4, Underway DEF GitInv, Window
<1>8. GitInv(x)' /\ WishInv(x)' /\ PushedInv(x)'
    BY <1>0, <1>1, <1>2, <1>4, <1>5, <1>6, <1>7, Setting
<1>9. QED
    BY <1>6, <1>8 DEF Own

(* The recipient that is added first is a key of the repository's, if a     *)
(* kill may come before the next.                                          *)
LEMMA FirstOpens ==
    ASSUME Quiet, NEW x \in Repos, Turn(x), NEW q \in Requests[x], Req(x) = q,
           pc[x] = "set mode", ~Between(x), NEW key \in NextListed(x),
           git[x].recipients = {}, q.encryption = "age"
    PROVE  key \in KeysIn(Home[x], Chosen(q))
<1>0. pc[x] # "idle" /\ pc[x] # "set file" /\ pc[x] \in SettingUp /\ "set mode" \in Killable
    BY DEF SettingUp, Between
<1>1. /\ q.cmd = "setup" /\ ~Before(x, q) /\ Wanted(x) # {} /\ Keyed(Home[x], q)
      /\ KeyInv(x, q)
    BY <1>0, SetBegins, Underway DEF CommandOf
<1>2. key \in Wanted(x) /\ (job[x].own # {} => key \in job[x].own)
    BY DEF NextListed, Unlisted, Wanted
<1>3. CASE Chosen(q) = "default"
    BY <1>1, <1>2, <1>3 DEF KeyInv, KeysIn
<1>4. CASE Chosen(q) # "default"
    <2>1. job[x].own = {} /\ Chosen(q) = q.identity /\ KeysIn(Home[x], Chosen(q)) = {q.identity}
        BY <1>1, <1>4 DEF KeyInv, Chosen, KeysIn
    <2>2. q.extra \subseteq {q.identity}
        BY <1>0, <1>1, <1>4 DEF Keyed
    <2>3. QED
        BY <1>2, <2>1, <2>2 DEF Wanted
<1>5. QED
    BY <1>3, <1>4

(* A recipient is added to the others. *)
LEMMA AddRecipientReady ==
    ASSUME Quiet, NEW x \in Repos, Turn(x), NEW key \in PublicKeys, AddRecipient(x, key)
    PROVE  Own(x)
<1>0. pc[x] = "set mode" /\ pc[x] # "idle" /\ pc[x] \in SettingUp
    BY DEF AddRecipient, SettingUp
<1>1. PICK q \in Requests[x] : q = Req(x)
    BY <1>0, Underway
<1>2. /\ q.cmd = "setup" /\ q.encryption = "age" /\ job[x].cfg \in Resolved \cup {None}
      /\ git \in [Repos -> Remote] /\ pc \in [Repos -> Points] /\ outcome[x] # "pushed"
      /\ Wanted(x) # {} /\ (Chosen(q) # "default" => git[x].file = Chosen(q))
    <2>1. job[x] \in Job
        BY DEF Turn, Good, TypeInv, TypeOK
    <2>2. QED
        BY <1>0, <1>1, <2>1, SetBegins DEF AddRecipient, Job
<1>3. git'[x] = [git[x] EXCEPT !.recipients = @ \cup {key}]
    BY <1>2 DEF AddRecipient
<1>4. /\ git'[x].bucket = git[x].bucket /\ git'[x].endpoint = git[x].endpoint
      /\ git'[x].file = git[x].file /\ git'[x].encryption = git[x].encryption
      /\ git'[x].recipients = git[x].recipients \cup {key}
    <2>1. git[x] \in Remote
        BY <1>2
    <2>2. QED
        BY <1>3, <2>1 DEF Remote
<1>5. /\ pc'[x] = "set mode" /\ job' = job /\ outcome'[x] = outcome[x]
      /\ wish'[x] = wish[x] /\ Req(x)' = q /\ identity' = identity
    BY <1>1, <1>2 DEF AddRecipient, Continue, Goto, Req
<1>6. git'[x].bucket # None /\ ~Sole(Home[x], q) => git'[x].endpoint = q.endpoint
    BY <1>0, <1>1, <1>4, Underway DEF GitInv, Window
<1>7. Between(x)' \/ KeysIn(Home[x], Chosen(q))' \cap git'[x].recipients # {}
    <2>1. SUFFICES ASSUME ~Between(x)
                   PROVE  KeysIn(Home[x], Chosen(q)) \cap git'[x].recipients # {}
        BY <1>0, <1>5 DEF Between, KeysIn
    <2>2. CASE git[x].recipients = {}
        BY <1>0, <1>1, <1>2, <1>4, <2>1, <2>2, FirstOpens DEF AddRecipient
    <2>3. CASE git[x].recipients # {}
        <3>1. PICK p \in Requests[x] :
                /\ p.cmd = "setup" /\ p.encryption = "age"
                /\ KeysIn(Home[x], Chosen(p)) \cap git[x].recipients # {}
            BY <1>0, <2>1, <2>3, Underway DEF GitInv
        <3>2. Chosen(p) = Chosen(q)
            BY <1>0, <1>1, <1>2, <3>1, Underway DEF Compatible
        <3>3. QED
            BY <1>4, <3>1, <3>2
    <2>4. QED
        BY <2>2, <2>3
<1>8. GitInv(x)' /\ WishInv(x)' /\ PushedInv(x)'
    BY <1>0, <1>1, <1>2, <1>4, <1>5, <1>6, <1>7, Setting
<1>9. CommandOf(x, q)'
    BY <1>0, <1>1, <1>2, <1>4, <1>5, SetStep
<1>10. QED
    BY <1>5, <1>8, <1>9 DEF Own, CommandInv

(* All recipients are there. *)
LEMMA AllListedReady ==
    ASSUME Quiet, NEW x \in Repos, Turn(x), AllListed(x)
    PROVE  Own(x)
<1>0. /\ pc[x] = "set mode" /\ pc[x] # "idle" /\ pc[x] \notin Window /\ git'[x] = git[x]
      /\ identity' = identity
    BY DEF AllListed, Window, local
<1>1. PICK q \in Requests[x] : q = Req(x)
    BY <1>0, Underway
<1>2. CommandInv(x)' /\ (pc'[x] # "idle" => Req(x)' = q)
    BY <1>0, <1>1, AfterSettingsReady DEF AllListed
<1>3. CASE End(x, "unverified")
    BY <1>0, <1>3, Ending
<1>4. CASE Continue(x, "load")
    <2>1. Goto(x, "load") /\ Req(x)' = Req(x) /\ pc'[x] # "idle"
        BY <1>0, <1>4, Underway DEF Continue, Goto, Req
    <2>2. CommandOf(x, q)'
        BY <1>1, <1>2, <2>1 DEF CommandInv
    <2>3. QED
        BY <1>0, <1>1, <2>1, <2>2, Moving
<1>5. QED
    BY <1>3, <1>4 DEF AllListed, AfterSettings

(* Nobody rewrites the credentials file while a command reads it. *)
LEMMA StoreAtRest ==
    ASSUME Good, NEW x \in Repos, pc[x] \notin {"idle", "fill store"}
    PROVE  Tokens(Home[x]) = store[Home[x]]
<1>1. ~Rewriting(Home[x])
    BY DEF Good, OwnFile, Rewriting
<1>2. QED
    BY <1>1 DEF Tokens

(* The endpoint that is looked up is the one that is meant, or no other     *)
(* backend of the machine bears the bucket's name.                         *)
LEMMA LookedFor ==
    ASSUME Quiet, NEW x \in Repos, Turn(x), NEW q \in Requests[x], Req(x) = q, pc[x] = "load",
           q.cmd # "clone" => git[x].bucket = q.bucket
    PROVE  /\ Looked(x, q) \in Endpoints \cup {None}
           /\ ~Sole(Home[x], q) => Looked(x, q) = Meant(q).endpoint
           /\ \/ Looked(x, q) \in {None, Meant(q).endpoint}
              \/ Env[Home[x]].endpoint # None
              \/ Global[Home[x]].endpoint # None
<1>1. /\ RouteInv(x, q) /\ GitInv(x) /\ Backed(Home[x], q) /\ Home[x] \in Machines
      /\ q.bucket \in Buckets /\ q.endpoint \in Endpoints \cup {None}
      /\ job \in [Repos -> Job] /\ git \in [Repos -> Remote]
    <2>1. /\ CommandOf(x, q) /\ GitInv(x) /\ Backed(Home[x], q) /\ Home[x] \in Machines
          /\ q \in Request /\ job \in [Repos -> Job] /\ git \in [Repos -> Remote]
        BY Underway
    <2>2. QED
        BY <2>1 DEF CommandOf, Request
<1>2. /\ Env[Home[x]].endpoint \in Endpoints \cup {None}
      /\ Global[Home[x]].endpoint \in Endpoints \cup {None}
      /\ job[x].endpoint \in Endpoints \cup {None} /\ git[x].endpoint \in Endpoints \cup {None}
    BY <1>1, OnboardingAssumption DEF Source, Job, Remote
<1>3. q.endpoint # None => Meant(q).endpoint = q.endpoint
    BY Asked DEF OrDefault
<1>4. CASE q.cmd = "clone"
    <2>1. job[x].endpoint = q.endpoint
        BY <1>1, <1>4 DEF RouteInv
    <2>2. QED
        BY <1>1, <1>2, <1>3, <1>4, <2>1 DEF Looked, Lookup, OrDefault, Backed, Qualified
<1>5. CASE q.cmd # "clone"
    <2>1. git[x].bucket # None
        BY <1>1, <1>5, SettingsAssumption
    <2>2. /\ git[x].endpoint \in {None, q.endpoint}
          /\ ~Sole(Home[x], q) => git[x].endpoint = q.endpoint
        BY <1>1, <2>1 DEF GitInv, Window
    <2>3. QED
        BY <1>1, <1>2, <1>3, <1>5, <2>2 DEF Looked, Configured, Lookup, Backed, Qualified
<1>6. QED
    BY <1>4, <1>5

(* A configuration that reaches a backend reaches the one that is meant;    *)
(* without a token, the one asked for is saved where it belongs.           *)
LEMMA Loading ==
    ASSUME Quiet, NEW x \in Repos, Turn(x), NEW q \in Requests[x], Req(x) = q, pc[x] = "load",
           q.cmd # "clone" => git[x].bucket = q.bucket, NEW env, NEW repo, NEW cfg,
           cfg = Load(env, EnvToken[Home[x]], repo, Global[Home[x]], q.bucket, store[Home[x]]),
           Lookup(env.endpoint, repo.endpoint, Global[Home[x]].endpoint) = Looked(x, q)
    PROVE  /\ Reachable(cfg) => Found(Home[x], q, Looked(x, q)) /\ cfg.endpoint = Meant(q).endpoint
           /\ cfg.token = None => \/ [endpoint |-> cfg.endpoint, bucket |-> q.bucket] = Meant(q)
                                  \/ Useless(Home[x], q)
<1> DEFINE m == Home[x]
<1>1. /\ m \in Machines /\ EnvToken[m] \in Token /\ store[m] \in Credentials
      /\ Meant(q) \in Backend /\ Meant(q).bucket = q.bucket /\ Backed(m, q)
      /\ Meant(q).endpoint = OrDefault(q.endpoint, Aws)
    BY Underway, Asked, OnboardingAssumption
<1>2. Tokens(m) = store[m]
    BY StoreAtRest DEF Turn
<1>3. TokenInv
    BY DEF Turn, Good, ReadyInv
<1>4. /\ IsFiniteSet(Complete(store[m])) /\ store[m][Meant(q)] \in {None, Meant(q)}
      /\ Sole(m, q) => \A y \in Backend : y.bucket = Meant(q).bucket => store[m][y] \in {None, Meant(q)}
    BY <1>1, <1>2, <1>3 DEF TokenInv
<1>5. /\ Looked(x, q) \in Endpoints \cup {None}
      /\ ~Sole(m, q) => Looked(x, q) = Meant(q).endpoint
      /\ Looked(x, q) \in {None, Meant(q).endpoint} \/ Env[m].endpoint # None \/ Global[m].endpoint # None
    BY LookedFor
<1>6. Sole(m, q) /\ EnvToken[m] # None /\ EnvToken[m].bucket = Meant(q).bucket => EnvToken[m] = Meant(q)
    BY <1>1 DEF Backed
<1>7. ASSUME Reachable(cfg)
      PROVE  Found(m, q, Looked(x, q)) /\ cfg.endpoint = Meant(q).endpoint
    <2> DEFINE e == Lookup(env.endpoint, repo.endpoint, Global[m].endpoint)
    <2>1. /\ e \in Endpoints \cup {None}
          /\ \/ e = Meant(q).endpoint
             \/ /\ \A y \in Backend : y.bucket = q.bucket => store[m][y] \in {None, Meant(q)}
                /\ EnvToken[m] # None /\ EnvToken[m].bucket = q.bucket => EnvToken[m] = Meant(q)
        BY <1>1, <1>4, <1>5, <1>6
    <2>2. Finds(EnvToken[m], store[m], e, Meant(q))
        BY <1>1, <1>4, <1>7, <2>1, LoadedIsFound
    <2>3. cfg.endpoint = Meant(q).endpoint
        <3>1. Reaches(cfg, Meant(q))
            BY <1>1, <1>4, <2>2, FoundIsLoaded
        <3>2. QED
            BY <3>1 DEF Reaches
    <2>4. QED
        BY <1>2, <2>2, <2>3 DEF Found
<1>8. ASSUME cfg.token = None, [endpoint |-> cfg.endpoint, bucket |-> q.bucket] # Meant(q)
      PROVE  Useless(m, q)
    <2>1. /\ cfg.endpoint = OrDefault(Looked(x, q), Aws)
          /\ \A y : Matches(store[m], Looked(x, q), q.bucket) # {y}
        <3>1. ~Known(store[m], Looked(x, q), q.bucket)
            BY <1>4, <1>8, NothingFound
        <3>2. \A y : Matches(store[m], Looked(x, q), q.bucket) # {y}
            BY <1>4, <3>1, KnownOne DEF Matches
        <3>3. cfg.endpoint = OrDefault(Looked(x, q), Aws)
            BY <1>4, <1>8, NothingFound
        <3>4. QED
            BY <3>2, <3>3
    <2>2. cfg.endpoint # Meant(q).endpoint
        BY <1>1, <1>8 DEF Backend
    <2>3. Meant(q).endpoint # None
        BY <1>1, SettingsAssumption DEF Backend
    <2>4. Looked(x, q) # Meant(q).endpoint
        BY <2>1, <2>2, <2>3 DEF OrDefault
    <2>5. QED
        BY <1>2, <1>5, <2>1, <2>4 DEF Useless
<1>9. QED
    BY <1>7, <1>8

(* What the loaded configuration says, wherever it comes from. *)
LEMMA LoadedSays ==
    ASSUME Quiet, NEW x \in Repos, Turn(x), NEW q \in Requests[x], Req(x) = q, pc[x] = "load"
    PROVE  /\ Loaded(x) \in Resolved /\ Loaded(x).bucket = q.bucket
           /\ Reachable(Loaded(x)) =>
                Found(Home[x], q, Looked(x, q)) /\ Loaded(x).endpoint = Meant(q).endpoint
           /\ Loaded(x).token = None =>
                \/ [endpoint |-> Loaded(x).endpoint, bucket |-> q.bucket] = Meant(q)
                \/ Useless(Home[x], q)
           /\ q.cmd = "push" => Loaded(x).encryption = ModeOf(x) /\ Loaded(x).file = FileOf(x)
           /\ q.cmd = "clone" => Loaded(x).encryption = q.encryption
<1> DEFINE m == Home[x]
           env == IF q.cmd = "clone" THEN CloneEnv(x) ELSE Env[m]
           repo == IF q.cmd = "clone" THEN NoSource ELSE git[x]
           cfg == Load(env, EnvToken[m], repo, Global[m], q.bucket, store[m])
<1>1. Loaded(x) \in Resolved
    BY LoadedType DEF Turn, Good
<1>2. q.cmd # "clone" => git[x].bucket = q.bucket
    <2>1. q.cmd \in {"setup", "clone", "push"}
        BY Underway
    <2>2. QED
        BY <2>1 DEF Turn, Good, TypeInv, JobInv
<1>3. Loaded(x) = cfg
    BY <1>2 DEF Loaded, Session
<1>4. Lookup(env.endpoint, repo.endpoint, Global[m].endpoint) = Looked(x, q)
    BY DEF Looked, Configured, CloneEnv, NoSource
<1>5. /\ Reachable(cfg) => Found(m, q, Looked(x, q)) /\ cfg.endpoint = Meant(q).endpoint
      /\ cfg.token = None => \/ [endpoint |-> cfg.endpoint, bucket |-> q.bucket] = Meant(q)
                             \/ Useless(m, q)
    <2> HIDE DEF env, repo
    <2>1. QED
        BY <1>2, <1>4, Loading
<1>6. /\ cfg.bucket = q.bucket
      /\ cfg.encryption =
           OrDefault(Lookup(env.encryption, repo.encryption, Global[m].encryption), "age")
      /\ cfg.file = OrDefault(Lookup(env.file, repo.file, Global[m].file), "default")
    BY DEF Load
<1>7. q.cmd = "push" => cfg.encryption = ModeOf(x) /\ cfg.file = FileOf(x)
    BY <1>6 DEF ModeOf, FileOf
<1>8. ASSUME q.cmd = "clone" PROVE cfg.encryption = q.encryption
    <2>1. Moded(m, q) /\ q.encryption \in {"age", "none"} /\ m \in Machines
        BY Underway
    <2>2. CloneEnv(x).encryption = Env[m].encryption
        BY <2>1, OnboardingAssumption DEF CloneEnv, Source
    <2>3. cfg.encryption = OrDefault(Lookup(Env[m].encryption, None, Global[m].encryption), "age")
        BY <1>6, <1>8, <2>2 DEF NoSource
    <2>4. None # "age" /\ None # "none"
        BY SettingsAssumption DEF Modes
    <2>5. QED
        BY <1>8, <2>1, <2>3, <2>4 DEF Moded, Lookup, OrDefault
<1>9. QED
    BY <1>1, <1>3, <1>5, <1>6, <1>7, <1>8

(* The configuration is loaded; for a missing token the user is asked. *)
LEMMA LoadReady ==
    ASSUME Quiet, NEW x \in Repos, Turn(x), LoadConfig(x)
    PROVE  Own(x)
<1>0. pc[x] = "load" /\ pc[x] # "idle" /\ UNCHANGED <<git, store, identity, slots>>
    BY DEF LoadConfig, local, keyring
<1>1. PICK q \in Requests[x] : q = Req(x)
    BY <1>0, Underway
<1>2. /\ CommandOf(x, q) /\ q.cmd \in {"setup", "clone", "push"} /\ q.encryption \in {"age", "none"}
      /\ job \in [Repos -> Job] /\ job[x] \in Job /\ pc \in [Repos -> Points]
      /\ Home[x] \in Machines
    <2>1. /\ CommandOf(x, q) /\ q.cmd \in {"setup", "clone", "push"}
          /\ q.encryption \in {"age", "none"} /\ job \in [Repos -> Job] /\ pc \in [Repos -> Points]
          /\ Home[x] \in Machines
        BY <1>0, <1>1, Underway
    <2>2. QED
        BY <2>1
<1>3. /\ RouteInv(x, q) /\ KeyInv(x, q) /\ LateInv(x, q)
    BY <1>2 DEF CommandOf
<1> DEFINE cfg == Loaded(x)
<1>4. /\ cfg \in Resolved /\ cfg.bucket = q.bucket /\ cfg # None
      /\ Reachable(cfg) => Found(Home[x], q, Looked(x, q)) /\ cfg.endpoint = Meant(q).endpoint
      /\ cfg.token = None =>
           [endpoint |-> cfg.endpoint, bucket |-> q.bucket] = Meant(q) \/ Useless(Home[x], q)
      /\ q.cmd = "push" => cfg.encryption = ModeOf(x) /\ cfg.file = FileOf(x)
      /\ q.cmd = "clone" => cfg.encryption = q.encryption
    BY <1>0, <1>1, LoadedSays, SettingsAssumption
<1>5. /\ job' = [job EXCEPT ![x].cfg = cfg,
                            ![x].section = [endpoint |-> cfg.endpoint, bucket |-> cfg.bucket],
                            ![x].file = IF q.cmd = "push" THEN cfg.file ELSE @]
      /\ \/ Goto(x, "check")
         \/ Goto(x, "read store") /\ cfg.token = None /\ q.cmd # "push"
    BY <1>1 DEF LoadConfig, Loaded
<1> HIDE DEF cfg
<1>6. /\ job'[x].cfg = cfg /\ Req(x)' = Req(x)
      /\ job'[x].section = [endpoint |-> cfg.endpoint, bucket |-> cfg.bucket]
      /\ job'[x].file = IF q.cmd = "push" THEN cfg.file ELSE job[x].file
      /\ job'[x].own = job[x].own /\ job'[x].endpoint = job[x].endpoint
    BY <1>2, <1>5 DEF Job, Req
<1>7. PICK label \in {"check", "read store"} :
        /\ Goto(x, label) /\ pc'[x] = label
        /\ label = "read store" => cfg.token = None /\ q.cmd # "push"
    BY <1>2, <1>5 DEF Goto
<1>8. Tokens(Home[x])' = Tokens(Home[x])
    <2>1. ~FillStore(x)
        BY <1>0 DEF FillStore
    <2>2. QED
        BY <1>0, <1>2, <2>1, TokensStep DEF Quiet, Turn, Good
<1>9. SaveInv(x, q)'
    <2>1. Useless(Home[x], q) => Useless(Home[x], q)'
        BY <1>8 DEF Useless, Sole, Meant
    <2>2. job'[x].section.bucket = q.bucket
        <3>1. job'[x].section = [endpoint |-> cfg.endpoint, bucket |-> cfg.bucket]
            BY <1>6
        <3>2. cfg.bucket = q.bucket
            BY <1>4
        <3>3. [endpoint |-> cfg.endpoint, bucket |-> cfg.bucket].bucket = cfg.bucket
            OBVIOUS
        <3>4. QED
            BY <3>1, <3>2, <3>3
    <2>3. pc'[x] \in Saving => job'[x].section = Meant(q) \/ Useless(Home[x], q)
        BY <1>4, <1>6, <1>7 DEF Saving
    <2>4. QED
        BY <1>7, <2>1, <2>2, <2>3 DEF SaveInv, Saving, Meant
<1>10. RouteInv(x, q)'
    BY <1>0, <1>2, <1>3, <1>6, <1>7 DEF RouteInv, Routes, Points, Early, Saving, Sole
<1>11. KeyInv(x, q)'
    BY <1>0, <1>2, <1>3, <1>4, <1>6, <1>7 DEF KeyInv, Before, Early, Saving
<1>12. LateInv(x, q)'
    BY <1>0, <1>3, <1>6, <1>7 DEF LateInv, Late, Saving, Wanted, Req
<1>13. CheckInv(x, q)'
    <2>1. Looked(x, q)' = Looked(x, q) /\ ModeOf(x)' = ModeOf(x) /\ FileOf(x)' = FileOf(x)
        BY <1>0, <1>6 DEF Looked, Configured, ModeOf, FileOf
    <2>2. At(x)' = [endpoint |-> cfg.endpoint, bucket |-> cfg.bucket]
        BY <1>6 DEF At
    <2>3. Meant(q) = [endpoint |-> Meant(q).endpoint, bucket |-> q.bucket]
        BY Asked DEF Backend
    <2>4. ASSUME Reachable(job'[x].cfg)
          PROVE  At(x)' = Meant(q) /\ Found(Home[x], q, Looked(x, q))'
        BY <1>4, <1>6, <1>8, <2>1, <2>2, <2>3, <2>4 DEF Found, Meant
    <2>5. pc'[x] \notin Checked
        BY <1>7 DEF Checked, OnKeyring
    <2>6. QED
        BY <1>4, <1>6, <2>1, <2>4, <2>5 DEF CheckInv, Checked, Meant
<1>14. EndInv(x, q)'
    BY <1>7 DEF EndInv
<1>15. CommandOf(x, q)'
    BY <1>9, <1>10, <1>11, <1>12, <1>13, <1>14 DEF CommandOf
<1>16. QED
    BY <1>0, <1>1, <1>6, <1>7, <1>15, Moving DEF Window

-----------------------------------------------------------------------------
(* At the backend *)

(* What is known of a command at its backend. *)
LEMMA AtBackend ==
    ASSUME Quiet, NEW x \in Repos, Turn(x), NEW q \in Requests[x], Req(x) = q,
           pc[x] \in {"check"} \cup Checked
    PROVE  /\ CommandOf(x, q) /\ RouteInv(x, q) /\ CheckInv(x, q) /\ EndInv(x, q) /\ LateInv(x, q)
           /\ KeyInv(x, q)
           /\ GitInv(x) /\ Moded(Home[x], q) /\ Keyed(Home[x], q)
           /\ q.cmd \in {"setup", "clone", "push"} /\ q.encryption \in {"age", "none"}
           /\ job[x].cfg \in Resolved /\ job[x].cfg # None
           /\ q.cmd # "clone" => git[x].bucket = q.bucket
           /\ q.cmd = "setup" => Late(x)
           /\ ~Before(x, q) /\ ~FillStore(x)
           /\ pc \in [Repos -> Points] /\ job \in [Repos -> Job] /\ job[x] \in Job
           /\ slots \in [Backend -> SUBSET PublicKeys] /\ Home[x] \in Machines /\ Grown
           /\ Meant(q) \in Backend
<1>0. pc[x] \notin {"idle", "fill store", "empty store", "load", "confirm"} /\ pc[x] \notin Window \ Checked
      /\ ~FillStore(x) /\ pc[x] \notin Early /\ pc[x] \notin Saving
    BY DEF Checked, OnKeyring, Window, FillStore, Early, Saving
<1>1. /\ CommandOf(x, q) /\ GitInv(x) /\ Moded(Home[x], q) /\ Keyed(Home[x], q)
      /\ q.cmd \in {"setup", "clone", "push"} /\ q.encryption \in {"age", "none"}
      /\ pc \in [Repos -> Points] /\ job \in [Repos -> Job]
      /\ slots \in [Backend -> SUBSET PublicKeys] /\ Home[x] \in Machines /\ Grown
      /\ Meant(q) \in Backend
    BY <1>0, Underway, TurnKeeps
<1>2. /\ RouteInv(x, q) /\ CheckInv(x, q) /\ EndInv(x, q) /\ LateInv(x, q) /\ KeyInv(x, q)
    BY <1>1 DEF CommandOf
<1>3. job[x].cfg \in Resolved /\ job[x].cfg # None
    BY <1>2, SettingsAssumption DEF CheckInv
<1>4. q.cmd # "clone" => git[x].bucket = q.bucket
    BY <1>0, <1>1, <1>3 DEF Turn, Good, TypeInv, JobInv
<1>5. q.cmd = "setup" => Late(x)
    BY <1>2 DEF RouteInv, Routes, Late, Checked, OnKeyring
<1>6. ~Before(x, q)
    BY <1>0 DEF Before
<1>7. job[x] \in Job
    BY <1>1
<1>8. QED
    BY <1>0, <1>1, <1>2, <1>3, <1>4, <1>5, <1>6, <1>7

(* At its backend a command changes nothing that led it there. *)
LEMMA CheckStays ==
    ASSUME Quiet, NEW x \in Repos, Turn(x), NEW q \in Requests[x], Req(x) = q,
           pc[x] \in {"check"} \cup Checked, pc[x] = "check" => Reachable(job[x].cfg),
           git'[x] = git[x] \/ q.cmd = "clone", pc'[x] \in Checked, pc'[x] \in Routes(q.cmd),
           pc'[x] \in OnKeyring => Mode(x) = "age",
           job'[x].cfg = job[x].cfg, job'[x].file = job[x].file,
           job'[x].endpoint = job[x].endpoint, job'[x].own = job[x].own, job'[x].req = job[x].req
    PROVE  /\ SaveInv(x, q)' /\ RouteInv(x, q)' /\ KeyInv(x, q)' /\ LateInv(x, q)'
           /\ CheckInv(x, q)' /\ Req(x)' = Req(x)
<1>1. /\ RouteInv(x, q) /\ CheckInv(x, q) /\ LateInv(x, q) /\ KeyInv(x, q)
      /\ job[x].cfg # None /\ (q.cmd = "setup" => Late(x)) /\ ~Before(x, q) /\ ~FillStore(x)
      /\ Home[x] \in Machines /\ Grown
    BY AtBackend
<1>2. pc'[x] \notin {"check", "load", "confirm"} /\ pc'[x] \notin Early /\ pc'[x] \notin Saving
      /\ pc[x] # "empty store" /\ pc[x] \notin {"ask remote", "ask token"}
      /\ pc'[x] \notin {"ask remote", "ask token", "pick key", "ensure", "generate",
                     "fill file"}
    BY DEF Checked, OnKeyring, Early, Saving
<1>3. Tokens(Home[x])' = Tokens(Home[x])
    BY <1>1, <1>2, TokensStep DEF Quiet, Turn, Good
<1>4. SaveInv(x, q)'
    BY <1>2 DEF SaveInv, Saving
<1>5. RouteInv(x, q)'
    BY <1>1, <1>2 DEF RouteInv, Sole
<1>6. KeyInv(x, q)'
    BY <1>1, <1>2 DEF KeyInv, Before, Grown
<1>7. LateInv(x, q)'
    BY <1>1 DEF LateInv, Wanted, Req
<1>8. /\ q.cmd = "push" => ModeOf(x)' = ModeOf(x) /\ FileOf(x)' = FileOf(x)
      /\ Looked(x, q)' = Looked(x, q) /\ At(x)' = At(x) /\ Mode(x)' = Mode(x) /\ Req(x)' = Req(x)
    BY DEF Looked, Configured, ModeOf, FileOf, At, Mode, Req
<1>9. CheckInv(x, q)'
    BY <1>1, <1>2, <1>3, <1>8 DEF CheckInv, Found, Meant
<1>10. QED
    BY <1>4, <1>5, <1>6, <1>7, <1>8, <1>9

(* The key file that the repository uses is the one that setup chose, or    *)
(* one whose key has a slot.                                               *)
LEMMA FileIs ==
    ASSUME Quiet, NEW r \in Repos, NEW p \in Requests[r], p.cmd = "setup", p.encryption = "age",
           GitInv(r), git[r].file \in File \cup {None},
           Chosen(p) # "default" => git[r].file = Chosen(p)
    PROVE  FileOf(r) = Chosen(p) \/ Opening(r, p)
<1>1. /\ Env[Home[r]].file \in {None, Chosen(p)} /\ Global[Home[r]].file \in {None, Chosen(p)}
    BY DEF Quiet, Agreed, Keyed
<1>3. Chosen(p) # None
    BY SettingsAssumption DEF Chosen, File
<1>4. CASE git[r].file = None
    BY <1>1, <1>3, <1>4, SettingsAssumption DEF FileOf, Lookup, OrDefault, File
<1>5. CASE git[r].file # None
    <2>1. git[r].file = Chosen(p) \/ git[r].file \in slots[Meant(p)]
        BY <1>5 DEF GitInv, Quiet, Agreed, Compatible
    <2>2. FileOf(r) = Chosen(p) \/ FileOf(r) = git[r].file
        BY <1>1, <1>3, <1>5 DEF FileOf, Lookup, OrDefault
    <2>3. git[r].file # "default"
        BY DEF GitInv
    <2>4. QED
        BY <2>1, <2>2, <2>3 DEF Opening, KeysIn
<1>6. QED
    BY <1>4, <1>5

(* Once all that setup wants have slots, one of them opens the keyring. *)
LEMMA SetupOpens ==
    ASSUME Quiet, NEW x \in Repos, Turn(x), NEW q \in Requests[x], Req(x) = q,
           pc[x] \in OnKeyring, q.cmd = "setup", NEW S, Wanted(x) \subseteq S \cup slots[Meant(q)]
    PROVE  (S \cup slots[Meant(q)]) \cap KeysIn(Home[x], FileOf(x)) # {}
<1>0. pc[x] # "idle" /\ pc[x] \in {"check"} \cup Checked
    BY DEF OnKeyring, Checked
<1>1. /\ CheckInv(x, q) /\ LateInv(x, q) /\ Late(x) /\ ~Before(x, q) /\ GitInv(x)
    BY <1>0, AtBackend
<1>2. q.encryption = "age"
    BY <1>1 DEF CheckInv, Mode
<1>3. Wanted(x) # {} /\ (Chosen(q) # "default" => git[x].file = Chosen(q))
    BY <1>1, <1>2 DEF LateInv
<1>4. git[x].file \in File \cup {None}
    BY DEF Turn, Good, TypeInv, TypeOK, Remote
<1>5. FileOf(x) = Chosen(q) \/ Opening(x, q)
    BY <1>1, <1>2, <1>3, <1>4, FileIs
<1>6. Wanted(x) \cap KeysIn(Home[x], Chosen(q)) # {}
    BY <1>0, <1>1, <1>2, <1>3, WantedOpens
<1>7. QED
    BY <1>5, <1>6 DEF Opening

(* A command that ends at a keyring its repository can open ends well. *)
LEMMA EndServes ==
    ASSUME Quiet, NEW x \in Repos, Turn(x), NEW q \in Requests[x], Req(x) = q,
           pc[x] \in OnKeyring, q.cmd # "clone", git'[x] = git[x], Opening(x, q)'
    PROVE  Serves(x, q)' /\ (q.cmd # "push" => ModeOf(x)' = q.encryption)
<1>0. pc[x] \in {"check"} \cup Checked /\ pc[x] \in Checked /\ pc[x] # "empty store"
    BY DEF OnKeyring, Checked
<1>1. /\ CheckInv(x, q) /\ GitInv(x) /\ Moded(Home[x], q) /\ git[x].bucket = q.bucket
      /\ Home[x] \in Machines /\ ~FillStore(x) /\ q.cmd \in {"setup", "clone", "push"}
    BY <1>0, AtBackend
<1>2. Tokens(Home[x])' = Tokens(Home[x])
    BY <1>0, <1>1, TokensStep DEF Quiet, Turn, Good
<1>3. Found(Home[x], q, Configured(x))
    BY <1>0, <1>1 DEF CheckInv, Looked
<1>4. Found(Home[x], q, Configured(x))'
    BY <1>2, <1>3 DEF Found, Configured, Meant
<1>5. ASSUME q.cmd = "setup" PROVE ModeOf(x)' = q.encryption
    <2>1. q.encryption = "age"
        BY <1>1, <1>5 DEF CheckInv, Mode
    <2>2. git[x].encryption = None
        BY <1>1, <2>1 DEF GitInv
    <2>3. QED
        BY <1>1, <2>1, <2>2 DEF ModeOf, Moded, Lookup, OrDefault
<1>6. QED
    BY <1>1, <1>4, <1>5 DEF Serves

(* A plaintext repository, whose backend was found, works. *)
LEMMA CheckReady ==
    ASSUME Quiet, NEW x \in Repos, Turn(x), CheckBucket(x)
    PROVE  Own(x)
<1>0. /\ pc[x] = "check" /\ pc[x] # "idle" /\ pc[x] \in {"check"} \cup Checked /\ git'[x] = git[x]
      /\ pc[x] \notin Window /\ pc[x] \notin Checked
    BY DEF CheckBucket, local, Window, Checked, OnKeyring
<1>1. PICK q \in Requests[x] : q = Req(x)
    BY <1>0, Underway
<1>2. /\ CheckInv(x, q) /\ LateInv(x, q) /\ Moded(Home[x], q)
      /\ q.cmd \in {"setup", "clone", "push"} /\ q.encryption \in {"age", "none"}
      /\ job[x].cfg \in Resolved /\ (q.cmd # "clone" => git[x].bucket = q.bucket)
      /\ pc \in [Repos -> Points]
    BY <1>0, <1>1, AtBackend
<1>3. CASE ~Reachable(job[x].cfg)
    BY <1>0, <1>3, Ending DEF CheckBucket
<1>4. CASE Reachable(job[x].cfg)
    <2> DEFINE label == AfterCheck(x)
    <2>1. Goto(x, label) /\ job' = job /\ pc'[x] = label
        BY <1>2, <1>4 DEF CheckBucket, Continue, Goto
    <2>2. /\ Mode(x) \in {"age", "none"}
          /\ q.cmd = "clone" => Mode(x) = q.encryption
          /\ q.cmd = "push" => Mode(x) = ModeOf(x)
          /\ q.cmd = "setup" => Mode(x) = q.encryption
        BY <1>0, <1>1, <1>2 DEF Mode, CheckInv, Resolved, Modes
    <2>3. \/ label = "repo pub" /\ Mode(x) = "age"
          \/ label = "git clone" /\ q.cmd = "clone" /\ Mode(x) = "none"
          \/ label = "end" /\ q.cmd \in {"setup", "push"} /\ Mode(x) = "none"
        BY <1>1, <1>2, <2>2 DEF AfterCheck
    <2>4. /\ SaveInv(x, q)' /\ RouteInv(x, q)' /\ KeyInv(x, q)' /\ LateInv(x, q)'
          /\ CheckInv(x, q)' /\ Req(x)' = Req(x)
        <3>1. pc'[x] \in Checked /\ pc'[x] \in Routes(q.cmd)
            BY <1>2, <2>1, <2>3 DEF Checked, OnKeyring, Routes, Points, Saving
        <3>2. pc'[x] \in OnKeyring => Mode(x) = "age"
            BY <2>1, <2>3 DEF OnKeyring
        <3>3. QED
            BY <1>0, <1>1, <1>4, <2>1, <3>1, <3>2, CheckStays
    <2>5. ASSUME label = "end"
          PROVE  Serves(x, q)' /\ (q.cmd # "push" => ModeOf(x)' = q.encryption)
        <3>1. q.cmd \in {"setup", "push"} /\ Mode(x) = "none"
            BY <2>3, <2>5
        <3>2. ModeOf(x) = "none"
            <4>1. CASE q.cmd = "push"
                BY <2>2, <3>1, <4>1
            <4>2. CASE q.cmd = "setup"
                <5>1. q.encryption = "none" /\ git[x].encryption = "none"
                    BY <1>0, <1>2, <2>2, <3>1, <4>2 DEF LateInv
                <5>2. None # "none"
                    BY SettingsAssumption DEF Modes
                <5>3. QED
                    BY <1>2, <5>1, <5>2 DEF ModeOf, Moded, Lookup, OrDefault
            <4>3. QED
                BY <3>1, <4>1, <4>2
        <3>3. Serves(x, q)
            BY <1>0, <1>2, <1>4, <3>1, <3>2 DEF Serves, CheckInv, Looked
        <3>4. Serves(x, q)' /\ ModeOf(x)' = ModeOf(x)
            BY <1>0, <3>3, ServesStays
        <3>5. QED
            BY <2>2, <3>1, <3>2, <3>4
    <2>6. EndInv(x, q)'
        BY <2>1, <2>2, <2>3, <2>5 DEF EndInv
    <2>7. CommandOf(x, q)'
        BY <2>4, <2>6 DEF CommandOf
    <2>8. QED
        BY <1>0, <1>1, <2>1, <2>4, <2>7, Moving
<1>5. QED
    BY <1>3, <1>4

(* The end: what is promised then works. *)
LEMMA FinishReady ==
    ASSUME Quiet, NEW x \in Repos, Turn(x), Finish(x)
    PROVE  Own(x)
<1>0. /\ pc[x] = "end" /\ pc[x] # "idle" /\ pc[x] \in {"check"} \cup Checked /\ git'[x] = git[x]
      /\ pc[x] \notin Window
    BY DEF Finish, local, Window, Checked, OnKeyring
<1>1. PICK q \in Requests[x] : q = Req(x)
    BY <1>0, Underway
<1>2. /\ EndInv(x, q) /\ LateInv(x, q) /\ (q.cmd = "setup" => Late(x))
      /\ q.cmd \in {"setup", "clone", "push"}
    BY <1>0, <1>1, AtBackend
<1>3. /\ pc'[x] = "idle" /\ outcome'[x] = IF q.cmd = "push" THEN "pushed" ELSE "ready"
      /\ wish'[x] = IF q.cmd = "push" THEN wish[x] ELSE q
    BY <1>1 DEF Finish, End, Turn, Good, TypeInv, TypeOK
<1>4. Serves(x, q) /\ (q.cmd # "push" => ModeOf(x) = q.encryption)
    BY <1>0, <1>2 DEF EndInv
<1>5. Serves(x, q)' /\ ModeOf(x)' = ModeOf(x)
    BY <1>0, <1>4, ServesStays
<1>6. WishInv(x)'
    <2>1. CASE q.cmd = "push"
        BY <1>0, <1>3, <2>1, WishStays
    <2>2. CASE q.cmd # "push"
        BY <1>0, <1>2, <1>3, <1>4, <1>5, <2>2, Asked DEF WishInv, LateInv
    <2>3. QED
        BY <2>1, <2>2
<1>7. PushedInv(x)'
    BY <1>3, <1>5 DEF PushedInv
<1>8. GitInv(x)'
    BY <1>0, GitStays
<1>9. QED
    BY <1>3, <1>6, <1>7, <1>8 DEF Own, CommandInv

(* A keyring that is there is joined; setup and push found one otherwise. *)
LEMMA RepoReady ==
    ASSUME Quiet, NEW x \in Repos, Turn(x), RepoRecipient(x)
    PROVE  Own(x)
<1>0. /\ pc[x] = "repo pub" /\ pc[x] # "idle" /\ pc[x] \in {"check"} \cup Checked
      /\ git'[x] = git[x] /\ pc[x] \notin Window /\ pc[x] \in OnKeyring
    BY DEF RepoRecipient, local, Window, Checked, OnKeyring
<1>1. PICK q \in Requests[x] : q = Req(x)
    BY <1>0, Underway
<1>2. CheckInv(x, q) /\ q.cmd \in {"setup", "clone", "push"} /\ pc \in [Repos -> Points]
    BY <1>0, <1>1, AtBackend
<1>3. CASE End(x, "failed")
    BY <1>0, <1>3, Ending
<1>4. CASE ~End(x, "failed")
    <2>1. PICK label \in {"slots", "access", "publish"} :
            /\ Continue(x, label)
            /\ label = "slots" => q.cmd = "setup"
            /\ label = "access" => q.cmd # "setup"
            /\ label = "publish" => q.cmd # "clone"
        BY <1>1, <1>4 DEF RepoRecipient
    <2>2. Goto(x, label) /\ job' = job /\ pc'[x] = label
        BY <1>2, <2>1 DEF Continue, Goto
    <2>3. pc'[x] \in Checked /\ pc'[x] \in Routes(q.cmd) /\ Mode(x) = "age"
        BY <1>0, <1>2, <2>1, <2>2 DEF Checked, OnKeyring, Routes, Points, CheckInv
    <2>4. /\ SaveInv(x, q)' /\ RouteInv(x, q)' /\ KeyInv(x, q)' /\ LateInv(x, q)'
          /\ CheckInv(x, q)' /\ Req(x)' = Req(x)
        BY <1>0, <1>1, <2>2, <2>3, CheckStays
    <2>5. CommandOf(x, q)'
        BY <2>2, <2>4 DEF CommandOf, EndInv
    <2>6. QED
        BY <1>0, <1>1, <2>2, <2>4, <2>5, Moving
<1>5. QED
    BY <1>3, <1>4

(* Whom a keyring is founded for, one of them is the repository itself. *)
LEMMA FoundersOpen ==
    ASSUME Quiet, NEW x \in Repos, Turn(x), NEW q \in Requests[x], Req(x) = q,
           pc[x] = "publish", FirstRecipients(x) # {}
    PROVE  (FirstRecipients(x) \cup slots[Meant(q)]) \cap KeysIn(Home[x], FileOf(x)) # {}
<1>0. pc[x] \in {"check"} \cup Checked /\ pc[x] \in OnKeyring
    BY DEF OnKeyring, Checked
<1>1. /\ CheckInv(x, q) /\ RouteInv(x, q) /\ GitInv(x) /\ q.cmd \in {"setup", "clone", "push"}
    BY <1>0, AtBackend
<1>2. q.cmd \in {"setup", "push"}
    BY <1>1 DEF RouteInv, Routes, Saving
<1>3. CASE q.cmd = "setup"
    <2>1. FirstRecipients(x) = Wanted(x)
        BY <1>3 DEF FirstRecipients
    <2>2. QED
        BY <1>0, <1>3, <2>1, SetupOpens
<1> DEFINE m == Home[x]
           listed == Listed(m, git[x].recipients)
<1>l. q.cmd = "push" /\ listed # {} => FirstRecipients(x) = listed
    BY DEF FirstRecipients
<1>f. ASSUME NEW recipients \in SUBSET SshKeys, Env[m].file \in recipients,
             recipients \subseteq FirstRecipients(x)
      PROVE  FirstRecipients(x) \cap KeysIn(m, FileOf(x)) # {}
    <2>1. Env[m].file \in SshKeys /\ Env[m].file # None /\ Env[m].file # "default"
        BY <1>f, SettingsAssumption DEF File
    <2>2. FileOf(x) = Env[m].file /\ KeysIn(m, FileOf(x)) = {Env[m].file}
        BY <2>1 DEF FileOf, Lookup, OrDefault, KeysIn
    <2>3. QED
        BY <1>f, <2>2
<1>e. m \in Machines /\ Env[m] \in Source /\ Founding(m)
    BY OnboardingAssumption DEF Quiet, Agreed
<1>7. CASE q.cmd = "push" /\ Env[m].recipients # {}
    <2>1. Env[m].recipients \subseteq listed /\ Env[m].recipients \in SUBSET SshKeys
        BY <1>7, <1>e DEF Listed, LookupAll, Source
    <2>2. QED
        BY <1>7, <1>e, <1>f, <1>l, <2>1 DEF Founding
<1>4. CASE q.cmd = "push" /\ Env[m].recipients = {} /\ git[x].recipients # {}
    <2>1. git[x].recipients \subseteq FirstRecipients(x)
        BY <1>4, <1>l DEF Listed, LookupAll
    <2>2. PICK p \in Requests[x] :
            /\ p.cmd = "setup" /\ p.encryption = "age"
            /\ KeysIn(Home[x], Chosen(p)) \cap git[x].recipients # {}
            /\ Chosen(p) # "default" => git[x].file = Chosen(p)
        BY <1>1, <1>4 DEF GitInv, Between
    <2>3. git[x].file \in File \cup {None}
        BY DEF Turn, Good, TypeInv, TypeOK, Remote
    <2>4. FileOf(x) = Chosen(p) \/ Opening(x, p)
        BY <1>1, <2>2, <2>3, FileIs
    <2>5. Meant(p) = Meant(q)
        BY DEF Quiet, Agreed, Compatible, Meant
    <2>6. QED
        BY <2>1, <2>2, <2>4, <2>5 DEF Opening
<1>8. CASE q.cmd = "push" /\ git[x].recipients = {} /\ listed # {}
    <2>1. listed \in SUBSET SshKeys /\ Env[m].file \in listed
        BY <1>8, <1>e, ListedType DEF Founding
    <2>2. QED
        BY <1>8, <1>f, <1>l, <2>1
<1>5. CASE q.cmd = "push" /\ git[x].recipients = {} /\ listed = {}
    <2>1. FirstRecipients(x) = KeysIn(Home[x], job[x].file) \ SshKeys
        BY <1>5 DEF FirstRecipients
    <2>2. job[x].file = FileOf(x)
        BY <1>0, <1>1, <1>5 DEF CheckInv
    <2>3. QED
        BY <2>1, <2>2
<1>6. QED
    BY <1>2, <1>3, <1>4, <1>5, <1>7, <1>8

(* A keyring is founded for the recipients, a key of the repository among   *)
(* them.                                                                    *)
LEMMA PublishReady ==
    ASSUME Quiet, NEW x \in Repos, Turn(x), Publish(x)
    PROVE  Own(x)
<1>0. /\ pc[x] = "publish" /\ pc[x] # "idle" /\ pc[x] \in {"check"} \cup Checked
      /\ git'[x] = git[x] /\ pc[x] \notin Window /\ pc[x] \in OnKeyring
      /\ UNCHANGED <<git, identity, slots>>
    BY DEF Publish, local, Window, Checked, OnKeyring
<1>1. PICK q \in Requests[x] : q = Req(x)
    BY <1>0, Underway
<1>2. /\ CheckInv(x, q) /\ RouteInv(x, q) /\ q.cmd \in {"setup", "clone", "push"}
      /\ pc \in [Repos -> Points] /\ job \in [Repos -> Job] /\ job[x] \in Job
    BY <1>0, <1>1, AtBackend
<1>3. CASE End(x, "failed")
    BY <1>0, <1>3, Ending
<1>4. CASE ~End(x, "failed")
    <2>1. PICK label \in {"grant", "slots", "access"} :
            /\ Goto(x, label)
            /\ FirstRecipients(x) # {}
            /\ \/ label # "grant" /\ job' = job
               \/ /\ label = "grant"
                  /\ job' = [job EXCEPT ![x].todo = FirstRecipients(x), ![x].founder = TRUE]
            /\ label = "slots" => q.cmd = "setup"
            /\ label = "access" => q.cmd # "setup"
        BY <1>1, <1>4 DEF Publish, Continue
    <2>2. /\ pc'[x] = label /\ job'[x].cfg = job[x].cfg /\ job'[x].file = job[x].file
          /\ job'[x].endpoint = job[x].endpoint /\ job'[x].own = job[x].own
          /\ job'[x].req = job[x].req
          /\ label = "grant" => job'[x].todo = FirstRecipients(x)
        BY <1>2, <2>1 DEF Goto, Job
    <2>3. pc'[x] \in Checked /\ pc'[x] \in Routes(q.cmd) /\ Mode(x) = "age"
        BY <1>0, <1>2, <2>1, <2>2 DEF Checked, OnKeyring, Routes, Points, CheckInv, RouteInv, Saving
    <2>4. /\ SaveInv(x, q)' /\ RouteInv(x, q)' /\ KeyInv(x, q)' /\ LateInv(x, q)'
          /\ CheckInv(x, q)' /\ Req(x)' = Req(x)
        BY <1>0, <1>1, <2>2, <2>3, CheckStays
    <2>5. ASSUME label = "grant" PROVE Sees(x, q)'
        <3>1. (FirstRecipients(x) \cup slots[Meant(q)]) \cap KeysIn(Home[x], FileOf(x)) # {}
            BY <1>0, <1>1, <2>1, FoundersOpen
        <3>2. KeysIn(Home[x], FileOf(x))' = KeysIn(Home[x], FileOf(x))
            BY <1>0 DEF KeysIn, FileOf
        <3>3. QED
            BY <1>0, <2>2, <2>5, <3>1, <3>2 DEF Sees, Meant
    <2>6. EndInv(x, q)'
        BY <2>2, <2>5 DEF EndInv
    <2>7. CommandOf(x, q)'
        BY <2>4, <2>6 DEF CommandOf
    <2>8. QED
        BY <1>0, <1>1, <2>1, <2>4, <2>7, Moving
<1>5. QED
    BY <1>3, <1>4

(* A slot is granted to each recipient in turn. *)
LEMMA GrantReady ==
    ASSUME Quiet, NEW x \in Repos, Turn(x), NEW key \in PublicKeys, Grant(x, key)
    PROVE  Own(x)
<1>0. /\ pc[x] = "grant" /\ pc[x] # "idle" /\ pc[x] \in {"check"} \cup Checked
      /\ git'[x] = git[x] /\ pc[x] \notin Window /\ pc[x] \in OnKeyring
      /\ UNCHANGED <<git, identity>>
    BY DEF Grant, local, Window, Checked, OnKeyring
<1>1. PICK q \in Requests[x] : q = Req(x)
    BY <1>0, Underway
<1>2. /\ CheckInv(x, q) /\ RouteInv(x, q) /\ EndInv(x, q) /\ q.cmd \in {"setup", "clone", "push"}
      /\ pc \in [Repos -> Points] /\ job \in [Repos -> Job] /\ job[x] \in Job
      /\ slots \in [Backend -> SUBSET PublicKeys] /\ Meant(q) \in Backend
    BY <1>0, <1>1, AtBackend
<1>3. At(x) = Meant(q) /\ Mode(x) = "age" /\ Sees(x, q) /\ q.cmd # "clone"
    BY <1>0, <1>2 DEF CheckInv, EndInv, RouteInv, Routes, Saving
<1>4. PICK label \in {"grant", "recovery", "end"} :
        /\ Goto(x, label)
        /\ label # "grant" => job[x].todo = {key}
        /\ label = "recovery" => q.cmd = "setup"
    BY <1>1 DEF Grant
<1>5. /\ slots' = [slots EXCEPT ![Meant(q)] = @ \cup {key}]
      /\ job' = [job EXCEPT ![x].todo = @ \ {key}]
    BY <1>3 DEF Grant
<1>6. /\ pc'[x] = label /\ job'[x].cfg = job[x].cfg /\ job'[x].file = job[x].file
      /\ job'[x].endpoint = job[x].endpoint /\ job'[x].own = job[x].own
      /\ job'[x].req = job[x].req /\ job'[x].todo = job[x].todo \ {key}
    BY <1>2, <1>4, <1>5 DEF Goto, Job
<1>7. slots'[Meant(q)] = slots[Meant(q)] \cup {key}
    BY <1>2, <1>5
<1>8. KeysIn(Home[x], FileOf(x))' = KeysIn(Home[x], FileOf(x))
    BY <1>0 DEF KeysIn, FileOf
<1>9. Sees(x, q)'
    BY <1>3, <1>6, <1>7, <1>8 DEF Sees, Meant
<1>10. label # "grant" => Opening(x, q)'
    BY <1>4, <1>6, <1>9 DEF Sees, Opening
<1>11. label = "end" => Serves(x, q)' /\ (q.cmd # "push" => ModeOf(x)' = q.encryption)
    BY <1>0, <1>1, <1>3, <1>10, EndServes
<1>12. /\ SaveInv(x, q)' /\ RouteInv(x, q)' /\ KeyInv(x, q)' /\ LateInv(x, q)'
       /\ CheckInv(x, q)' /\ Req(x)' = Req(x)
    <2>1. pc'[x] \in Checked /\ pc'[x] \in Routes(q.cmd)
        BY <1>2, <1>3, <1>4, <1>6 DEF Checked, OnKeyring, Routes, Points
    <2>2. QED
        BY <1>0, <1>1, <1>3, <1>6, <2>1, CheckStays
<1>13. EndInv(x, q)'
    BY <1>6, <1>9, <1>10, <1>11 DEF EndInv
<1>14. CommandOf(x, q)'
    BY <1>12, <1>13 DEF CommandOf
<1>15. QED
    BY <1>0, <1>1, <1>4, <1>12, <1>14, Moving

(* A recovery slot is added; the others stay. *)
LEMMA RecoveryReady ==
    ASSUME Quiet, NEW x \in Repos, Turn(x), GrantRecovery(x)
    PROVE  Own(x)
<1>0. /\ pc[x] = "recovery" /\ pc[x] # "idle" /\ pc[x] \in {"check"} \cup Checked
      /\ git'[x] = git[x] /\ pc[x] \notin Window /\ pc[x] \in OnKeyring
      /\ UNCHANGED <<git, identity, slots>>
    BY DEF GrantRecovery, local, Window, Checked, OnKeyring
<1>1. PICK q \in Requests[x] : q = Req(x)
    BY <1>0, Underway
<1>2. /\ CheckInv(x, q) /\ RouteInv(x, q) /\ EndInv(x, q) /\ q.cmd \in {"setup", "clone", "push"}
      /\ pc \in [Repos -> Points]
    BY <1>0, <1>1, AtBackend
<1>3. Mode(x) = "age" /\ Opening(x, q) /\ q.cmd = "setup"
    BY <1>0, <1>2 DEF CheckInv, EndInv, RouteInv, Routes, Saving
<1>4. Goto(x, "end") /\ job' = job /\ pc'[x] = "end"
    BY <1>2 DEF GrantRecovery, Continue, Goto
<1>5. Opening(x, q)'
    BY <1>0, <1>3 DEF Opening, KeysIn, FileOf, Meant
<1>6. Serves(x, q)' /\ (q.cmd # "push" => ModeOf(x)' = q.encryption)
    BY <1>0, <1>1, <1>3, <1>5, EndServes
<1>7. /\ SaveInv(x, q)' /\ RouteInv(x, q)' /\ KeyInv(x, q)' /\ LateInv(x, q)'
      /\ CheckInv(x, q)' /\ Req(x)' = Req(x)
    <2>1. pc'[x] \in Checked /\ pc'[x] \in Routes(q.cmd)
        BY <1>3, <1>4 DEF Checked, OnKeyring, Routes, Points
    <2>2. QED
        BY <1>0, <1>1, <1>3, <1>4, <2>1, CheckStays
<1>8. CommandOf(x, q)'
    BY <1>4, <1>6, <1>7 DEF CommandOf, EndInv
<1>9. QED
    BY <1>0, <1>1, <1>4, <1>7, <1>8, Moving

(* Setup finds out which of its recipients have no slot yet. *)
LEMMA SlotsReady ==
    ASSUME Quiet, NEW x \in Repos, Turn(x), ReadSlots(x)
    PROVE  Own(x)
<1>0. /\ pc[x] = "slots" /\ pc[x] # "idle" /\ pc[x] \in {"check"} \cup Checked
      /\ git'[x] = git[x] /\ pc[x] \notin Window /\ pc[x] \in OnKeyring
      /\ UNCHANGED <<git, identity, slots>>
    BY DEF ReadSlots, local, keyring, Window, Checked, OnKeyring
<1>1. PICK q \in Requests[x] : q = Req(x)
    BY <1>0, Underway
<1>2. /\ CheckInv(x, q) /\ RouteInv(x, q) /\ q.cmd \in {"setup", "clone", "push"}
      /\ pc \in [Repos -> Points] /\ job \in [Repos -> Job] /\ job[x] \in Job
    BY <1>0, <1>1, AtBackend
<1>3. At(x) = Meant(q) /\ Mode(x) = "age" /\ q.cmd = "setup"
    BY <1>0, <1>2 DEF CheckInv, RouteInv, Routes, Saving
<1> DEFINE missing == Wanted(x) \ slots[Meant(q)]
<1>4. PICK label \in {"end", "unwrap"} :
        /\ Goto(x, label) /\ job' = [job EXCEPT ![x].todo = missing]
        /\ label = "end" => missing = {}
    BY <1>3 DEF ReadSlots
<1>5. /\ pc'[x] = label /\ job'[x].cfg = job[x].cfg /\ job'[x].file = job[x].file
      /\ job'[x].endpoint = job[x].endpoint /\ job'[x].own = job[x].own
      /\ job'[x].req = job[x].req /\ job'[x].todo = missing
    BY <1>2, <1>4 DEF Goto, Job
<1>6. KeysIn(Home[x], FileOf(x))' = KeysIn(Home[x], FileOf(x))
    BY <1>0 DEF KeysIn, FileOf
<1>7. (missing \cup slots[Meant(q)]) \cap KeysIn(Home[x], FileOf(x)) # {}
    BY <1>0, <1>1, <1>3, SetupOpens
<1>8. Sees(x, q)'
    BY <1>0, <1>5, <1>6, <1>7 DEF Sees, Meant
<1>9. label = "end" => Opening(x, q)'
    BY <1>4, <1>5, <1>8 DEF Sees, Opening
<1>10. label = "end" => Serves(x, q)' /\ (q.cmd # "push" => ModeOf(x)' = q.encryption)
    BY <1>0, <1>1, <1>3, <1>9, EndServes
<1>11. /\ SaveInv(x, q)' /\ RouteInv(x, q)' /\ KeyInv(x, q)' /\ LateInv(x, q)'
       /\ CheckInv(x, q)' /\ Req(x)' = Req(x)
    <2>1. pc'[x] \in Checked /\ pc'[x] \in Routes(q.cmd)
        BY <1>3, <1>4, <1>5 DEF Checked, OnKeyring, Routes, Points
    <2>2. QED
        BY <1>0, <1>1, <1>3, <1>5, <2>1, CheckStays
<1>12. CommandOf(x, q)'
    BY <1>5, <1>8, <1>10, <1>11 DEF CommandOf, EndInv
<1>13. QED
    BY <1>0, <1>1, <1>4, <1>11, <1>12, Moving

(* The keyring is opened with the key file of the command. *)
LEMMA AccessReady ==
    ASSUME Quiet, NEW x \in Repos, Turn(x), Unwrap(x) \/ CheckAccess(x)
    PROVE  Own(x)
<1>0. /\ pc[x] \in {"unwrap", "access"} /\ pc[x] # "idle" /\ pc[x] \in {"check"} \cup Checked
      /\ git'[x] = git[x] /\ pc[x] \notin Window /\ pc[x] \in OnKeyring
      /\ UNCHANGED <<git, identity, slots>>
    BY DEF Unwrap, CheckAccess, local, keyring, Window, Checked, OnKeyring
<1>1. PICK q \in Requests[x] : q = Req(x)
    BY <1>0, Underway
<1>2. /\ CheckInv(x, q) /\ RouteInv(x, q) /\ EndInv(x, q) /\ q.cmd \in {"setup", "clone", "push"}
      /\ pc \in [Repos -> Points]
    BY <1>0, <1>1, AtBackend
<1>3. /\ At(x) = Meant(q) /\ Mode(x) = "age"
      /\ pc[x] = "unwrap" => q.cmd = "setup" /\ Sees(x, q)
      /\ pc[x] = "access" => q.cmd \in {"push", "clone"}
    BY <1>0, <1>2 DEF CheckInv, RouteInv, Routes, Saving, EndInv
<1>4. CASE End(x, "not a member")
    BY <1>0, <1>4, Ending
<1>5. CASE ~End(x, "not a member")
    <2>1. PICK label \in {"grant", "git clone", "end"} :
            /\ Continue(x, label) /\ CanUnwrap(x)
            /\ label = "grant" => pc[x] = "unwrap"
            /\ label = "git clone" => q.cmd = "clone"
            /\ label = "end" => q.cmd # "clone" /\ pc[x] = "access"
        BY <1>1, <1>5 DEF Unwrap, CheckAccess
    <2>2. Goto(x, label) /\ job' = job /\ pc'[x] = label
        BY <1>2, <2>1 DEF Continue, Goto
    <2>3. label = "grant" => q.cmd = "setup"
        BY <1>3, <2>1
    <2>4. KeysIn(Home[x], job[x].file) \cap slots[Meant(q)] # {}
        BY <1>3, <2>1 DEF CanUnwrap
    <2>5. /\ SaveInv(x, q)' /\ RouteInv(x, q)' /\ KeyInv(x, q)' /\ LateInv(x, q)'
          /\ CheckInv(x, q)' /\ Req(x)' = Req(x)
        <3>1. pc'[x] \in Checked /\ pc'[x] \in Routes(q.cmd)
            BY <1>2, <2>1, <2>2, <2>3 DEF Checked, OnKeyring, Routes, Points
        <3>2. QED
            BY <1>0, <1>1, <1>3, <2>2, <3>1, CheckStays
    <2>6. label = "grant" => Sees(x, q)'
        BY <1>0, <1>3, <2>1, <2>2 DEF Sees, KeysIn, FileOf, Meant
    <2>7. KeysIn(Home[x], job[x].file)' \cap slots'[Meant(q)] # {}
        BY <1>0, <2>2, <2>4 DEF KeysIn
    <2>8. label = "end" => Opening(x, q)'
        <3>1. label = "end" => job[x].file = FileOf(x)
            BY <1>0, <1>2, <1>3, <2>1 DEF CheckInv
        <3>2. QED
            BY <1>0, <2>4, <3>1 DEF Opening, KeysIn, FileOf, Meant
    <2>9. label = "end" => Serves(x, q)' /\ (q.cmd # "push" => ModeOf(x)' = q.encryption)
        BY <1>0, <1>1, <2>1, <2>8, EndServes
    <2>10. EndInv(x, q)'
        BY <2>2, <2>6, <2>7, <2>9 DEF EndInv, Meant
    <2>11. CommandOf(x, q)'
        BY <2>5, <2>10 DEF CommandOf
    <2>12. QED
        BY <1>0, <1>1, <2>2, <2>5, <2>11, Moving
<1>6. QED
    BY <1>4, <1>5

-----------------------------------------------------------------------------
(* What clone writes *)

(* Clone writes the configuration of a repository that had none, from a     *)
(* request that the keyring has been checked against.                       *)
LEMMA Cloning ==
    ASSUME Quiet, NEW x \in Repos, Turn(x), NEW q \in Requests[x], Req(x) = q, pc[x] # "idle",
           wish[x] = None, wish'[x] = wish[x], outcome'[x] = outcome[x],
           git'[x].bucket = q.bucket, git'[x].endpoint \in {None, q.endpoint},
           git'[x].encryption = git[x].encryption, git'[x].recipients = {},
           \/ git'[x].file = git[x].file
           \/ /\ git'[x].file # "default"
              /\ git'[x].file # None => q.encryption = "none" \/ git'[x].file \in slots'[Meant(q)],
           ~Sole(Home[x], q) /\ pc'[x] \notin Window => git'[x].endpoint = q.endpoint
    PROVE  GitInv(x)' /\ WishInv(x)' /\ PushedInv(x)'
<1>1. /\ GitInv(x) /\ Grown /\ outcome[x] # "pushed"
      /\ \A p \in Requests[x] : Compatible(p, q)
    <2>1. outcome[x] # "pushed"
        BY DEF Turn, Good, ReadyInv, PushedInv
    <2>2. QED
        BY <2>1, Underway, TurnKeeps
<1>2. \A p \in Requests[x] : slots[Meant(p)] \subseteq slots'[Meant(p)]
    BY <1>1, Asked DEF Grown
<1>3. git'[x].file # "default"
    BY <1>1 DEF GitInv
<1>4. ASSUME NEW p \in Requests[x]
      PROVE  /\ git'[x].bucket \in {None, p.bucket} /\ git'[x].endpoint \in {None, p.endpoint}
             /\ git'[x].encryption # None => git'[x].encryption = "none" /\ p.encryption = "none"
             /\ git'[x].bucket # None /\ ~Sole(Home[x], p) /\ pc'[x] \notin Window =>
                  git'[x].endpoint = p.endpoint
             /\ git'[x].file # None =>
                  \/ p.encryption = "none"
                  \/ \E s \in Requests[x] : s.cmd = "setup" /\ Chosen(s) = git'[x].file
                  \/ git'[x].file \in slots'[Meant(p)]
    <2>1. p.bucket = q.bucket /\ p.endpoint = q.endpoint /\ p.encryption = q.encryption
        BY <1>1 DEF Compatible
    <2>2. (Sole(Home[x], p) <=> Sole(Home[x], q)) /\ Meant(p) = Meant(q)
        BY <2>1 DEF Sole, Meant
    <2>3. git'[x].file # None =>
            \/ p.encryption = "none"
            \/ \E s \in Requests[x] : s.cmd = "setup" /\ Chosen(s) = git'[x].file
            \/ git'[x].file \in slots'[Meant(p)]
        BY <1>1, <1>2, <2>1, <2>2 DEF GitInv
    <2>4. QED
        BY <1>1, <2>1, <2>2, <2>3 DEF GitInv
<1>5. GitInv(x)'
    BY <1>3, <1>4 DEF GitInv
<1>6. WishInv(x)' /\ PushedInv(x)'
    BY <1>1, Asked DEF WishInv, PushedInv
<1>7. QED
    BY <1>5, <1>6

(* git clone: the bucket is configured, and nothing else yet. *)
LEMMA GitCloneReady ==
    ASSUME Quiet, NEW x \in Repos, Turn(x), GitClone(x)
    PROVE  Own(x)
<1>0. /\ pc[x] = "git clone" /\ pc[x] # "idle" /\ pc[x] \in {"check"} \cup Checked
      /\ pc[x] \notin Window
    BY DEF GitClone, Window, Checked, OnKeyring
<1>1. PICK q \in Requests[x] : q = Req(x)
    BY <1>0, Underway
<1>2. /\ RouteInv(x, q) /\ EndInv(x, q) /\ q.cmd \in {"setup", "clone", "push"}
      /\ pc \in [Repos -> Points] /\ slots \in [Backend -> SUBSET PublicKeys] /\ Grown
      /\ Meant(q) \in Backend /\ Home[x] \in Machines
    BY <1>0, <1>1, AtBackend
<1>3. q.cmd = "clone"
    BY <1>0, <1>2 DEF RouteInv, Routes
<1>4. CASE git[x] # NoRemote
    BY <1>0, <1>4, Ending DEF GitClone
<1>5. CASE git[x] = NoRemote
    <2>1. /\ Continue(x, "keep endpoint")
          /\ git' = [git EXCEPT ![x].bucket = q.bucket] /\ UNCHANGED <<identity, slots>>
        BY <1>1, <1>5 DEF GitClone, keyring
    <2>2. /\ pc'[x] = "keep endpoint" /\ pc'[x] \in Window /\ job' = job /\ wish'[x] = wish[x]
          /\ outcome'[x] = outcome[x] /\ Req(x)' = q
        BY <1>1, <1>2, <2>1 DEF Continue, Goto, Window, Req
    <2>3. /\ git'[x].bucket = q.bucket /\ git'[x].endpoint = None /\ git'[x].encryption = None
          /\ git'[x].file = None /\ git'[x].recipients = {}
          /\ git[x].bucket = None /\ git[x].encryption = None /\ git[x].file = None
        <3>1. git \in [Repos -> Remote]
            BY DEF Turn, Good, TypeInv, TypeOK
        <3>2. git'[x] = [NoRemote EXCEPT !.bucket = q.bucket]
            BY <1>5, <2>1, <3>1
        <3>3. QED
            BY <1>5, <3>2 DEF NoRemote
    <2>4. wish[x] = None
        <3>1. WishInv(x)
            BY DEF Turn, Good, ReadyInv
        <3>2. ASSUME NEW p \in Requests[x], wish[x] = p PROVE FALSE
            <4>1. git[x].bucket = p.bucket
                BY <3>1, <3>2 DEF WishInv, Serves
            <4>2. QED
                BY <2>3, <4>1, Asked, SettingsAssumption DEF Request
        <3>3. QED
            BY <3>1, <3>2 DEF WishInv
    <2>5. GitInv(x)' /\ WishInv(x)' /\ PushedInv(x)'
        BY <1>0, <1>1, <2>2, <2>3, <2>4, Cloning
    <2>6. /\ SaveInv(x, q)' /\ RouteInv(x, q)' /\ KeyInv(x, q)' /\ LateInv(x, q)'
          /\ CheckInv(x, q)'
        <3>1. pc'[x] \in Checked /\ pc'[x] \in Routes(q.cmd) /\ pc'[x] \notin OnKeyring
            BY <1>3, <2>2 DEF Checked, OnKeyring, Routes
        <3>2. QED
            BY <1>0, <1>1, <1>3, <2>2, <3>1, CheckStays
    <2>7. EndInv(x, q)'
        <3>1. q.encryption = "age" => KeysIn(Home[x], job[x].file) \cap slots[Meant(q)] # {}
            BY <1>0, <1>2 DEF EndInv
        <3>2. q.encryption = "age" => KeysIn(Home[x], job[x].file)' \cap slots'[Meant(q)] # {}
            BY <2>1, <2>2, <3>1 DEF KeysIn
        <3>3. QED
            BY <2>2, <2>3, <2>4, <3>2 DEF EndInv, Meant
    <2>8. QED
        BY <2>2, <2>5, <2>6, <2>7 DEF Own, CommandInv, CommandOf
<1>6. QED
    BY <1>4, <1>5

(* The endpoint of the flags is kept in the new repository. *)
LEMMA KeepEndpointReady ==
    ASSUME Quiet, NEW x \in Repos, Turn(x), KeepEndpoint(x)
    PROVE  Own(x)
<1>0. /\ pc[x] = "keep endpoint" /\ pc[x] # "idle" /\ pc[x] \in {"check"} \cup Checked
      /\ pc[x] \in Checked
    BY DEF KeepEndpoint, Checked, OnKeyring
<1>1. PICK q \in Requests[x] : q = Req(x)
    BY <1>0, Underway
<1>2. /\ RouteInv(x, q) /\ EndInv(x, q) /\ CheckInv(x, q) /\ GitInv(x)
      /\ q.cmd \in {"setup", "clone", "push"}
      /\ pc \in [Repos -> Points] /\ Meant(q) \in Backend /\ Home[x] \in Machines
    BY <1>0, <1>1, AtBackend
<1>3. /\ q.cmd = "clone" /\ At(x) = Meant(q) /\ job[x].endpoint = q.endpoint
      /\ wish[x] = None /\ git[x].bucket = q.bucket /\ git[x].recipients = {}
    BY <1>0, <1>2 DEF RouteInv, Routes, CheckInv, EndInv
<1>4. /\ Continue(x, "keep file") /\ UNCHANGED <<identity, slots>>
      /\ git' = [git EXCEPT ![x].endpoint = IF job[x].cfg.endpoint = Aws THEN @
                                            ELSE job[x].cfg.endpoint]
    BY DEF KeepEndpoint, keyring
<1>5. /\ pc'[x] = "keep file" /\ job' = job /\ wish'[x] = wish[x]
      /\ outcome'[x] = outcome[x] /\ Req(x)' = q
    BY <1>1, <1>2, <1>4 DEF Continue, Goto, Req
<1>6. /\ git'[x].bucket = git[x].bucket /\ git'[x].encryption = git[x].encryption
      /\ git'[x].file = git[x].file /\ git'[x].recipients = git[x].recipients
      /\ git'[x].endpoint = IF job[x].cfg.endpoint = Aws THEN git[x].endpoint
                            ELSE job[x].cfg.endpoint
    <2>1. git \in [Repos -> Remote] /\ git[x] \in Remote
        BY DEF Turn, Good, TypeInv, TypeOK
    <2>2. QED
        BY <1>4, <2>1 DEF Remote
<1>7. git'[x].endpoint = q.endpoint
    <2>1. job[x].cfg.endpoint = OrDefault(q.endpoint, Aws)
        BY <1>3, Asked DEF At
    <2>2. q.endpoint \in Endpoints \cup {None} /\ Aws \notin Endpoints /\ Aws # None
        BY Asked, SettingsAssumption DEF Request
    <2>3. git[x].endpoint \in {None, q.endpoint}
        BY <1>2 DEF GitInv
    <2>4. QED
        BY <1>6, <2>1, <2>2, <2>3 DEF OrDefault
<1>8. GitInv(x)' /\ WishInv(x)' /\ PushedInv(x)'
    BY <1>0, <1>1, <1>3, <1>5, <1>6, <1>7, Cloning
<1>9. /\ SaveInv(x, q)' /\ RouteInv(x, q)' /\ KeyInv(x, q)' /\ LateInv(x, q)'
      /\ CheckInv(x, q)'
    <2>1. pc'[x] \in Checked /\ pc'[x] \in Routes(q.cmd) /\ pc'[x] \notin OnKeyring
        BY <1>3, <1>5 DEF Checked, OnKeyring, Routes
    <2>2. QED
        BY <1>0, <1>1, <1>3, <1>5, <2>1, CheckStays
<1>10. EndInv(x, q)'
    <2>1. q.encryption = "age" => KeysIn(Home[x], job[x].file) \cap slots[Meant(q)] # {}
        BY <1>0, <1>2 DEF EndInv
    <2>2. q.encryption = "age" => KeysIn(Home[x], job[x].file)' \cap slots'[Meant(q)] # {}
        BY <1>4, <1>5, <2>1 DEF KeysIn
    <2>3. Configured(x)' = Looked(x, q)'
        <3>1. Env[Home[x]].endpoint \in {None, q.endpoint}
            BY <1>3 DEF Quiet, Agreed, Backed
        <3>2. QED
            BY <1>3, <1>5, <1>7, <3>1 DEF Configured, Looked, Lookup, OrDefault
    <2>4. QED
        BY <1>3, <1>5, <1>6, <2>2, <2>3 DEF EndInv, Meant
<1>11. QED
    BY <1>5, <1>8, <1>9, <1>10 DEF Own, CommandInv, CommandOf

(* The key file of the flags is kept, and the clone is ready. *)
LEMMA KeepFileReady ==
    ASSUME Quiet, NEW x \in Repos, Turn(x), KeepFile(x)
    PROVE  Own(x)
<1>0. /\ pc[x] = "keep file" /\ pc[x] # "idle" /\ pc[x] \in {"check"} \cup Checked
      /\ pc[x] \in Checked /\ pc[x] \notin Window
    BY DEF KeepFile, Checked, OnKeyring, Window
<1>1. PICK q \in Requests[x] : q = Req(x)
    BY <1>0, Underway
<1>2. /\ RouteInv(x, q) /\ EndInv(x, q) /\ CheckInv(x, q) /\ GitInv(x) /\ KeyInv(x, q)
      /\ ~Before(x, q) /\ ~FillStore(x) /\ Moded(Home[x], q) /\ Keyed(Home[x], q)
      /\ q.cmd \in {"setup", "clone", "push"} /\ q.encryption \in {"age", "none"}
      /\ pc \in [Repos -> Points] /\ Meant(q) \in Backend /\ Home[x] \in Machines
    BY <1>0, <1>1, AtBackend
<1>3. /\ q.cmd = "clone" /\ Found(Home[x], q, Looked(x, q))
      /\ Configured(x) = Looked(x, q)
      /\ wish[x] = None /\ git[x].bucket = q.bucket /\ git[x].recipients = {}
      /\ q.encryption = "age" => KeysIn(Home[x], job[x].file) \cap slots[Meant(q)] # {}
    BY <1>0, <1>2 DEF RouteInv, Routes, CheckInv, EndInv
<1>4. /\ Continue(x, "end") /\ UNCHANGED <<identity, slots>>
      /\ git' = [git EXCEPT ![x].file = q.identity]
    BY <1>1 DEF KeepFile, keyring
<1>5. /\ pc'[x] = "end" /\ job' = job /\ wish'[x] = wish[x]
      /\ outcome'[x] = outcome[x] /\ Req(x)' = q
    BY <1>1, <1>2, <1>4 DEF Continue, Goto, Req
<1>6. /\ git'[x].bucket = git[x].bucket /\ git'[x].encryption = git[x].encryption
      /\ git'[x].endpoint = git[x].endpoint /\ git'[x].recipients = git[x].recipients
      /\ git'[x].file = q.identity
    <2>1. git \in [Repos -> Remote] /\ git[x] \in Remote
        BY DEF Turn, Good, TypeInv, TypeOK
    <2>2. QED
        BY <1>4, <2>1 DEF Remote
<1>7. q.identity \in SshKeys \cup {None} /\ q.identity # "default"
    BY Asked, SettingsAssumption DEF Request, File
<1>8. Chosen(q) = IF q.identity = None THEN "default" ELSE q.identity
    BY <1>3 DEF Chosen
<1>9. q.encryption = "age" => job[x].file = Chosen(q)
    BY <1>2, <1>3 DEF KeyInv
<1>10. q.encryption = "age" /\ q.identity # None => q.identity \in slots'[Meant(q)]
    BY <1>3, <1>4, <1>7, <1>8, <1>9 DEF KeysIn
<1>11. git[x].bucket # None
    BY <1>3, Asked, SettingsAssumption DEF Request
<1>12. GitInv(x)' /\ WishInv(x)' /\ PushedInv(x)'
    <2>1. git[x].endpoint \in {None, q.endpoint} /\ (~Sole(Home[x], q) => git[x].endpoint = q.endpoint)
        BY <1>0, <1>2, <1>11 DEF GitInv
    <2>2. QED
        BY <1>0, <1>1, <1>2, <1>3, <1>5, <1>6, <1>7, <1>10, <2>1, Cloning
<1>13. /\ SaveInv(x, q)' /\ RouteInv(x, q)' /\ KeyInv(x, q)' /\ LateInv(x, q)'
       /\ CheckInv(x, q)'
    <2>1. pc'[x] \in Checked /\ pc'[x] \in Routes(q.cmd) /\ pc'[x] \notin OnKeyring
        BY <1>3, <1>5 DEF Checked, OnKeyring, Routes
    <2>2. QED
        BY <1>0, <1>1, <1>3, <1>5, <2>1, CheckStays
<1>14. Found(Home[x], q, Configured(x))'
    <2>1. Tokens(Home[x])' = Tokens(Home[x])
        BY <1>0, <1>2, TokensStep DEF Quiet, Turn, Good
    <2>2. Configured(x)' = Configured(x)
        BY <1>6 DEF Configured
    <2>3. QED
        BY <1>3, <2>1, <2>2 DEF Found, Meant
<1>15. ModeOf(x)' = q.encryption
    <2>1. git[x].encryption # None => git[x].encryption = "none" /\ q.encryption = "none"
        BY <1>2 DEF GitInv
    <2>2. None # "age" /\ None # "none"
        BY SettingsAssumption DEF Modes
    <2>3. QED
        BY <1>2, <1>3, <1>6, <2>1, <2>2 DEF ModeOf, Moded, Lookup, OrDefault
<1>16. q.encryption = "age" => Opening(x, q)'
    <2>1. \/ Env[Home[x]].file \in {None, Chosen(q)} /\ Global[Home[x]].file \in {None, Chosen(q)}
          \/ q.encryption = "none"
        BY <1>2, <1>3 DEF Keyed
    <2>2. None # "default"
        BY SettingsAssumption DEF File
    <2>3. q.encryption = "age" => FileOf(x)' = Chosen(q)
        BY <1>6, <1>8, <2>1, <2>2 DEF FileOf, Lookup, OrDefault
    <2>4. QED
        BY <1>3, <1>4, <1>9, <2>3 DEF Opening, KeysIn, Meant
<1>17. CommandOf(x, q)'
    BY <1>2, <1>3, <1>5, <1>6, <1>13, <1>14, <1>15, <1>16 DEF CommandOf, EndInv, Serves
<1>18. QED
    BY <1>5, <1>12, <1>17 DEF Own, CommandInv

-----------------------------------------------------------------------------
(* The invariant is one *)

(* A kill can leave a bucket without its endpoint only where the name says *)
(* enough.                                                                 *)
LEMMA KillReady ==
    ASSUME Quiet, NEW x \in Repos, Turn(x), Kill(x)
    PROVE  Own(x)
<1>1. End(x, "killed") /\ git'[x] = git[x] /\ pc[x] \in Killable
    BY DEF Kill, local
<1>2. pc[x] \notin Window \/ \A q \in Requests[x] : Sole(Home[x], q)
    BY <1>1 DEF Window, Quiet, Agreed, Backed, Qualified
<1>3. QED
    BY <1>1, <1>2, Ending

(* So every step of a command keeps the invariant for its own repository. *)
LEMMA OwnKeeps ==
    ASSUME Quiet, NEW x \in Repos, Turn(x)
    PROVE  Own(x)
<1>1. CASE \E req \in Requests[x] : Start(x, req)
    BY <1>1, StartReady
<1>2. CASE Kill(x)
    BY <1>2, KillReady
<1>3. CASE Step(x)
    BY <1>3, AskRemoteReady, AskTokenReady, PickKeyReady, ConfirmReady, ReadReady, FillReady,
       EnsureReady, SetFileReady, SetURLReady, SetEndpointReady, SetModeReady,
       AddRecipientReady, AllListedReady, LoadReady, CheckReady, FinishReady, RepoReady,
       PublishReady, GrantReady, RecoveryReady, SlotsReady, AccessReady, GitCloneReady,
       KeepEndpointReady, KeepFileReady DEF Step
<1>4. QED
    BY <1>1, <1>2, <1>3 DEF Turn, Task

(* Where nothing happens, nothing is lost. *)
LEMMA Stuttering ==
    ASSUME ReadyInv, UNCHANGED vars
    PROVE  ReadyInv'
<1>0. UNCHANGED <<git, store, identity, slots, pc, job, outcome, wish>>
    BY DEF vars, local, keyring
<1>1. \A m : Tokens(m)' = Tokens(m)
    BY <1>0 DEF Tokens, Rewriting
<1>2. TokenInv'
    BY <1>1 DEF ReadyInv, TokenInv, Sole, Meant
<1>3. ASSUME NEW r \in Repos
      PROVE  CommandInv(r)' /\ GitInv(r)' /\ WishInv(r)' /\ PushedInv(r)'
    <2>0. CommandInv(r) /\ GitInv(r) /\ WishInv(r) /\ PushedInv(r)
        BY DEF ReadyInv
    <2>1. /\ Configured(r)' = Configured(r) /\ ModeOf(r)' = ModeOf(r) /\ FileOf(r)' = FileOf(r)
          /\ Late(r)' = Late(r) /\ Wanted(r)' = Wanted(r) /\ At(r)' = At(r) /\ Mode(r)' = Mode(r)
          /\ Req(r)' = Req(r)
        BY <1>0 DEF Configured, ModeOf, FileOf, Late, Wanted, At, Mode, Req
    <2>2. ASSUME NEW q
          PROVE  /\ Looked(r, q)' = Looked(r, q) /\ Before(r, q)' = Before(r, q)
                 /\ Useless(Home[r], q)' = Useless(Home[r], q)
                 /\ \A e : Found(Home[r], q, e)' = Found(Home[r], q, e)
                 /\ Opening(r, q)' = Opening(r, q) /\ Sees(r, q)' = Sees(r, q)
        BY <1>0, <1>1, <2>1 DEF Looked, Before, Useless, Sole, Meant, Found, Opening, Sees, KeysIn
    <2>3. \A f : KeysIn(Home[r], f)' = KeysIn(Home[r], f)
        BY <1>0 DEF KeysIn
    <2>4. ASSUME NEW q PROVE Serves(r, q)' = Serves(r, q)
        <3>1. Found(Home[r], q, Configured(r))' = Found(Home[r], q, Configured(r))
            BY <1>1, <2>1 DEF Found, Meant
        <3>2. QED
            BY <1>0, <2>1, <2>2, <3>1 DEF Serves
    <2>5. ASSUME NEW q \in Requests[r], CommandOf(r, q) PROVE CommandOf(r, q)'
        <3>1. SaveInv(r, q)' /\ RouteInv(r, q)' /\ KeyInv(r, q)' /\ LateInv(r, q)'
            <4>1. Before(r, q)' = Before(r, q) /\ Useless(Home[r], q)' = Useless(Home[r], q)
                BY <2>2
            <4>2. SaveInv(r, q)' /\ RouteInv(r, q)'
                BY <1>0, <4>1, <2>5 DEF CommandOf, SaveInv, RouteInv, Sole, Meant
            <4>3. KeyInv(r, q)' /\ LateInv(r, q)'
                BY <1>0, <4>1, <2>1, <2>5 DEF CommandOf, KeyInv, LateInv
            <4>4. QED
                BY <4>2, <4>3
        <3>2. CheckInv(r, q)'
            BY <1>0, <1>1, <2>1, <2>2, <2>5 DEF CommandOf, CheckInv, Meant, Found
        <3>3. EndInv(r, q)'
            BY <1>0, <2>1, <2>2, <2>3, <2>4, <2>5 DEF CommandOf, EndInv, Meant
        <3>4. QED
            BY <3>1, <3>2, <3>3 DEF CommandOf
    <2>6. CommandInv(r)'
        BY <1>0, <2>0, <2>1, <2>5 DEF CommandInv
    <2>7. GitInv(r)'
        BY <1>0, <2>0, <2>3 DEF GitInv, Sole, Meant, Chosen, Between
    <2>8. WishInv(r)' /\ PushedInv(r)'
        BY <1>0, <2>0, <2>1, <2>4 DEF WishInv, PushedInv, Chosen
    <2>9. QED
        BY <2>6, <2>7, <2>8
<1>4. QED
    BY <1>2, <1>3 DEF ReadyInv

(* Every step of every command keeps it for all repositories. *)
LEMMA ReadyInvNext ==
    ASSUME Quiet, TypeInv, OwnFile, ReadyInv, [Next]_vars, OwnFile'
    PROVE  ReadyInv'
<1>1. CASE UNCHANGED vars
    BY <1>1, Stuttering
<1>2. CASE Next
    <2>1. PICK x \in Repos : Task(x)
        BY <1>2 DEF Next, Task
    <2>2. Turn(x)
        BY <2>1 DEF Turn, Good
    <2>3. CommandInv(x)' /\ GitInv(x)' /\ WishInv(x)' /\ PushedInv(x)'
        BY <2>2, OwnKeeps DEF Own
    <2>4. \A r \in Repos \ {x} : CommandInv(r)' /\ GitInv(r)' /\ WishInv(r)' /\ PushedInv(r)'
        BY <2>2, OthersKeep
    <2>5. TokenInv'
        BY <2>2, TurnKeeps
    <2>6. QED
        BY <2>3, <2>4, <2>5 DEF ReadyInv
<1>3. QED
    BY <1>1, <1>2

(* A repository that works is usable. *)
LEMMA ServesIsUsable ==
    ASSUME Quiet, TypeInv, OwnFile, ReadyInv, NEW r \in Repos, NEW q \in Requests[r],
           Serves(r, q), ~Rewriting(Home[r])
    PROVE  /\ Session(r).bucket = q.bucket /\ Session(r).endpoint = Meant(q).endpoint
           /\ Reachable(Session(r)) /\ Session(r).encryption = ModeOf(r)
           /\ Session(r).file = FileOf(r)
<1> DEFINE m == Home[r]
<1>1. /\ Meant(q) \in Backend /\ Meant(q).bucket = q.bucket /\ git[r].bucket = q.bucket
      /\ Found(m, q, Configured(r))
    BY Asked DEF Serves
<1>2. Tokens(m) = store[m]
    BY DEF Tokens
<1>3. IsFiniteSet(Complete(store[m]))
    BY <1>2 DEF ReadyInv, TokenInv
<1>4. Finds(EnvToken[m], store[m],
            Lookup(Env[m].endpoint, git[r].endpoint, Global[m].endpoint), Meant(q))
    BY <1>1, <1>2 DEF Found, Configured
<1>5. Reaches(Session(r), Meant(q))
    BY <1>1, <1>3, <1>4, FoundIsLoaded DEF Session
<1>6. /\ Session(r).bucket = q.bucket /\ Session(r).encryption = ModeOf(r)
      /\ Session(r).file = FileOf(r)
    BY <1>1 DEF Session, Load, ModeOf, FileOf
<1>7. QED
    BY <1>5, <1>6 DEF Reaches

(* A repository that serves its request is usable, and a push from it can   *)
(* be read.                                                                 *)
LEMMA ReadyIsUsable ==
    ASSUME Quiet, TypeInv, OwnFile, ReadyInv
    PROVE  StaysUsable /\ WhoPushedCanRead
<1>1. ASSUME NEW r \in Repos, wish[r] # None, ~Rewriting(Home[r])
      PROVE  Usable(r, wish[r])
    <2>1. WishInv(r)
        BY DEF ReadyInv
    <2>2. PICK q \in Requests[r] : q = wish[r]
        BY <1>1, <2>1 DEF WishInv
    <2>3. Serves(r, q) /\ ModeOf(r) = q.encryption
        BY <2>1, <2>2 DEF WishInv
    <2>4. /\ Session(r).bucket = q.bucket /\ Session(r).endpoint = Meant(q).endpoint
          /\ Reachable(Session(r)) /\ Session(r).encryption = ModeOf(r)
          /\ Session(r).file = FileOf(r)
        BY <1>1, <2>3, ServesIsUsable
    <2>5. q.encryption = "age" => Opening(r, q)
        BY <2>3 DEF Serves
    <2>6. QED
        BY <2>2, <2>3, <2>4, <2>5 DEF Usable, Opening
<1>2. ASSUME NEW r \in Repos, outcome[r] = "pushed", ~Rewriting(Home[r])
      PROVE  Session(r).encryption = "none" \/ Opens(r)
    <2>1. PICK q \in Requests[r] : Serves(r, q)
        BY <1>2 DEF ReadyInv, PushedInv
    <2>2. /\ Session(r).bucket = q.bucket /\ Session(r).endpoint = Meant(q).endpoint
          /\ Session(r).encryption = ModeOf(r) /\ Session(r).file = FileOf(r)
        BY <1>2, <2>1, ServesIsUsable
    <2>3. [endpoint |-> Session(r).endpoint, bucket |-> Session(r).bucket] = Meant(q)
        BY <2>2, Asked DEF Backend
    <2>4. QED
        BY <2>1, <2>2, <2>3 DEF Serves, Opening, Opens
<1>3. QED
    BY <1>1, <1>2 DEF StaysUsable, WhoPushedCanRead

(* The three invariants hold together: the last needs the first two, and    *)
(* that its own configuration and keyring are nobody else's to undo.        *)
LEMMA GoodAlways ==
    ASSUME Alone, Agreed, "fill store" \notin Killable
    PROVE  Spec => []Good
<1>1. Quiet
    BY DEF Quiet
<1>2. Init => Good
    BY TypeInvInit, OwnFileInit, ReadyInvInit DEF Good
<1>3. Good /\ [Next]_vars => Good'
    BY <1>1, TypeInvNext, OwnFileNext, ReadyInvNext DEF Good
<1>4. QED
    BY <1>2, <1>3, PTL DEF Spec

(* What setup or clone declared ready works, and goes on working, while the *)
(* same command is run again and killed, and while other repositories and   *)
(* machines are connected: without flags its sessions reach the backend     *)
(* that was asked for, in the mode that was asked for, with a machine key   *)
(* that opens the keyring.  This is for machines on which one command runs  *)
(* at a time and is not killed while the credentials file is empty, and for *)
(* requests that agree (Agreed), which asks of the environment, of          *)
(* recipient files and of SSH identities what they can break.               *)
THEOREM ReadyStaysUsable ==
    ASSUME Alone, Agreed, "fill store" \notin Killable
    PROVE  Spec => []StaysUsable
<1>1. Spec => []Good
    BY GoodAlways
<1>2. Good => StaysUsable
    BY ReadyIsUsable DEF Good, Quiet
<1>3. QED
    BY <1>1, <1>2, PTL

(* Under the same conditions whoever has pushed can open the keyring, if    *)
(* there is one, also when the push founded it for the recipients that a    *)
(* setup killed between two of them left in the configuration.  Agreed      *)
(* excludes the two cases in which that fails: an SSH identity whose own    *)
(* key is not the first recipient to be written, and recipients of the      *)
(* environment or of recipient files without a key of the pusher's.         *)
THEOREM WhoPushesCanRead ==
    ASSUME Alone, Agreed, "fill store" \notin Killable
    PROVE  Spec => []WhoPushedCanRead
<1>1. Spec => []Good
    BY GoodAlways
<1>2. Good => WhoPushedCanRead
    BY ReadyIsUsable DEF Good, Quiet
<1>3. QED
    BY <1>1, <1>2, PTL
=============================================================================
