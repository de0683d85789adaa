--------------------------- MODULE OnboardingInv ---------------------------
(***************************************************************************)
(* The inductive invariants of Onboarding, and what the requests must      *)
(* agree on for a repository to stay usable.  OnboardingProofs proves that *)
(* they are invariants; MCOnboarding checks that the requests of its       *)
(* instance agree.                                                         *)
(***************************************************************************)
EXTENDS Onboarding

-----------------------------------------------------------------------------
(* Types *)

Resolving == {"check", "repo pub", "publish", "grant", "recovery", "slots", "unwrap", "access",
              "git clone", "keep endpoint"}

Saving == {"read store", "empty store", "fill store"}

(* A command under way has a request and a number; it has a section when it *)
(* saves a token, a configuration when it talks to the backend, and, when   *)
(* it loads one, a remote.                                                  *)
JobInv(r) ==
    pc[r] # "idle" =>
        /\ Req(r) \in Requests[r]
        /\ job[r].run \in AgeKeys
        /\ pc[r] \in Resolving => job[r].cfg \in Resolved
        /\ pc[r] \in Saving => job[r].section \in Backend
        /\ pc[r] = "confirm" /\ job[r].entered => job[r].section \in Backend
        /\ \/ Req(r).cmd = "push"
           \/ /\ Req(r).cmd = "setup"
              /\ pc[r] \in {"set endpoint", "set mode", "load"} \/ job[r].cfg # None
           => git[r].bucket = Req(r).bucket

TypeInv == TypeOK /\ \A r \in Repos : JobInv(r)

-----------------------------------------------------------------------------
(* No machine loses a key *)

(* At most one command is under way on a machine, and the one that is about *)
(* to write the key file has found none.                                    *)
OwnFile ==
    /\ \A r, s \in Repos :
          Home[r] = Home[s] /\ pc[r] # "idle" /\ pc[s] # "idle" => r = s
    /\ \A r \in Repos : pc[r] \in {"generate", "fill file"} => identity[Home[r]] = {}

-----------------------------------------------------------------------------
(* What the requests must agree on *)

(* The key file that a request settles on, if the wizard finds no SSH key. *)
Chosen(q) ==
    IF q.identity = None \/ (q.cmd = "setup" /\ q.wizard) THEN "default" ELSE q.identity

(* A repository is asked for in one way. *)
Compatible(p, q) ==
    /\ p.bucket = q.bucket /\ p.endpoint = q.endpoint /\ p.encryption = q.encryption
    /\ p.cmd = "setup" /\ q.cmd = "setup" => Chosen(p) = Chosen(q)

(* All that a machine asks for by this bucket name is one backend. *)
Sole(m, q) ==
    \A s \in Repos : Home[s] = m =>
        \A p \in Requests[s] : p.bucket = q.bucket => p.endpoint = q.endpoint

(* Two backends with one bucket name are told apart by their endpoints,    *)
(* which no kill keeps out of the configuration.                           *)
Qualified(m, q) ==
    /\ q.endpoint # None
    /\ Env[m].endpoint = None
    /\ "set endpoint" \notin Killable /\ "keep endpoint" \notin Killable

(* The environment leads to no other backend. *)
Backed(m, q) ==
    /\ Sole(m, q) \/ Qualified(m, q)
    /\ Sole(m, q) /\ EnvToken[m] # None /\ EnvToken[m].bucket = q.bucket => EnvToken[m] = Meant(q)
    /\ q.cmd = "clone" => Env[m].endpoint \in {None, q.endpoint}

(* Nor do the environment and the user's configuration to another mode; a  *)
(* clone has no other source for it.                                       *)
Moded(m, q) ==
    /\ Env[m].encryption \in {None, q.encryption}
    /\ q.encryption = "age" => Global[m].encryption \in {None, "age"}
    /\ q.cmd = "clone" /\ q.encryption = "none" =>
         "none" \in {Env[m].encryption, Global[m].encryption}

(* Nor to another key file.  The wizard finds no SSH key.  Who names a key *)
(* file and recipients names its key among them: it alone, or no kill      *)
(* comes between the recipients.                                           *)
Keyed(m, q) ==
    q.encryption = "age" /\ q.cmd # "push" =>
        /\ Env[m].file \in {None, Chosen(q)} /\ Global[m].file \in {None, Chosen(q)}
        /\ q.cmd = "setup" /\ q.wizard => Ssh[m] = {}
        /\ q.cmd = "setup" /\ Chosen(q) # "default" =>
             \/ q.extra \subseteq {q.identity}
             \/ q.identity \in q.extra /\ "set mode" \notin Killable

(* Recipients that the remote has not are those of a key file that the     *)
(* environment names.                                                      *)
Founding(m) ==
    /\ Env[m].recipients # {} => Env[m].file \in Env[m].recipients
    /\ Listed(m, {}) # {} => Env[m].file \in Listed(m, {})

Agreed ==
    \A r \in Repos :
        /\ Founding(Home[r])
        /\ \A p, q \in Requests[r] : Compatible(p, q)
        /\ \A q \in Requests[r] : Backed(Home[r], q) /\ Moded(Home[r], q) /\ Keyed(Home[r], q)

-----------------------------------------------------------------------------
(* What a command finds *)

(* The token for x is found with the endpoint e: it is in the environment, *)
(* or in the store, and there is no other to be confused with.             *)
Finds(token, creds, e, x) ==
    \/ token = x /\ OrDefault(e, Aws) = x.endpoint
    \/ /\ token = None /\ creds[x] = x
       /\ e = x.endpoint \/ (e = None /\ Matches(creds, None, x.bucket) = {x})

(* What its credentials file holds, or is about to hold again. *)
Tokens(m) ==
    IF Rewriting(m)
    THEN job[CHOOSE s \in Repos : Home[s] = m /\ pc[s] = "fill store"].sections
    ELSE store[m]

-----------------------------------------------------------------------------
(* A repository that was declared ready stays usable *)

(* What the configuration of the repository leads to, and a clone's flags. *)
Configured(r) == Lookup(Env[Home[r]].endpoint, git[r].endpoint, Global[Home[r]].endpoint)

Looked(r, q) ==
    IF q.cmd = "clone"
    THEN Lookup(OrDefault(job[r].endpoint, Env[Home[r]].endpoint), None, Global[Home[r]].endpoint)
    ELSE Configured(r)

ModeOf(r) ==
    OrDefault(Lookup(Env[Home[r]].encryption, git[r].encryption, Global[Home[r]].encryption),
              "age")

FileOf(r) ==
    OrDefault(Lookup(Env[Home[r]].file, git[r].file, Global[Home[r]].file), "default")

Found(m, q, e) == Finds(EnvToken[m], Tokens(m), e, Meant(q))

Opening(r, q) == KeysIn(Home[r], FileOf(r)) \cap slots[Meant(q)] # {}

(* The repository works: the backend is found, and its key opens it. *)
Serves(r, q) ==
    /\ git[r].bucket = q.bucket
    /\ Found(Home[r], q, Configured(r))
    /\ ModeOf(r) = "none" \/ Opening(r, q)

(* A machine has no token but for a backend that is asked for there. *)
TokenInv ==
    \A r \in Repos :
        /\ IsFiniteSet(Complete(Tokens(Home[r])))
        /\ \A q \in Requests[r] : \A x \in Backend :
             x = Meant(q) \/ (Sole(Home[r], q) /\ x.bucket = q.bucket) =>
               Tokens(Home[r])[x] \in {None, Meant(q)}

(* No other repository relies on there being one token for the bucket. *)
Useless(m, q) ==
    /\ Sole(m, q)
    /\ \/ Matches(Tokens(m), None, q.bucket) # {Meant(q)}
       \/ Env[m].endpoint # None
       \/ Global[m].endpoint # None

(* A token is saved where it belongs, or, after an interrupted setup, under *)
(* no endpoint.                                                            *)
SaveInv(r, q) ==
    /\ pc[r] = "ask remote" => ~job[r].entered
    /\ pc[r] \in {"pick key", "confirm"} /\ job[r].entered => job[r].section = Meant(q)
    /\ pc[r] = "empty store" => job[r].sections = store[Home[r]]
    /\ pc[r] \in Saving => \/ job[r].section = Meant(q)
                           \/ job[r].section.bucket = q.bucket /\ Useless(Home[r], q)

Window == {"set endpoint", "keep endpoint"}

(* The recipients are being added, and nothing stops that halfway. *)
Between(r) == pc[r] = "set mode" /\ pc[r] \notin Killable

(* The configuration comes from the requests.  The recipients in it include *)
(* a key of the file the repository uses.                                  *)
GitInv(r) ==
    LET m == Home[r]
    IN  /\ git[r].file # "default"
        /\ \A q \in Requests[r] :
             /\ git[r].bucket \in {None, q.bucket} /\ git[r].endpoint \in {None, q.endpoint}
             /\ git[r].encryption # None => git[r].encryption = "none" /\ q.encryption = "none"
             /\ git[r].bucket # None /\ ~Sole(m, q) /\ pc[r] \notin Window =>
                  git[r].endpoint = q.endpoint
             /\ git[r].file # None =>
                  \/ q.encryption = "none"
                  \/ \E p \in Requests[r] : p.cmd = "setup" /\ Chosen(p) = git[r].file
                  \/ git[r].file \in slots[Meant(q)]
        /\ git[r].recipients # {} =>
             \E p \in Requests[r] :
               /\ p.cmd = "setup" /\ p.encryption = "age"
               /\ Between(r) \/ KeysIn(m, Chosen(p)) \cap git[r].recipients # {}
               /\ Chosen(p) # "default" => git[r].file = Chosen(p)

Early == {"ask remote", "ask token", "pick key", "ensure", "generate", "fill file"}

(* The key file is not settled yet. *)
Before(r, q) ==
    \/ pc[r] \in Early
    \/ q.cmd = "clone" /\ (pc[r] = "confirm" \/ (pc[r] \in Saving /\ job[r].cfg = None))

(* Setup has recipients. *)
Late(r) ==
    \/ pc[r] \in {"set url", "set endpoint", "set mode", "load", "check", "repo pub", "publish",
                  "grant", "recovery", "slots", "unwrap", "end"}
    \/ pc[r] \in Saving /\ job[r].cfg # None

Routes(cmd) ==
    CASE cmd = "setup" -> Points \ {"access", "git clone", "keep endpoint", "keep file"}
      [] cmd = "push" -> {"load", "check", "end", "repo pub", "publish", "grant", "access"}
      [] cmd = "clone" -> {"ask token", "confirm", "ensure", "generate", "fill file", "load",
                           "check", "repo pub", "access", "git clone", "keep endpoint", "keep file",
                           "end"} \cup Saving

(* Where a command can be.  The wizard may take the endpoint as it is. *)
RouteInv(r, q) ==
    /\ pc[r] \in Routes(q.cmd)
    /\ q.cmd = "setup" /\ pc[r] \in {"ask remote", "ask token", "pick key"} => q.wizard
    /\ q.cmd = "setup" /\ pc[r] \in {"ensure", "generate", "fill file"} => ~q.wizard
    /\ pc[r] \in {"generate", "fill file"} => q.identity = None
    /\ pc[r] \in Early \cup {"confirm"} => job[r].cfg = None
    /\ \/ job[r].endpoint = q.endpoint
       \/ /\ q.cmd = "setup" /\ pc[r] \notin {"ask remote", "ask token"}
          /\ job[r].endpoint = None
          /\ Sole(Home[r], q) \/ git[r].endpoint = q.endpoint

(* The key file, and the recipients that setup takes from it. *)
KeyInv(r, q) ==
    q.cmd # "push" /\ q.encryption = "age" =>
        IF Before(r, q)
        THEN job[r].own = {} /\ job[r].file = "default"
        ELSE /\ job[r].file = Chosen(q)
             /\ q.cmd = "setup" =>
                  IF Chosen(q) = "default"
                  THEN job[r].own # {} /\ job[r].own \subseteq identity[Home[r]]
                  ELSE job[r].own = {}

(* What setup has configured. *)
LateInv(r, q) ==
    q.cmd = "setup" =>
        /\ q.encryption = "age" /\ Late(r) =>
             /\ Wanted(r) # {}
             /\ Chosen(q) # "default" => git[r].file = Chosen(q)
        /\ q.encryption = "none" /\ (pc[r] \in {"load", "check", "end"} \/ job[r].cfg # None) =>
             git[r].encryption = "none"

OnKeyring == {"repo pub", "publish", "grant", "recovery", "slots", "unwrap", "access"}
Checked == OnKeyring \cup {"git clone", "keep endpoint", "keep file", "end"}

(* Past the check of the bucket, a command is at the backend it was meant  *)
(* for.                                                                    *)
CheckInv(r, q) ==
    /\ pc[r] \in Checked \/ (pc[r] = "check" /\ Reachable(job[r].cfg)) =>
         At(r) = Meant(q) /\ Found(Home[r], q, Looked(r, q))
    /\ pc[r] \in {"check"} \cup Checked =>
         /\ job[r].cfg \in Resolved
         /\ q.cmd = "push" => job[r].cfg.encryption = ModeOf(r) /\ job[r].file = FileOf(r)
         /\ q.cmd = "clone" => job[r].cfg.encryption = q.encryption
    /\ pc[r] \in OnKeyring => Mode(r) = "age"

(* The keyring opens to a key of the repository, or is about to. *)
Sees(r, q) == (job[r].todo \cup slots[Meant(q)]) \cap KeysIn(Home[r], FileOf(r)) # {}

EndInv(r, q) ==
    /\ pc[r] \in {"unwrap", "grant"} => Sees(r, q)
    /\ pc[r] = "recovery" => Opening(r, q)
    /\ pc[r] \in {"git clone", "keep endpoint", "keep file"} /\ q.encryption = "age" =>
         KeysIn(Home[r], job[r].file) \cap slots[Meant(q)] # {}
    /\ pc[r] \in {"keep endpoint", "keep file"} =>
         wish[r] = None /\ git[r].bucket = q.bucket /\ git[r].recipients = {}
    /\ pc[r] = "keep file" => Configured(r) = Looked(r, q)
    /\ pc[r] = "end" => Serves(r, q) /\ (q.cmd # "push" => ModeOf(r) = q.encryption)

(* A repository that was declared ready works as was asked for, while the  *)
(* same command is run again and while it pushes.                          *)
WishInv(r) ==
    /\ wish[r] \in Requests[r] \cup {None}
    /\ \A q \in Requests[r] : wish[r] = q =>
         /\ Serves(r, q) /\ ModeOf(r) = q.encryption
         /\ q.cmd = "setup" /\ q.encryption = "age" /\ Chosen(q) # "default" =>
              git[r].file = Chosen(q)
         /\ pc[r] # "idle" => Req(r) = q \/ Req(r).cmd = "push"

PushedInv(r) ==
    outcome[r] = "pushed" => pc[r] = "idle" /\ \E q \in Requests[r] : Serves(r, q)

(* A command under way, with the request q. *)
CommandOf(r, q) ==
    /\ SaveInv(r, q) /\ RouteInv(r, q) /\ KeyInv(r, q)
    /\ LateInv(r, q) /\ CheckInv(r, q) /\ EndInv(r, q)

CommandInv(r) == pc[r] # "idle" => \A q \in Requests[r] : Req(r) = q => CommandOf(r, q)

ReadyInv ==
    /\ TokenInv
    /\ \A r \in Repos : CommandInv(r) /\ GitInv(r) /\ WishInv(r) /\ PushedInv(r)
=============================================================================
