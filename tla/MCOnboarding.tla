--------------------------- MODULE MCOnboarding ---------------------------
(* Small instances of Onboarding.                                          *)
EXTENDS OnboardingInv, TLC

CONSTANTS laptop, desktop,      \* machines
          work, home, copy, bare, \* repositories
          e1, e2,               \* endpoints
          b1, b2,               \* buckets
          sshKey, mateKey       \* the desktop's SSH key, and a teammate's

MCEndpoints == {e1, e2}
MCBuckets == {b1, b2}
MCSshKeys == {sshKey, mateKey}
MCMachines == {laptop, desktop}
MCSsh == (laptop :> {}) @@ (desktop :> {sshKey})
Unset == [m \in MCMachines |-> NoSource]
NoToken == [m \in MCMachines |-> None]
NoDefaults == [m \in MCMachines |-> {}]
(* The desktop's user has a global endpoint.  The laptop's has a key in     *)
(* recipients.txt, which is not read for the recipient file without a key. *)
UserGlobal == [Unset EXCEPT ![desktop].endpoint = e2, ![laptop].lists = {{}}]
UserDefaults == [NoDefaults EXCEPT ![laptop] = {sshKey}]

Ask(cmd, wizard, endpoint, bucket) ==
    [cmd |-> cmd, wizard |-> wizard, endpoint |-> endpoint, bucket |-> bucket,
     encryption |-> "age", identity |-> None, extra |-> {}, verify |-> TRUE]

SetupWizard(e, b) == Ask("setup", TRUE, e, b)
SetupFlags(e, b) == Ask("setup", FALSE, e, b)
WithSshKey(req) == [req EXCEPT !.identity = sshKey, !.extra = {sshKey}]
Plain(req) == [req EXCEPT !.encryption = "none"]
Unverified(req) == [req EXCEPT !.verify = FALSE]

(* Three repositories of a laptop, one of them with a remote in plaintext, *)
(* and one of a desktop that shares a bucket with the first, by setup or   *)
(* as a clone.                                                             *)
FourRepos == {work, home, copy, bare}
FourHomes == (work :> laptop) @@ (home :> laptop) @@ (bare :> laptop) @@ (copy :> desktop)
Sharing ==
    (work :> {[SetupWizard(e1, b1) EXCEPT !.extra = {sshKey}]})
    @@ (home :> {[Unverified(SetupWizard(e2, b2)) EXCEPT !.extra = {sshKey}],
                 Ask("push", FALSE, e2, b2)})
    @@ (copy :> {WithSshKey(SetupFlags(e1, b1)),
                 [SetupFlags(e1, b1) EXCEPT !.identity = sshKey],
                 Ask("clone", FALSE, e1, b1),
                 [Ask("clone", TRUE, e1, b1) EXCEPT !.identity = sshKey]})
    @@ (bare :> {Plain(SetupFlags(e2, b2))})

(* The same bucket name on two backends. *)
TwoRepos == {work, home}
TwoHomes == (work :> laptop) @@ (home :> laptop)
SameName == (work :> {SetupWizard(None, b1)}) @@ (home :> {SetupWizard(e1, b1)})

(* Two setups with flags on a machine that has no key yet. *)
BothNew == (work :> {SetupFlags(e1, b1)}) @@ (home :> {SetupFlags(e2, b2)})

(* Plaintext first, encryption after. *)
OneRepo == {work}
OneHome == work :> laptop
ChangedMind == work :> {Plain(SetupFlags(e1, b1)), SetupFlags(e1, b1)}

(* A teammate is among the recipients; a push after what setup has done. *)
(* The token is in the environment.                                      *)
TokenInEnv == [m \in MCMachines |-> SectionKey(e1, b1)]
OnDesktop == work :> desktop
WithTeammate ==
    work :> {[SetupFlags(e1, b1) EXCEPT !.identity = sshKey, !.extra = {sshKey, mateKey}],
             Ask("push", FALSE, e1, b1)}
SetupThenPush == work :> {SetupFlags(e1, b1), Ask("push", FALSE, e1, b1)}

(* A command is killed anywhere but while the credentials file is rewritten. *)
OutsideRewriting == Points \ {"idle", "fill store"}
Nowhere == {}

(* The requests agree as the theorems ask of them, except those of someone *)
(* who changed their mind.                                                 *)
ASSUME Agreement ==
    /\ Requests = Sharing => Agreed
    /\ Requests = ChangedMind => ~Agreed
=============================================================================
