------------------------------ MODULE Settings ------------------------------
(***************************************************************************)
(* How a command finds the backend it talks to, the token for it, the      *)
(* encryption mode and the machine key: from the environment, the git      *)
(* configuration of the remote, the user's global git configuration, and   *)
(* the credentials file of the machine.                                    *)
(*                                                                         *)
(* Abstractions.  A backend is an endpoint and a bucket; a token opens the *)
(* bucket it was made for, and bears its name.  A setting that is not      *)
(* there is None.  Region and path style follow the endpoint.              *)
(***************************************************************************)
EXTENDS FiniteSets

CONSTANTS
    Endpoints,  \* endpoint URLs
    Aws,        \* the backend of an empty endpoint
    Buckets,    \* bucket names
    SshKeys,    \* SSH key pairs; the private half is a file of its own
    None

Backend == [endpoint : Endpoints \cup {Aws}, bucket : Buckets]

Token == Backend \cup {None}

(* The files a machine key may be in. *)
File == {"default"} \cup SshKeys

Modes == {"age", "none"}

(* What the environment, a remote or the global configuration may set.     *)
(* lists are the recipient files, each the set of the keys in it.          *)
Source == [endpoint : Endpoints \cup {None}, encryption : Modes \cup {None},
           file : File \cup {None}, recipients : SUBSET SshKeys,
           lists : SUBSET (SUBSET SshKeys)]

NoSource == [endpoint |-> None, encryption |-> None, file |-> None,
             recipients |-> {}, lists |-> {}]

Resolved == [endpoint : Endpoints \cup {Aws}, bucket : Buckets, token : Token,
             encryption : Modes, file : File]

(* None is none of the values it stands in for. *)
ASSUME SettingsAssumption ==
    /\ Aws \notin Endpoints
    /\ None \notin Endpoints \cup {Aws} \cup Buckets \cup Modes \cup File
    /\ None \notin Backend \cup Resolved
    /\ "default" \notin SshKeys

-----------------------------------------------------------------------------
(* The credentials file: one token for each section. *)

Credentials == [Backend -> Token]

NoCredentials == [x \in Backend |-> None]

SectionKey(endpoint, bucket) ==
    [endpoint |-> IF endpoint = None THEN Aws ELSE endpoint, bucket |-> bucket]

Complete(store) == {x \in Backend : store[x] # None}

(* The sections that answer for a bucket: the one of that endpoint, or,    *)
(* when no endpoint is configured, all of that bucket.                     *)
Matches(store, endpoint, bucket) ==
    {x \in Complete(store) : /\ x.bucket = bucket
                             /\ endpoint # None => x.endpoint = endpoint}

(* An ambiguous bucket is not guessed at. *)
Known(store, endpoint, bucket) == Cardinality(Matches(store, endpoint, bucket)) = 1

-----------------------------------------------------------------------------
(* Load *)

(* The first that is set, from the highest precedence to the lowest. *)
Lookup(env, git, global) ==
    IF env # None THEN env ELSE IF git # None THEN git ELSE global

LookupAll(env, git, global) ==
    IF env # {} THEN env ELSE IF git # {} THEN git ELSE global

(* Slip: what is not set stays so. *)
NoDefault(x, default) == x

OrDefault(x, default) == IF x = None THEN default ELSE x

(* token is the one in the environment.  The store is asked only without   *)
(* one, and then supplies the endpoint too when none is configured.        *)
Load(env, token, git, global, bucket, store) ==
    LET endpoint == Lookup(env.endpoint, git.endpoint, global.endpoint)
        known == token = None /\ Known(store, endpoint, bucket)
        entry == CHOOSE x \in Matches(store, endpoint, bucket) : TRUE
    IN  [endpoint |-> IF known THEN entry.endpoint ELSE OrDefault(endpoint, Aws),
         bucket |-> bucket,
         token |-> IF known THEN store[entry] ELSE token,
         encryption |-> OrDefault(Lookup(env.encryption, git.encryption, global.encryption),
                                  "age"),
         file |-> OrDefault(Lookup(env.file, git.file, global.file), "default")]

(* The token is for the bucket the settings lead to. *)
Reachable(cfg) == cfg.token = [endpoint |-> cfg.endpoint, bucket |-> cfg.bucket]
=============================================================================
