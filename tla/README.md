# A TLA+ specification of git-remote-s3vault

git-remote-s3vault is a git remote helper that keeps a repository, encrypted, in
an S3 bucket. Several clones push to and fetch from the bucket without a server
and without a lock: what they agree on, they agree on through single-object
writes, some of them conditional (`If-Match`, `If-None-Match`). These modules
model that agreement, TLC checks it on small instances, and TLAPS proves part of
it for all instances.

## 1. The system

### Objects in the bucket

| object | written by | how |
|---|---|---|
| `state-<gen>` | every push, rotation | one age-encrypted JSON record: ref table, HEAD, id of the one bundle that holds the history of all refs. Conditional write; a plain write where the backend has no conditional writes |
| `<gen>/...` | push, rotation, first use | a kopia repository, whose password is the repository key (DEK). Content addressed, only ever added to |
| per-ref manifests in `<gen>/` | older versions ("v2") | read when `state-<gen>` is missing; removed by the first push |
| `.keys/generation` | rotation | names the active generation; conditional write; missing means `data` |
| `.keys/rotation-next.age` | rotation | the key a rotation in progress will switch to, wrapped to the old one; plain write |
| `.keys/repo.pub` | keyring Init (create only), rotation (plain) | public half of the DEK |
| `.keys/dek/<label>.age`, `.pub` | grant, revoke, rotation | a copy of the DEK wrapped to a member, and the member's public key; two plain writes |
| `.keys/seal` | every keyring change | HMAC, under the DEK, of `repo.pub` and all slots; plain write |

On each machine there is, besides, one credentials file (tokens, one section for each
backend), one machine key file (age identities), and in each repository the git
configuration of the remote (URL, endpoint, mode, recipients, key file).

### Components

**Remote-helper session** (`internal/helper/helper.go`). One process per git
command; git sends it `list`, then `fetch` lines or `push` batches, one at a
time. It keeps, between commands, the ref table and HEAD it read (`h.refs`,
`h.headRef`), the record they came from (`h.state`), the ETag it believes that
record has (`h.stateETag`) and whether it has applied the record's bundle
(`h.unbundled`). `list` reads the record, or the v2 manifests. `fetch` applies the
bundle to the local repository. A push batch is validated line by line against
the table the session read; the survivors become *one* new table, a bundle
with the complete history of the new table is built and uploaded, and the record
is swapped. Hard: everything between the read and the swap interleaves with other
sessions; the process may be killed at any point; the new table contains refs the
clone never fetched. Correct when pushes are atomic, none is lost, and what is
stored can always be cloned.

**Snapshot record** (`internal/snapshot/snapshot.go`). No state of its own: `Load`
asks for the ETag and then for the body, in two calls; `Save` is a conditional
write that turns `ErrPreconditionFailed` into `ErrConcurrentUpdate` and a missing
feature into a plain write. Correct when the pair that `Load` returns is a pair
`Save` can rely on.

**Object store** (`internal/storage`). `List, Get, Put, PutIf, ETag, Delete,
Exists` over one bucket. Hard: a write may land although its caller sees an error,
and a client library's own retry may then find the precondition no longer true.

**kopia adapter** (`internal/kopiax/kopiax.go`). Opens (or initialises) the
repository of a generation, reads and writes bundles, lists and deletes v2
manifests, reads and swaps the generation pointer. Hard: any failure to read the
pointer counts as the first generation.

**Keyring** (`internal/keyring/keyring.go`). `Init` (create `repo.pub`, then wrap the
new key), `Grant`, `Revoke`, `Unwrap`, `SetRepoKey`, `Seal`, `VerifySeal`. Every one of
them is a sequence of single-object calls without a lock. Correct when somebody
can always open the repository, a revoked slot stays revoked, and the seal matches
the slots members created.

**Rotation** (`internal/rotation/rotation.go`). Sweep, Build, RewrapKeys, Flip,
Cleanup, blue/green, each meant to be idempotent. Hard: crashes between and inside
the phases, a second rotation, pushes and grants meanwhile. Correct when no
acknowledged push is lost and every member can open the active generation at
every moment.

**Key command** (`internal/keycmd/key.go`). The guards in front of the keyring and
rotation: unwrap first, refuse a broken seal (revoke repairs it), prove the old
recovery secret before replacing it.

**Setup and clone** (`internal/setupcmd`). `setup` connects a repository to a bucket,
`clone` makes a new one from it; both run with flags or ask for everything. They
write, one after the other: a token to the credentials file, a key to the machine key
file, four settings to the git configuration, `repo.pub`, slots and the recovery slot
to the bucket. Hard: each of these writes stands alone, a command may be killed
between any two, another repository of the machine shares two of the files, and
setup may be run again with other answers over what an earlier run left. Correct
when what was declared ready works, and goes on working, as it was asked for.

**Configuration** (`internal/config`). No state: `Load` finds each setting in the
environment, the git configuration of the remote, or the user's global one, and asks
the credential store for a token when none is in the environment. Correct when what
`setup` has written is what the next session finds.

**Credential store** (`internal/credstore`). One file for all repositories of a machine,
read and written as a whole. `Lookup` is by endpoint and bucket; without an endpoint,
by bucket alone if only one section matches. Hard: read, change, write; a
truncating write; ambiguity. Correct when a new entry leaves the others alone.

**Encryption wrapper** (`internal/cryptox`). Of its operations only those on the machine
key file have state: `EnsureIdentityFile` (use it, or write a new one),
`AppendNewIdentity`. Correct when no key is ever lost: some keyring may know the
machine by no other.

**The rest.** Git wrapper (`internal/gitutil`), entry point (`cmd/git-remote-s3vault`).

### How they interact

Sessions, key commands and rotations run on different machines and share only the
bucket. Inside a process everything is sequential: the helper holds no lock,
starts no goroutine of its own that touches this state, and makes its calls in
program order. So an actor is a process, its program counter is the call it makes
next, and every call on the bucket is one atomic step. On one machine commands share
the local files in the same way: nothing locks them.

## 2. The modules

| module | what it is |
|---|---|
| `RefTable` | the pure part: tables, push commands, the fast-forward rule, the HEAD rules |
| `SnapshotRegister` | abstract specification: what a remote promises to those who push |
| `PushProtocol` | the detailed one: sessions, record, bundles, v2 manifests, on one generation |
| `MCPush` | instances of `PushProtocol` for TLC |
| `PushProofs` | the operators of `RefTable`, type correctness, `Restorable`, `PushIsBuildable` |
| `PushRegisterProofs` | `ConflictIsFinal` and the refinement of `SnapshotRegister` |
| `PushFetchProofs` | `ListedIsFetchable` |
| `Rotation` | key rotation: generations, staged key, re-wrapping, pointer, clean-up, and the sessions that push meanwhile |
| `MCRotation` | instances of `Rotation` for TLC |
| `RotationProofs` | type correctness, `ActiveIsKept`, `LostOnlyIfLate`, `MembersCanRead`, `OldKeysAreUseless`, `RerunSucceeds` |
| `AccessList` | abstract specification: what the keyring promises about who has access |
| `Keyring` | the detailed one: repo.pub, slots and seal, and the commands on them |
| `MCKeyring` | instances of `Keyring` for TLC |
| `KeyringProofs` | type correctness, `OneKey`, `CleanIsSealed` |
| `AccessProofs` | the refinement of `AccessList` |
| `Vault` | composition: the keyring while one machine rotates the key and the others run their commands on it |
| `MCVault` | an instance of `Vault` for TLC |
| `VaultProofs` | type correctness, `AsRecorded`, `KeptByRotation`, `SameAccess`, `CleanIsCovered` |
| `Settings` | the pure part of configuration and credentials: where a command finds backend, token, mode and key file |
| `Onboarding` | setup, clone and first pushes: local files, settings and keyring, machine by machine |
| `MCOnboarding` | instances of `Onboarding` for TLC |
| `OnboardingInv` | what the requests of `Onboarding` must agree on, and its inductive invariants |
| `OnboardingProofs` | type correctness, `KeysAreKept`, `StaysUsable`, `WhoPushedCanRead` |

### PushProtocol and the code

State. `state` is the object `state-<gen>`, with nonce 0 when it does not exist;
`stored` the bundles that are durable kopia objects; `v2` the per-ref manifests;
`odb[s]` the objects in the clone's local repository. `h[s]` is the Helper struct
(`refs`, `headRef`, `stateETag`, `unbundled`, and `h.state` split into `known` and
`bundle`), `next[s]` the `snapshot.State` a push is assembling together with the
updates that survived validation, `report[s]` the answer git gets, `pc[s]` the next
call. `sent[s]` and `writes` only count, for the bounds.

| action | code |
|---|---|
| `ListETag` | `cmdList`, the reset at the top of `loadRemoteRefs`, first call of `snapshot.Load` |
| `ListGet` | second call of `Load`, the table taken over, `pickHead` |
| `ListV2Refs`, `ListV2Head` | the fall back to `Refs` and `Head` of the kopia repository |
| `Fetch` | `fetchOne` with `downloadBundleToTemp`, `applyBundleObject` |
| `PushBatch` | validation in `cmdPushBatch`, new table and HEAD in `pushSnapshot` |
| `BuildBundle` | `buildSnapshotBundle`: from the local repository, or merged with the remote's in a scratch one |
| `UploadBundle` | `WriteBundle`, durable when it returns |
| `SaveState`, `SaveStateUnanswered`, `SaveConflict` | `snapshot.Save`: it lands, it lands unheard, it is refused |
| `CleanV2Refs`, `CleanV2Head` | `DeleteV2Manifests`, two write sessions, best effort |
| `RereadETag` | the ETag call after the save, the fields adopted, the answer `ok` |
| `PushFails` | an error on the way, before anything landed |
| `LocalCommit` | the user of the clone (also while a session waits for git) |
| `Quit` | end or death of the process, in any state |

Abstractions, and why they lose nothing the properties speak of:

- A commit stands for any object a ref can name; `Closure[c]` is all its history
  needs. A bundle *is* its set of objects and its own id, because kopia ids are
  content addresses: two uploads of one bundle are one object.
- An ETag is a collision-free digest of the bytes. Two age encryptions of a record
  differ, so an encrypted record carries a nonce; a plaintext one does not
  (`Encrypted = FALSE`), and equal records have equal ETags.
- A batch has at most one command per destination, as git sends it. Refused
  commands change nothing but their own answer line; the surviving ones share one
  answer, so one `report` per session is enough.
- git sends the commands of a batch in some order; it matters only for which new
  branch becomes HEAD of an empty table, where the model takes any.
- A clone runs one session at a time. A write still travelling when its session
  dies is a session that dies just after the write.
- Clones are complete. In a shallow clone `bundle create` would produce a bundle
  with prerequisites; the model says nothing about those.
- Finding the generation and the key is left out: one generation, already open
  (`Rotation` has the rest). A remote without a keyring lists as an empty one does.
- Listing errors end the command, and git then ends the session: `Quit`.

Definitions commented "Slip" are plausible programming errors, one for each
property. No action uses them; they serve to see that the property notices.

### SnapshotRegister, the abstract specification

One register holds the table and HEAD. `Ask` binds a session to a set of updates;
`Land` replaces the table by exactly those updates applied to the table *as it is
at that moment*, all of them acceptable against it; `Succeed` answers ok only after
`Land`; `Refuse` answers an error and never lands; `LandUnanswered` is the lost
response; `Forget` the end of a session. `PushProtocol!Register` maps the visible
table (the record's, or the manifests' while there is no record) and the visible
HEAD to the register. `IsRegister` then says in one formula: no update of a
concurrent push is lost, a table is never half written, a ref moves backwards only
when its own command is forced, a deleted ref does not return from the old
manifests, a push lands at most once, and "ok" means it has landed.

### Rotation and the code

State. `pointer` is the object `.keys/generation` (0 when absent), `repo[g]` the kopia
repository of generation g, `state[g]` its record, `slot[m]` the wrapped key of
member m, `repoPub` and `seal` the keyring objects that a rotation rewrites, `staged`
the object `rotation-next.age`. `rot[r]` is the Rotator struct with the locals of
`Build` and `RewrapKeys`, `pc[r]` the next call. `sess[q]` is what a pushing session holds:
key, generation, token, table.

| action | code |
|---|---|
| `Start` | `rotate`: the old key is unwrapped from the machine's own slot |
| `ReadPointerETag`, `ReadPointer` | `CurrentGenerationInfo`, two calls; an error means the first generation |
| `LoadStaged`, `StageNext` | `loadOrStageNextDEK` |
| `SweepList`, `SweepOne` | `SweepStaleGenerations` |
| `OpenSource`, `OpenTarget`, `LoadETag`, `LoadState`, `CopyBundle`, `CheckSource`, `TargetETag`, `SaveTarget` | `Build`, with its rounds |
| `VerifySeal`, `RewrapSlot`, `SealSlots`, `SetRepoKey`, `SealRepoKey` | `RewrapKeys`, slot by slot |
| `Flip` | the compare-and-swap on the pointer |
| `CleanRepo`, `CleanState`, `CleanStaged` | `Cleanup` |
| `Kill` | death of the process, or a call that fails and ends the command |
| `PushUnwrap` ... `PushSave`, `PushQuit` | a session: `repoPassword`, `ensureRepo`, `snapshot.Load`, `snapshot.Save` |

Abstractions:

- Generations `data`, `data2`, ... are 1, 2, ..., and so are keys: run n of a rotation
  may generate key n + 1. A kopia repository *is* the key that is its password; the
  bundles of a generation exist while its repository does.
- A table is the set of pushes in it; what a push does to refs is the business of
  `PushProtocol`. An encrypted record has a fresh ETag with every write, and here
  each writer writes a generation's record at most once, so the writer's name is
  the ETag.
- The set of slots does not change during a run, so a seal is the key it is made
  with and the repo.pub it covers, and reading what it covers is one step.
- The remote is encrypted, the backend has conditional writes, and there are no
  per-ref manifests: without a record, `buildFromPerRef` yields the empty table.
- A sweep deletes a generation in one step; a kill may fall between generations.

`Prefixed` says whether the remote has a prefix: without one the sweep lists the objects
under "/", and there are none (`Listed`). `Flaky` turns on the places where the code goes on after a failed call: an unreadable
pointer counts as absent, an unreadable staged key is replaced, an unreadable seal
counts as missing, a slot with an unreadable public key is passed over, a failed
deletion of the old record or the staged key is a warning. `Killable` says at which
calls a rotation may die. `late` and `reborn` are history variables: pushes that
landed after a rotation's last look at its source or in a generation no longer
active, and generations that a session initialised.

### Keyring and the code

State. `repoPub` is `repo.pub`, `age[l]` and `pub[l]` are the two objects of slot l, `seal`
the seal. `job[a]` holds a command and what it has read, `pc[a]` the next call,
`left[a]` the commands an actor has not run yet. `sure` and `clean` are history: the
commands that no other has overlapped and that could read all they have sealed, and
whether the last command was one of those to its end.

| action | code |
|---|---|
| `RepoRecipient`, `Publish` | the checks of `repoPassword`, `unwrapDEK` and `Init`, and Init's create-only write |
| `Unwrap` | `Unwrap`, by the machine's identities or by the recovery secret |
| `GetSeal`, `VerifyRepo`, `VerifySlots` | `checkSeal` and `VerifySeal`: the seal, `repo.pub`, the slots, in three calls |
| `Prove` | the proof of the old recovery secret in `recoveryInit` |
| `PutAge`, `PutPub` | `Grant`: two writes |
| `Find`, `DeleteAge`, `DeletePub` | `Revoke`: two deletions |
| `SealRepo`, `SealSlots`, `PutSeal` | `Seal`: two reads, one write |
| `NextSlot` | the loops over recipients in `Init` and `recover_` |
| `Kill` | death, or a call that fails and ends the command |

Reads fail. `Get` of repo.pub, of a `.pub` object or of the seal that ends in an error counts,
in the code, as an object that is not there (`keyring.go:82`, `204`, `381`), wherever it
is asked for: in Init, in Unwrap's guards, in VerifySeal, in Revoke's search and in Seal. `Flaky`
is the set of actors to which that may happen; `Got`, `Unread` and `Views` are what
their reads may return. Every other error ends the command, which is `Kill`.

Abstractions: the MAC of a seal is the record of the key and what it covers; a
listing and the reads of the listed objects are one step; the key a machine would
found a keyring with bears its name; revoke's look at the seal, which only warns,
is left out; so is the rule that an identity file may hold the repository key.

`AccessList` is the abstract specification: a list of labels with the key each lets
in. `Ask` binds an actor to a set of changes, `Land` makes one of them, `Succeed`
answers ok when all are made, `Die` leaves the rest undone. The mapping takes
access to be the recipient of the `.age` object, since that is what opens the
repository, whatever `.pub` and the seal say.

### Vault and the code

`Vault` extends `Keyring`. State, besides the keyring's: `active`, the key that opens
the active generation; `rotation`, how far the rotation of the machine `Rotator` is
(`before`, `verify`, `wrap`, `publish`, `over`); and two history variables, `hands` and
`missed` (below).

| action | code |
|---|---|
| `StartRotation` | `rotate`, up to `rotation.Run` |
| `SharedStep` | what `rotate` and `RewrapKeys` share with the other commands: unwrap, verify the seal, grant a slot, seal |
| `ListSlots` | `ring.Slots` in `RewrapKeys`: slots without a recorded key are passed over, and so are those whose `.pub` cannot be read at that moment |
| `Rewrap` | the loop over the slots |
| `SetRepoKey` | the new `repo.pub`, before the keyring is sealed again under the new key |
| `Flip` | the pointer, and with it the active generation, changes |
| `Other` | a command of `Keyring`, by any machine that does not rotate at the moment |

Of `Rotation` only the keys are here: no data, one rotation, a fresh key. Of `Keyring`
everything is, the failing reads included. The two meet in the slots: a grant that
unwrapped before the flip writes the old key after it; a revocation between the
listing and the slot's turn is undone by the rotation; a slot half written when it is
listed may be re-wrapped for the key it no longer is for. The code has no remedy for
these, so the properties say where the damage ends. Two history variables say which slots
they do not speak of:

- `hands[l]`: who has written one of the two objects of slot l since it was last whole. It is
  empty again once a command has written both with no other in between, and so it is not
  empty between the two writes of a command, after a kill there, and after a collision.
- `missed`: slots that the rotation has not seen as they are. When it lists the slots, those
  are the slots in somebody's hands, and those that are there but whose recipient is not
  recorded or cannot be read. Later it is joined by each slot that another command writes
  while the rotation re-wraps and publishes, or, at any time, with a key that is not the one in
  force. A slot leaves it when it is written again by the rotation, or with the key in force.

### Settings, Onboarding and the code

`Settings` translates `config.Load` with its lookups and `credstore`'s `Lookup` and
`ResolveBucket` into operators. `Onboarding` has the state they work on: `git[r]` the
configuration of the remote in repository r, `store[m]` the credentials file and
`identity[m]` the machine key file of machine m, `blank` the machines whose file is there
without a key in it; of the bucket, `founded` (backends with
a `repo.pub`), `slots[x]` (the keys with a slot) and `recovery`. `job[r]` and `pc[r]` are a
command's request, locals and next step. `wish[r]` is a history variable: the request
that ended in "ready" last.

| action | code |
|---|---|
| `AskRemote`, `AskToken`, `PickKey`, `Confirm` | the setup and clone wizards, in the order of their questions; `PickKey` may append a new identity |
| `ReadStore`, `EmptyStore`, `FillStore` | `credstore.Save`: read, truncate, write |
| `EnsureIdentity`, `GenerateIdentity`, `FillIdentity` | `EnsureIdentityFile`: look, truncate, write |
| `SetFile`, `SetURL`, `SetEndpoint`, `SetMode` | the settings, one `git config` call after the other |
| `AddRecipient`, `AllListed` | the loop of `git config --add` calls, one for each recipient that is not there yet, the machine's own keys first |
| `LoadConfig` | `config.Load` with the prompt for a missing token; for clone, with the flags as environment |
| `CheckBucket` | the connectivity check |
| `RepoRecipient`, `Publish`, `Grant`, `GrantRecovery`, `ReadSlots`, `Unwrap` | `setupKeyring`: found it, or join it and grant what is missing |
| `CheckAccess` | clone's check that a machine key opens the keyring; also how a push joins |
| `GitClone`, `KeepEndpoint`, `KeepFile` | clone: `git clone`, then what the flags said is kept in the new repository |
| `Finish`, `Kill` | the end, good or bad |

Abstractions:

- A backend is an endpoint and a bucket, and a token opens the bucket it was made for.
  The user knows the right token for the backend that is meant, and answers the
  wizards as the request says; what is in the request is enumerated.
- A keyring is the set of keys with a slot.
- Region, path style and prefix follow the same lookup as the endpoint and are left out.
- Recipients have all their sources (`Listed`): environment, remote, the user's
  configuration, recipient files by the same order, and `recipients.txt` (`Default`) when none
  of these names a recipient or a file. Setup writes those of the remote.
- Grants are one step, and reads of the keyring do not fail here; `Keyring` has both.
- A repository has one remote, and one command at a time.
- A push that does not found the keyring is only the question whether it can open it.

`Alone` says that a machine runs one command at a time, `Killable` where one may be
killed.

## 3. Properties and runs

| property | says |
|---|---|
| `TypeOK` | every variable in its type |
| `Restorable` | the record names a durable bundle with the history of every ref in it, and a HEAD that exists: a clone is always possible |
| `ListedIsFetchable` | what a session has listed it can fetch, whatever others push or migrate meanwhile |
| `PushIsBuildable` | a validated push never lacks an object of the table it is about to save, refs the clone never fetched included |
| `ConflictIsFinal` | the token of a session told "concurrent push" never matches again |
| `IsRegister` | refinement of `SnapshotRegister` |
| `MembersCanRead` | whenever no rotation is between its first re-wrapped slot and its flip, every slot with a recorded public key opens the active generation |
| `ActiveIsKept` | the active generation is never deleted |
| `AckedIsVisible` | an acknowledged push is in the active table at every moment |
| `LostOnlyIfLate` | the same for pushes that landed before a rotation's last look at the active generation |
| `RerunSucceeds` | no rotation ends in an error: an interrupted one is resumed by the next |
| `OldKeysAreUseless` | after a finished rotation no generation, no record and no staged key opens with an earlier key, except what a session with the old generation in hand wrote |
| `OneKey` | all slots hold the key of `repo.pub`, however many machines found the keyring |
| `CleanIsSealed` | a command that ran alone to its end, and could read what it sealed, leaves a matching seal, whatever kills, races and failed reads left before it, and whichever of its other reads failed |
| `IsAccessList` | refinement of `AccessList`: access changes label by label and as asked; ok means done |
| `FoundedIsUsable` | a keyring that was founded can be opened by somebody |
| `KeptByRotation` | once the active generation is under the new key, every slot that the rotation has not `missed` opens it, those granted later included |
| `AsRecorded` | the key recorded for a slot (`.pub`) is the one its wrapped key (`.age`) opens with, so that rotations, seals and recovery-init act on who has access; after a collision or a kill, again from the next command that has the slot to itself |
| `SameAccess` | a rotation re-wraps a slot only for who could open it before, if the slot was whole, recorded and readable when it was listed and nobody has written it since |
| `CleanIsCovered` | `CleanIsSealed`, also over a rotation: the seal is over what is there, and, before any rotation and after a complete one that missed no slot, with the key of `repo.pub` |
| `StaysUsable` | a repository that setup or clone declared ready works without flags as it was asked for (backend, mode, key), and goes on working while others are set up, and through re-runs and kills |
| `WhoPushedCanRead` | who pushed can open the keyring, also if the push founded it for the recipients that a setup, killed between two of them, left behind |
| `KeysAreKept` | no machine key is ever lost |

| run | instance | shows |
|---|---|---|
| `push_race` | 2 clones, 2 refs, 2 commits in a line (one clone is ahead), a fresh or an older remote, encrypted, conditional writes | the safety properties and the refinement, under all interleavings, lost responses, failures and kills |
| `push_degraded` | 2 refs, 2 unrelated commits (one committed while the run lasts), an older remote, plaintext, no conditional writes | pushes may overwrite each other there, but what is stored can still be cloned, fetched and pushed to |
| `push_two_batches` | 2 batches in a session | `IsRegister` fails (below) |
| `rotate_one` | a remote with a prefix; 1 rotator, 3 runs, killed anywhere but while it switches; 2 pushing sessions; 3 slots, one unrecorded; with and without a seal | `ActiveIsKept`, `MembersCanRead`, `LostOnlyIfLate`, `RerunSucceeds`, `OldKeysAreUseless` |
| `rotate_killed` | the same, killed anywhere, 1 push | `MembersCanRead` fails (below) |
| `rotate_pushed` | 1 rotation, 1 push, no kills | `AckedIsVisible` fails (below) |
| `rotate_unprefixed` | no prefix, 2 rotations, 1 push | `OldKeysAreUseless` fails (below) |
| `keyring_members` | 2 machines, a fresh or a shared keyring, five commands (both may found it; one replaces the recovery key and revokes the other, who recovers), kills, any read may fail | `OneKey`, `CleanIsSealed`, `IsAccessList` |
| `keyring_founder_dies` | 2 machines found a keyring, kills | `FoundedIsUsable` fails (below) |
| `vault` | 1 machine, whose reads may fail, rotates; the other replaces the recovery key, revokes it and recovers, in any order; with and without a seal at the start, kills | `KeptByRotation`, `AsRecorded`, `SameAccess`, `CleanIsCovered` |
| `onboard_shared` | 4 repositories, one of them in plaintext, 2 machines, 3 commands out of wizards, flags, clones and pushes, SSH and age keys, a global endpoint, a `recipients.txt`, a recipient file, more than one recipient; killed anywhere but while the credentials file is empty | `StaysUsable`, `WhoPushedCanRead`, `KeysAreKept` |
| `onboard_again` | 1 repository, set up for plaintext and again with encryption | `StaysUsable` fails (below) |

Bounds. Two sessions suffice for every race the code can lose: the only test a
session makes is whether the record is still the one it read, so a third writer
looks to it like a second push of the other. A clone may open a new session after
every end, so behaviours hold any number of sessions. `MaxWrites` caps state
writes (2: one to overtake and one to be overtaken; 3 and 4 where a counterexample
needs them). `MaxLists` and `MaxBatches` cap the commands in a session: git sends
one list and normally one batch, and the runs that go beyond say what happens then.
Two refs make batches that touch different refs, a deletion of the last ref and a
table with a ref the clone never fetched; two commits in a line make
fast-forwards, refused and forced rewinds; two unrelated ones give
non-ancestors, and clones that can push without holding what the remote holds. Deadlock is checked
in every push run (a listing is always possible, or a session can end).

In `Rotation`, `MaxRuns` caps the rotations started: three make an interrupted one, the one
that resumes or sweeps after it, and one that finds the second's leftovers.
`MaxRounds` is 5 in the code and 3 here; it exceeds the number of pushes in every run,
so that Build never gives up, and `RerunSucceeds` rests on that: with a push in every
round Build is meant to end in an error. Two pushes put one on each side of a
rotation. In `Keyring` each command of an actor runs once; the tasks are chosen so
that each machine may found the keyring, that there are grants over a recorded slot and of a
new one, a revocation and a recovery, and so that two
commands meet on one label. In `Vault` a second machine has one command of each kind that meets a
rotation in a slot (a grant over a recorded slot, another of the same key, a revocation); more
machines would add more slots that are missed. The second machine's reads do not fail there:
what that does to it and to a seal is in `keyring_members`. In `Onboarding`, `MaxRuns` caps the commands: three set
up a repository, a second one on its machine or its bucket, and run one of them
again. Rotations and commands are finite in number, so the
runs of these modules end and say `CHECK_DEADLOCK FALSE`.

Fairness. There is no liveness property. Inside a process the code is straight-line: no
lock, no wait for another process, no unbounded retry, so that a command ends whatever the
others do; and between processes nothing is promised to happen eventually: git may
send nothing, networks may fail, users may never push again. `FairSpec` gives each session
weak fairness of `Progress`, the calls it makes by itself once git has sent a command. Only
`push_two_batches` uses it: its counterexample is a finite prefix, and fairness rules out that
it rests on a session that just stops.

### Where code and documentation disagree

Each has a run that ends in a counterexample.

1. **A second batch in a session may overwrite a concurrent push**
   (`push_two_batches`). After its save a session asks for the ETag in a second call
   (`helper.go:734`). If another clone saves in between, the session holds that
   clone's token with its own table, and its next batch passes the
   compare-and-swap. The answered push of the other clone is gone, against
   README.md:466-470 and `snapshot.go:8-10`. git itself sends one batch in a
   session, so an unusual caller is needed.
2. **A rotation killed while it re-wraps locks members out** (`rotate_killed`).
   `Run` re-wraps the slots before it flips (`rotation.go:443`). A kill after a slot was
   re-wrapped and before the flip leaves its member with a key that opens only the
   generation that is not active, against README.md:369-374 and `rotation.go:23-25`
   ("leaves the remote untouched").
3. **A push that is acknowledged while a rotation finishes is lost** (`rotate_pushed`).
   From Build's last ETag check (`rotation.go:234`) on, nothing looks at the old
   generation again, against README.md:364-366 and 466-470.
4. **A founder that dies leaves a keyring nobody can open**
   (`keyring_founder_dies`). `repo.pub` is published before the first slot
   (`keyring.go:123`, `134`), and `Init` refuses from then on, against
   `keyring.go:107-108` ("a valid keyring, not a stuck lock").
5. **A setup that changes its mind on encryption stays in plaintext** (`onboard_again`).
   `setup --encryption none` stores the mode; `setup --encryption age` stores recipients
   and leaves the mode (`setup.go:155-161`). The second one founds a keyring and says
   all is set, and every later session pushes plaintext, against README.md:137 ("safe and
   idempotent").
6. **Without a prefix nothing is ever swept** (`rotate_unprefixed`). The sweep lists with the
   prefix of the remote and "/" (`rotation.go:152`); for `s3vault://bucket`, which is a valid URL
   (`config.go:224-228`), that is "/", and no key begins with it. What a rotation killed in its
   clean-up leaves under the old key survives every later rotation, against `rotation.go:23-25`
   ("garbage to sweep, which the next rotation (or a re-run) removes") and `rotation.go:149-150`.

Further instances that fail, described here instead of kept as runs; the changed
constants are given, their values are in the MC modules:

- *Plaintext ETags* (`push_two_batches.cfg` with `Encrypted = FALSE`, `MaxBatches = 1`, `MaxWrites = 4`).
  `Load` takes the ETag first and the body second (`snapshot.go:50`, `57`). If the
  record goes X, Y, X with equal bytes for X, a session may hold the table Y with the
  token of X and save over X as if it had read it: `ConflictIsFinal` and `IsRegister` fail.
- *Failing reads* (`rotate_one.cfg` with `Flaky = TRUE`). Any error on the pointer counts as the
  first generation (`kopiax.go:101`); the sweep then removes every generation but `data`
  and `data2`: `ActiveIsKept` fails. An unreadable staged key is replaced
  (`rotation.go:129`): `RerunSucceeds` fails.
- *Two rotations* (`rotate_pushed.cfg` with `Rotators <- TwoRotators`, `Owner <- EachRotates`,
  `MaxRuns = 3`). Both use one staged key and one target. The slower one takes the target's ETag late
  (`rotation.go:250`) and saves an older copy over acknowledged pushes; only afterwards
  does its flip fail: `LostOnlyIfLate` fails.
- *A grant that cannot read* (`keyring_members.cfg`, with `sure' = sure` in `Keyring!Read`). A failed read of
  repo.pub or of a `.pub` while the seal is made (`keyring.go:82`, `204`) leaves a seal over the rest.
  The command ends ok, and every later grant is refused until a revoke, or a grant by
  recovery, that reads all: `CleanIsSealed` fails. It is why the property asks that the command could read
  what it sealed.
- *Slots that a rotation misses* (`vault.cfg`, with `Labels` for `Labels \ missed`). README.md:366-367 says that
  with a rotation "teammates and the recovery secret keep working with no action". `KeptByRotation` fails for a
  slot whose `.pub` cannot be read when the slots are listed, for a slot granted after that,
  and for a slot granted after the flip by a command that had unwrapped the old key before it. `SameAccess`
  fails for a slot revoked after the listing, which the rotation brings back, and for one whose
  revoke was killed between its two deletions: the new key goes to a recipient who had been
  revoked. `CleanIsCovered`, asked for the key of the seal in all cases, fails by a command with the
  old key as well.
- *An SSH identity and teammates* (`onboard_shared.cfg` with `Repos <- OneRepo`, `Home <- OnDesktop`,
  `Requests <- WithTeammate`, `EnvToken <- TokenInEnv`). An SSH identity yields no recipient, so its key is one of the `--recipient`
  list. A setup killed between two of the `git config --add` calls (`setup.go:167-175`) may leave only the
  teammate's, and the next push founds a keyring that its pusher cannot open: `WhoPushedCanRead` fails.
- *Recipients from elsewhere* (the same with `Home <- OneHome`, `Requests <- SetupThenPush`, `Global <- Unset`). A setup
  killed before the first recipient, and a `recipients.txt` of other people's keys (`helper.go:861-876`), do the
  same; and so would recipients in the environment, which go before those that setup has
  written. `WhoPushedCanRead` fails.
- *Two commands at once on a machine* (`onboard_shared.cfg` with `Alone = FALSE`). Each setup writes
  back the credentials it has read (`credstore.go:169`), and `StaysUsable` fails; or, with
  `Repos <- TwoRepos`, `Home <- TwoHomes`, `Requests <- BothNew`, the key file that it found missing
  (`cryptox.go:169`), and `KeysAreKept` fails. With `Killable <- Points`, `StaysUsable` fails by a
  kill at "fill store", when the file is empty (`credstore.go:197`). Nothing in the repository
  promises otherwise, and these are windows of a moment on one machine, so the runs
  leave them out.
- *An empty key file*. A kill within the write of the key file (`cryptox.go:192`) leaves a file
  without a key, and every later setup that would use it fails (`cryptox.go:170-172`) until it is removed by
  hand. `Onboarding` has it (`blank`), the runs kill there, and no property forbids it.
- *A bucket name on two backends* (`onboard_shared.cfg` with `Repos <- TwoRepos`,
  `Home <- TwoHomes`, `Requests <- SameName`). A repository set up without an endpoint finds its token by the
  bucket's name alone (`credstore.go:122`). A second one, whose bucket has the same
  name at another endpoint, makes that ambiguous, and the first stops working:
  `StaysUsable` fails.

Noticed while reading, and not run: `loadRemoteRefs` resets every field of a session
but `unbundled` (`helper.go:322-325`), so after list, fetch, list the next fetch may be
refused although the bundle is there. git lists once in a session.

## 4. Proofs

The theorems about pushes hold for every set of clones, refs and commits, every history
relation that is reflexive and transitive (`RefTableAssumption`) and every start
that satisfies `PushAssumption`; the bounds are arbitrary naturals.

| theorem | further assumption | invariant behind it |
|---|---|---|
| `TypeCorrect` : `Spec => []TypeOK` | | `TypeOK` is inductive |
| `AlwaysRestorable` : `Spec => []Restorable` | | `RestoreInv` |
| `AlwaysBuildable` : `Spec => []PushIsBuildable` | | `RestoreInv` |
| `ListedStaysFetchable` : `Spec => []ListedIsFetchable` | `OneList`: a session lists once | `FetchInv` |
| `RefusedStaysRefused` : `Spec => []ConflictIsFinal` | `Guarded`: encrypted, conditional writes | `TokenInv` |
| `PushesAreAtomic` : `Spec => IsRegister` | `Guarded`, `OneBatch` | `RegisterInv` |

The theorems of `RotationProofs` hold for every set of slots, pushes and recorded keys and
every number of runs within `RotationAssumption`, with a seal or without. The first holds for any
number of machines; the others assume what the run `rotate_one` does: `OneMachine`, so that no
two rotations overlap, and `~Flaky`, so that no call fails where the code goes on
regardless. Without these some are false, as the
further instances of section 3 show.

| theorem | further assumption | invariant behind it |
|---|---|---|
| `RotationTypes` : `Spec => []TypeOK` | any machines, `Flaky` or not | `TypeInv` |
| `ActiveGenerationIsKept` : `Spec => []ActiveIsKept` | | `KeepInv` |
| `OnlyLatePushesAreLost` : `Spec => []LostOnlyIfLate` | | `ContentInv` |
| `EarlierKeysAreUseless` : `Spec => []OldKeysAreUseless` | `Prefixed`: the remote has a prefix | `OldInv` |
| `MembersKeepAccess` : `Spec => []MembersCanRead` | no kill while the slots are ahead of the pointer | `SlotInv` |
| `InterruptedRotationsResume` : `Spec => []RerunSucceeds` | the same; a machine that rotates has a recorded key; finitely many pushes, fewer than `MaxRounds` | `LookInv`, `ResumeInv` |

The theorems of `KeyringProofs` and `AccessProofs` hold for every set of actors, labels and recipients and
every choice of tasks within `KeyringAssumption`, whoever's reads may fail.

| theorem | further assumption | invariant behind it |
|---|---|---|
| `KeyringTypes` : `Spec => []TypeOK` | | `TypeInv` |
| `OneKeyForAll` : `Spec => []OneKey` | `Conditional`: conditional writes | `KeyInv` |
| `SealIsRepaired` : `Spec => []CleanIsSealed` | `Conditional` | `CleanInv` |
| `KeyringIsAccessList` : `Spec => IsAccessList` | | `ChangeInv` |

Those of `VaultProofs` add the assumptions that the keyring is there and that the backend has
conditional writes (`VaultAssumption`): without these, a first push that fails to read
repo.pub publishes another key over it.

| theorem | invariant behind it |
|---|---|
| `VaultTypes` : `VaultSpec => []VaultTypeOK` | `VaultTypeInv` |
| `SlotsAreAsRecorded` : `VaultSpec => []AsRecorded` | `RecordInv` |
| `RotationKeepsAccess` : `VaultSpec => []KeptByRotation` | `RewrapInv` |
| `RotationMovesNobody` : `VaultSpec => SameAccess` | `RewrapInv` |
| `CleanSealCovers` : `VaultSpec => []CleanIsCovered` | `CoverInv` |

Those of `OnboardingProofs` hold for every set of repositories, machines, settings, requests
and points of death within `OnboardingAssumption` and `SettingsAssumption`.

| theorem | further assumption | invariant behind it |
|---|---|---|
| `OnboardingTypes` : `Spec => []TypeOK` | | `TypeInv` |
| `KeysAreNeverLost` : `Spec => KeysAreKept` | `Alone`: one command at a time on a machine | `OwnFile` |
| `ReadyStaysUsable` : `Spec => []StaysUsable` | `Alone`; `Agreed`; no kill at "fill store" | `Good`: `TypeInv`, `OwnFile`, `ReadyInv` |
| `WhoPushesCanRead` : `Spec => []WhoPushedCanRead` | the same | `Good` |

`Agreed` is about the constants: who connects a repository asks for one thing, and the
surroundings do not say another. It is the long form of "as it was asked for", and each
part of it is needed. The instance of `onboard_shared` satisfies it
(`MCOnboarding`, `Agreement`); on instances of one or two repositories that break
one part and no other, TLC finds a property violated:

| part | without it |
|---|---|
| `Compatible`: the requests for a repository agree on bucket, endpoint, mode and, if they set up, on the key file | a second setup for another endpoint, mode (`onboard_again`) or key file leaves a mixture |
| `Backed`: a bucket name stands for one backend on a machine (`Sole`), or each is told apart by an endpoint that nothing overrides and no kill keeps out of the configuration (`Qualified`) | a kill before "set endpoint" leaves a repository that leads to the other backend; without an endpoint the name becomes ambiguous (`SameName`); an endpoint in the environment sends both to one |
| `Backed`: a token in the environment for that bucket name is the right one | together with an endpoint in the environment it takes a setup to the other backend |
| `Backed`: a clone meets no other endpoint in the environment | the clone works by its flags, its sessions go elsewhere |
| `Moded`: no other mode in the environment, none but encryption in the user's configuration for an encrypted remote; a clone of a plaintext remote is told so by one of the two | setup does not store "age" (`setup.go:155-161`), and clone stores no mode: the setting from elsewhere wins |
| `Keyed`: no other key file in the environment or the user's configuration | sessions use that file, which has no slot |
| `Keyed`: the wizard of an encrypted setup finds no SSH key | it may pick one, which stays configured when a later setup settles on the machine's own key |
| `Keyed`: who names a key file and recipients names that key among them, and it alone unless no kill falls between the recipients | the keyring is founded without a slot for it |
| `Founding`: recipients that the environment names, and those that are read for want of others, include a key of the file that the environment names | a first push founds the keyring for other people |

Why the strengthenings are needed. `Restorable` speaks of the record only. To keep
it, a save must know that the bundle of *the push in progress* is complete and
durable, which depends on what the session read and on what is stored: `RestoreInv`
states, for each value of `pc`, what the session's fields and its pushed record
guarantee (local objects closed under history, a read bundle holding all it
lists, the remote's history of every v2 ref stored). `TokenInv` says that a token
never names a nonce above `writes`, and that equal nonces mean equal records: an
encrypted record, once replaced, never has its ETag back. `RegisterInv` adds what a
session may conclude when its token matches: that the visible table is the one it
read, be it from the record or, when there was none, from the manifests. The
latter needs care: a session that saw half of the manifests while another one
migrated the remote must hold a token that no longer matches. `FetchInv` relates
`unbundled` to what was applied. `OneBatch` is not a convenience: the run
`push_two_batches` shows the theorem false without it, the plaintext instance above shows it of
`Encrypted`, and without conditional writes the last writer wins by design. `OneList`
is what git does; with a second list the flag `unbundled` outlives its bundle. In the
keyring, `TypeInv` says that a command in the middle of a slot has a key and a slot
in hand, and `KeyInv` that this key is the one of `repo.pub`: a command may write it
long after it read it, and it stays right only because `repo.pub` is created once.

A rotation makes generations, and even the type of `NextGen` is no local matter: each run
builds the generation after the one it read, so `TypeInv` counts the runs that have yet to
flip (`OpenRuns`) and shows that the pointer and they together stay below the runs
started (`PointerInv`). The further invariants are layers over it. `KeepInv`: a rotation aims at the
active generation until it flips and deletes another afterwards, and no session is ahead of the
pointer. `ContentInv`: what a rotation has copied is the source as long as
the source's tag is the one it read, so that once they were compared only late
pushes are missing; a tag names one push, which is what makes the comparison mean anything.
`SlotInv`: in the switch the slots that are done hold the new key, before the flip all
do, and the pointer is still the one that was read. `OldInv` follows what the sweep and
the clean-up have dealt with. `LookInv` pays for every round of a copy but the first
with an acknowledged push. `ResumeInv` says what an interrupted run may leave: nothing ahead of the
pointer, or the very next generation, under the key that is staged for it; and a seal of
the active key. The condition on kills is the defect that `rotate_killed` shows.

`CleanIsSealed` speaks of the end of a command only. `CleanInv` follows a command that is
`sure`: alone from its first call, and with a seal made from what is there
(`SealedAt`). Its other reads may fail, and it cannot end well without having had a slot at hand, after which it
seals (`ProgressAt`). Nothing is known of the keyring such a command starts from, and
nothing needs to be. `CoverInv` is the same with a rotation among the commands, which ends
with a seal but has no slots of its own.

The list of who has access reads `age` alone, so neither the order of `repo.pub`, `.pub` and
seal nor a lost race matters to it, and `KeyringIsAccessList` needs no conditional writes.
`ChangeInv` says that what a command has yet to grant is part of its task, with one key for
each label, and that a revoke has nothing to grant: so each write of an `.age` object is
one of the changes that were asked for, and the command that ends well has none left.

In `VaultProofs`, `RecordInv` says that whoever is between the two objects of a slot is in its
`hands`, that a slot in nobody's hands is as recorded, and that one in a single
command's hands will be when that command has written the second object. `RewrapInv`
is the argument for a rotation: while it re-wraps, each slot that is not missed either
holds the new key, or is still on the list, for the very key it is wrapped to; once
the list is empty, all hold the new key; and a command that unwrapped the old key and
writes it later makes the slot a missed one. `CoverInv` adds the key of the seal: after a
complete rotation, a command that ends cleanly has the new key, or it has written a slot with
another one, which is then missed. `KeysAreKept` needs that a command which
has found no key file is alone on its machine until it has written one (`OwnFile`): that
is `Alone`, and without it the property is false.

`StaysUsable` speaks of a repository at rest and of one promise. To keep it, `ReadyInv` must
say what every command, anywhere, may do to what the promise rests on: four settings in
one repository, tokens in a file that all repositories of the machine share, keys in a
second one, and slots in a bucket that other machines write as well. Its parts:

- `TokenInv`: what the credentials file holds, or is about to hold again while it is
  empty (`Tokens`), opens backends that are asked for on that machine; where a bucket
  name means one backend, every section with that name has its token or none. A token may well
  stand under a section without endpoint, left there by an interrupted setup;
  `Useless` says when that hurts nobody.
- `GitInv`: whatever mixture of settings killed commands have left, each one comes from
  the requests, and the recipients, as soon as there is one, include a key of the file that the
  repository uses: the keyring that a later push may found for them can be opened by who
  pushed. Only while the recipients are added in a setup that cannot be killed there (`Between`)
  may the key be still to come. The machine's own keys are added first (`NextListed`), and
  everything rests on that order.
- `CommandInv`: what a command knows at each of its steps, by the request it has:
  where it can be (`RouteInv`), what it saves (`SaveInv`), which key it settles on
  (`KeyInv`), what setup has configured by then (`LateInv`), that past the check of the
  bucket it is at the backend that was meant (`CheckInv`), and that it has, or is about
  to write, a slot for a key of its repository (`EndInv`). At "end" this is what is
  promised.
- `WishInv`, `PushedInv`: what was promised holds by `Serves`, which is said in terms of
  tokens, settings and slots, not of `Load`. The lemmas `FoundIsLoaded` and
  `LoadedIsFound` relate the two, that is, `Lookup` and `ResolveBucket` to the file.

The proof takes a step of a repository's command in two halves. The other repositories
keep the invariant (`OthersKeep`): only the token that is saved and the slots that are
granted reach them, and neither takes away what was there. Its own keeps it action by
action (`StartReady` to `KeepFileReady`). TLC finds `TypeInv`, `OwnFile` and `ReadyInv` to hold on the
instance of `onboard_shared` with `MaxRuns = 2`, in seconds; to repeat, add them to the
INVARIANTS of the cfg.

Every property of a passing run has its theorem. The disagreements of section 3 are model-checked
counterexamples, and that the instances satisfy what the theorems assume is checked by TLC (`MCOnboarding`,
`Agreement`). That fewer exceptions would do in `Vault` or in `CleanIsSealed` is refuted by the instances of
section 3.

To repeat: `tlc -config push_race.cfg MCPush.tla`, `tlapm PushProofs.tla`.

## 5. Not modelled

- *Rotation*: sources in the per-ref format (`buildFromPerRef`) and plaintext remotes
  (the first are older remotes that nobody has pushed to since; on the second a rotation
  is a repack under no key). The seal is read in one step there; `Vault` has
  it call by call.
- *Keyring*: a read of an object that is cut short rather than refused (a `.pub` cut short is as good as
  unread, for all that is compared with it); an identity file that holds the repository key itself; reads of the
  slots one by one, where a listing is one step; the warning of revoke.
- *Onboarding*: several remotes in one repository; the wizard's questions on the names
  of remote and bucket; a clone started inside another repository, whose
  `remote.origin.*` settings it would read; the default credential chain of AWS.
- *Session*: options, the gc hint, shallow clones.
- *Object store*: listings in pages, and the retries of the client library beyond what a
  lost response does to a conditional write.
- Terminal and process handling, JSON and age formats, and kopia itself, which
  is modelled by what the adapter relies on (content addressing, durability after flush).
  `main.go` only dispatches its arguments. `PushRef`, `SetHead`, `DeleteRef` and
  `DeleteHead` of the adapter have no caller outside tests.

Left to do: a refinement for `Rotation` (the register of this project, kept through
rotations, for one rotator and pushes that are not late).
