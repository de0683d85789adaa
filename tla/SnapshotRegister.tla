-------------------------- MODULE SnapshotRegister --------------------------
(***************************************************************************)
(* What a remote promises, whoever pushes and however the calls of their   *)
(* sessions interleave: it is ONE register holding the ref table and HEAD. *)
(* A push lands in a single step that replaces the table by its own        *)
(* updates applied to the table it replaces, accepted against that table.  *)
(* So no update is lost, no ref is half written, a ref moves backwards     *)
(* only when its own command is forced, and a delete removes a ref that is *)
(* there.  A push lands at most once, and has landed when it is answered   *)
(* ok; a push answered with an error may have landed or not.               *)
(***************************************************************************)
EXTENDS RefTable

CONSTANTS
    Sessions,  \* who pushes
    Start      \* the remotes to start from: records [refs, head]

VARIABLES
    refs,     \* the ref table a listing shows
    head,     \* the HEAD a listing shows
    request,  \* request[s]: the updates s is pushing, if any
    phase,    \* phase[s]: "quiet", "asked" or "landed"
    answer    \* answer[s]: "none", "ok" or "error", for the last push of s

registerVars == <<refs, head, request, phase, answer>>

RegisterInit ==
    /\ \E start \in Start :
        /\ refs = start.refs
        /\ head = PickHead(start.refs, start.head)
    /\ request = [s \in Sessions |-> NoUpdates]
    /\ phase = [s \in Sessions |-> "quiet"]
    /\ answer = [s \in Sessions |-> "none"]

(* Any batch may be asked for: request' is bound by its type alone. *)
Ask(s) ==
    /\ phase[s] = "quiet"
    /\ request'[s] \in Batch
    /\ request' = [request EXCEPT ![s] = request'[s]]
    /\ phase' = [phase EXCEPT ![s] = "asked"]
    /\ answer' = [answer EXCEPT ![s] = "none"]
    /\ UNCHANGED <<refs, head>>

(* The updates of s take effect, on the table as it is now. *)
Apply(s) ==
    /\ phase[s] = "asked"
    /\ \A r \in DOMAIN request[s] : Accepts(refs, Commits, r, request[s][r])
    /\ refs' = Applied(refs, request[s])
    /\ \E stored \in NewHeads(refs', head, request[s]) : head' = PickHead(refs', stored)

Land(s) ==
    /\ Apply(s)
    /\ phase' = [phase EXCEPT ![s] = "landed"]
    /\ UNCHANGED <<request, answer>>

Finish(s, outcome) ==
    /\ request' = [request EXCEPT ![s] = NoUpdates]
    /\ phase' = [phase EXCEPT ![s] = "quiet"]
    /\ answer' = [answer EXCEPT ![s] = outcome]

Succeed(s) ==
    /\ phase[s] = "landed"
    /\ Finish(s, "ok")
    /\ UNCHANGED <<refs, head>>

Refuse(s) ==
    /\ phase[s] = "asked"
    /\ Finish(s, "error")
    /\ UNCHANGED <<refs, head>>

LandUnanswered(s) == Apply(s) /\ Finish(s, "error")

(* The session ends, at any point, or begins a batch with nothing to push. *)
Forget(s) == Finish(s, "none") /\ UNCHANGED <<refs, head>>

RegisterNext ==
    \E s \in Sessions :
        \/ Ask(s)
        \/ Land(s) \/ LandUnanswered(s)
        \/ Succeed(s) \/ Refuse(s)
        \/ Forget(s)

RegisterSpec == RegisterInit /\ [][RegisterNext]_registerVars
=============================================================================
