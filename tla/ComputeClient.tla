--------------------------- MODULE ComputeClient ---------------------------
(***************************************************************************)
(* The client side of mesh OCR (src/src/compute_client.rs): a retry lane   *)
(* of an index process scans its peers, keeps those that offer a device,   *)
(* and tries them one after the other.  The lanes of a process share a set *)
(* of claimed workers; each client remembers the peers it is cooling down  *)
(* from.                                                                   *)
(*                                                                         *)
(* Like ComputeWorker this module has no next-state relation of its own:   *)
(* MeshOcr joins its actions with the worker's side.  The order in which   *)
(* rank_task_workers puts the candidates (mesh-core) is left open.  Time   *)
(* shows only in what may have expired; a status may be as old as the      *)
(* cache of statuses (STATUS_TTL) makes it, so that a scan may see what    *)
(* the worker offered earlier, and the cache itself needs no state.        *)
(***************************************************************************)
EXTENDS Integers, FiniteSets

CONSTANTS
    Clients,   \* the clients in the pools of the index processes
    Indexes,   \* index processes
    Peers      \* workers every client knows of

VARIABLES
    owner,   \* the index process of each client
    lane,    \* what each client is doing
    claimed, \* the claimed set of each index process
    cooling  \* ComputeClient.failures: the peers each client rests from

client == <<owner, lane, claimed, cooling>>

IdleLane == [pc |-> "idle", input |-> {}, todo |-> {}, cands |-> {}, at |-> {}]
ClaimedHere(c) == claimed[owner[c]]
\* RetryPathLease: the lanes of a process work on different inputs.
Working(ix) == UNION {lane[c].input : c \in {d \in Clients : owner[d] = ix}}

ClientInit ==
    /\ owner \in [Clients -> Indexes]
    /\ lane = [c \in Clients |-> IdleLane]
    /\ claimed = [ix \in Indexes |-> {}]
    /\ cooling = [c \in Clients |-> {}]

\* extract_with_budget begins.
Begin(c, i) ==
    /\ lane[c].pc = "idle" /\ i \notin Working(owner[c])
    /\ lane' = [lane EXCEPT ![c] = [IdleLane EXCEPT !.pc = "scan", !.input = {i}, !.todo = Peers]]
    /\ UNCHANGED <<owner, claimed, cooling>>

\* The peers are scanned in the order of the topology.
ScanAt(c, w) == lane[c].pc = "scan" /\ lane[c].todo # {} /\ w = CHOOSE v \in lane[c].todo : TRUE
Skipped(c, w) == w \in ClaimedHere(c) \cup cooling[c]
\* After the last peer the candidates are tried; without one the input stays deferred.
Scanned(c, w, devices) ==
    LET todo == lane[c].todo \ {w}
        cands == lane[c].cands \cup ({w} \X devices)
    IN lane' = [lane EXCEPT ![c] =
                   IF todo = {} /\ cands = {} THEN IdleLane
                   ELSE [@ EXCEPT !.todo = todo, !.cands = cands,
                                  !.pc = IF todo = {} THEN "try" ELSE "scan"]]

\* mark_failed: the peer rests for a minute.
MarkFailed(c, w) == cooling' = [cooling EXCEPT ![c] = @ \cup {w}]

ScanSkip(c, w) ==
    /\ ScanAt(c, w) /\ Skipped(c, w)
    /\ Scanned(c, w, {})
    /\ UNCHANGED <<owner, claimed, cooling>>

\* A cached status, or the answer of compute_status, with its eligible devices.
ScanStatus(c, w, devices) ==
    /\ ScanAt(c, w) /\ ~Skipped(c, w)
    /\ Scanned(c, w, devices)
    /\ UNCHANGED <<owner, claimed, cooling>>

ScanFails(c, w) ==
    /\ ScanAt(c, w) /\ ~Skipped(c, w)
    /\ Scanned(c, w, {})
    /\ MarkFailed(c, w)
    /\ UNCHANGED <<owner, claimed>>

Candidate(c, w, d) == lane[c].pc = "try" /\ <<w, d>> \in lane[c].cands
\* On to the next candidate; after the last one the input stays deferred.
NextOf(c, cands) ==
    lane' = [lane EXCEPT ![c] = IF cands = {} THEN IdleLane
                                ELSE [@ EXCEPT !.pc = "try", !.cands = cands, !.at = {}]]
DropCandidate(c, w, d) == NextOf(c, lane[c].cands \ {<<w, d>>})
\* The extraction ends.
Over(c) == lane' = [lane EXCEPT ![c] = IdleLane]

\* A status that became stale is refreshed; the refresh fails or no longer offers
\* the device.
RefreshFails(c, w, d) ==
    /\ Candidate(c, w, d)
    /\ DropCandidate(c, w, d)
    /\ MarkFailed(c, w)
    /\ UNCHANGED <<owner, claimed>>

\* claim_worker: another lane of this process has claimed the worker meanwhile.
ClaimLost(c, w, d) ==
    /\ Candidate(c, w, d) /\ w \in ClaimedHere(c)
    /\ DropCandidate(c, w, d)
    /\ UNCHANGED <<owner, claimed, cooling>>

\* Mutant: the claim is not checked.
MutMayClaim(c, w, d) == Candidate(c, w, d)

MayClaim(c, w, d) == Candidate(c, w, d) /\ w \notin ClaimedHere(c)

\* The claim is taken, and the request is on its way.
ClaimWorker(c, w, d) ==
    /\ MayClaim(c, w, d)
    /\ claimed' = [claimed EXCEPT ![owner[c]] = @ \cup {w}]
    /\ lane' = [lane EXCEPT ![c].pc = "send", ![c].cands = @ \ {<<w, d>>}, ![c].at = {<<w, d>>}]
    /\ UNCHANGED <<owner, cooling>>

OnItsWay(c, w, d) == lane[c].pc = "send" /\ lane[c].at = {<<w, d>>}

\* The worker has taken the request as its call k.
Arrives(c, w, d, k) ==
    /\ OnItsWay(c, w, d)
    /\ lane' = [lane EXCEPT ![c].pc = "call", ![c].at = {<<w, k>>}]
    /\ UNCHANGED <<owner, claimed, cooling>>

PeerOf(c) == (CHOOSE x \in lane[c].at : TRUE)[1]
CallOf(c) == (CHOOSE x \in lane[c].at : TRUE)[2]

\* Dropping the WorkerLease.
Released(c) == claimed' = [claimed EXCEPT ![owner[c]] = @ \ {PeerOf(c)}]

\* Busy is no failure of the peer (WorkerBusy); a refusal by another error is.
Blamed(c, w, reply) == IF reply = "error" THEN MarkFailed(c, w) ELSE UNCHANGED cooling

\* The request is refused at the door, or does not get there.
Refused(c, w, d, reply) ==
    /\ OnItsWay(c, w, d)
    /\ Released(c)
    /\ NextOf(c, lane[c].cands)
    /\ Blamed(c, w, reply)
    /\ UNCHANGED owner

\* The answer to a request: text and a completed failure end the extraction, after
\* anything else the next candidate is tried.
Receives(c, reply) ==
    /\ lane[c].pc = "call"
    /\ Released(c)
    /\ IF reply \in {"text", "invalid", "failure"}
       THEN Over(c)
       ELSE NextOf(c, lane[c].cands)
    /\ Blamed(c, PeerOf(c), reply)
    /\ UNCHANGED owner

\* The deadline of the whole extraction passes during the request.
Expires(c) ==
    /\ lane[c].pc \in {"send", "call"}
    /\ Released(c)
    /\ MarkFailed(c, PeerOf(c))
    /\ Over(c)
    /\ UNCHANGED owner

ExpiresEarly(c) ==
    /\ lane[c].pc \in {"scan", "try"}
    /\ Over(c)
    /\ UNCHANGED <<owner, claimed, cooling>>

\* FAILED_PEER_COOLDOWN passes.
CooldownEnds(c, w) ==
    /\ w \in cooling[c]
    /\ cooling' = [cooling EXCEPT ![c] = @ \ {w}]
    /\ UNCHANGED <<owner, lane, claimed>>

-----------------------------------------------------------------------------
(* Properties.                                                             *)

\* A worker is claimed by an index process exactly while one of its lanes has a
\* request on its way to it or at it, and by one lane only, however requests end.
ClaimsExact ==
    LET holders(ix) == {c \in Clients : owner[c] = ix /\ lane[c].pc \in {"send", "call"}}
    IN \A ix \in Indexes :
          /\ claimed[ix] = {PeerOf(c) : c \in holders(ix)}
          /\ \A c, d \in holders(ix) : PeerOf(c) = PeerOf(d) => c = d
=============================================================================
