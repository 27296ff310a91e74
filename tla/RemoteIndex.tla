---------------------------- MODULE RemoteIndex ----------------------------
(***************************************************************************)
(* Replication of extracted text to an index host (remote_index.rs): the  *)
(* source walks its extraction cache, sends what its ledger does not      *)
(* record as accepted, and deletes what is gone; the host keeps the rows  *)
(* under an epoch.  Requests and answers are lost or late, the source     *)
(* process ends between a call and the ledger write, files become         *)
(* unreadable, and the host's store is migrated or lost.                  *)
(***************************************************************************)
EXTENDS Integers, FiniteSets

CONSTANTS
    Paths,        \* documents of the selected root, as numbers in path order
    Docs,         \* contents: size, mtime and digest of the text together
    Oversized,    \* contents longer than MAX_REMOTE_DOCUMENT_BYTES
    None,         \* no row, no document
    MaxChanges,   \* bound on what the source's files do
    MaxFaults,    \* bound on lost calls and process ends
    MaxEpoch      \* bound on the host's stores

ASSUME PathsAssumption == Paths \subseteq Int /\ None \notin Paths
ASSUME DocsAssumption == Oversized \subseteq Docs /\ None \notin Docs
ASSUME BoundsAssumption == MaxChanges \in Nat /\ MaxFaults \in Nat /\ MaxEpoch \in Nat \ {0}

VARIABLES
    doc,          \* [Paths -> Docs \cup {None}]: the source's extraction cache
    access,       \* [Paths -> {"yes", "no", "error"}]: source_file_read_authorized now
    rows,         \* [Paths -> Docs \cup {None}]: grepmesh_remote_rows of the host
    epoch,        \* the host's store identity
    migrated,     \* the host has recorded source_read_authorization_v1
    ledger,       \* [Paths -> Docs \cup {None}]: sync_rows of the source
    ledgerEpoch,  \* sync_meta's epoch, 0 when there is none
    pc,           \* where the pass is
    seenEpoch,    \* the epoch the pass read from the host's status
    snap,         \* the documents query's snapshot of doc
    todo,         \* paths the current loop has still to visit
    seen,         \* the pass's set of paths that stay
    call,         \* the request under way
    late,         \* requests the source gave up on that may still arrive
    doubt,        \* history: paths whose row the ledger may not describe
    held,         \* history: every document the source has held
    changes, faults

sourceVars == <<doc, access, held, changes>>
hostVars == <<rows, epoch, migrated>>
ledgerVars == <<ledger, ledgerEpoch>>
passVars == <<pc, seenEpoch, snap, todo, seen, call>>
vars == <<sourceVars, hostVars, ledgerVars, passVars, late, doubt, faults>>

Content == Docs \cup {None}
Nothing == [p \in Paths |-> None]
Request == [path : Paths, doc : Content]      \* doc = None: a delete
NoCall == [path |-> None, doc |-> None, applied |-> FALSE]
Call == [path : Paths, doc : Content, applied : BOOLEAN] \cup {NoCall}

TypeOK ==
    /\ doc \in [Paths -> Content]
    /\ access \in [Paths -> {"yes", "no", "error"}]
    /\ rows \in [Paths -> Content]
    /\ epoch \in 1 .. MaxEpoch /\ migrated \in BOOLEAN
    /\ ledger \in [Paths -> Content] /\ ledgerEpoch \in 0 .. MaxEpoch
    /\ pc \in {"idle", "epoch", "clear", "scan", "prune"}
    /\ seenEpoch \in 0 .. MaxEpoch
    /\ snap \in [Paths -> Content] /\ todo \in SUBSET Paths /\ seen \in SUBSET Paths
    /\ call \in Call
    /\ late \in SUBSET Request /\ doubt \in SUBSET Paths
    /\ held \in [Paths -> SUBSET Docs]
    /\ changes \in 0 .. MaxChanges /\ faults \in 0 .. MaxFaults

Init ==
    /\ doc \in [Paths -> Content] /\ access = [p \in Paths |-> "yes"]
    /\ held = [p \in Paths |-> {doc[p]} \ {None}]
    /\ rows = Nothing /\ epoch = 1 /\ migrated \in BOOLEAN
    /\ ledger = Nothing /\ ledgerEpoch = 0
    /\ pc = "idle" /\ seenEpoch = 0
    /\ snap = Nothing /\ todo = {} /\ seen = {} /\ call = NoCall
    /\ late = {} /\ doubt = {} /\ changes = 0 /\ faults = 0
-----------------------------------------------------------------------------
(* The source's files and its index. *)

\* The indexer stores, replaces or removes the extracted text of p.
IndexDocument(p) ==
    /\ changes < MaxChanges /\ changes' = changes + 1
    /\ \E d \in Content \ {doc[p]} :
        /\ doc' = [doc EXCEPT ![p] = d]
        /\ held' = [held EXCEPT ![p] = @ \cup ({d} \ {None})]
    /\ UNCHANGED <<access, hostVars, ledgerVars, passVars, late, doubt, faults>>

\* The file behind p becomes readable, unreadable, or fails in another way.
ChangeAccess(p) ==
    /\ changes < MaxChanges /\ changes' = changes + 1
    /\ \E a \in {"yes", "no", "error"} \ {access[p]} : access' = [access EXCEPT ![p] = a]
    /\ UNCHANGED <<doc, held, hostVars, ledgerVars, passVars, late, doubt, faults>>
-----------------------------------------------------------------------------
(* The host. *)

\* RemoteIndexStore::open on a store of an older version: a new epoch, the rows kept.
MigrateStore ==
    /\ ~migrated /\ epoch < MaxEpoch
    /\ migrated' = TRUE /\ epoch' = epoch + 1
    /\ UNCHANGED <<sourceVars, rows, ledgerVars, passVars, late, doubt, faults>>

\* Mutant: a new store is opened without an epoch of its own.
LoseStoreNoEpoch ==
    /\ epoch < MaxEpoch
    /\ epoch' = 0 /\ rows' = Nothing /\ migrated' = TRUE
    /\ UNCHANGED <<sourceVars, ledgerVars, passVars, late, doubt, faults>>

\* The store's file is gone: open creates an empty one under a random epoch.
LoseStore ==
    /\ epoch < MaxEpoch
    /\ epoch' = epoch + 1 /\ rows' = Nothing /\ migrated' = TRUE
    /\ UNCHANGED <<sourceVars, ledgerVars, passVars, late, doubt, faults>>

\* Mutant: the delete's WHERE forgets the path.
StoreWholeRoot(r) ==
    rows' = IF r.doc = None THEN Nothing ELSE [rows EXCEPT ![r.path] = r.doc]

\* upsert and delete of remote_index.rs, called by their handlers: one transaction each, and a repeat changes nothing.
Store(r) == rows' = [rows EXCEPT ![r.path] = r.doc]

HandleCall ==
    /\ call # NoCall /\ ~call.applied
    /\ Store(call)
    /\ call' = [call EXCEPT !.applied = TRUE]
    /\ doubt' = IF \E r \in late : r.path = call.path THEN doubt ELSE doubt \ {call.path}
    /\ UNCHANGED <<sourceVars, epoch, migrated, ledgerVars, pc, seenEpoch, snap, todo, seen,
                   late, faults>>

\* A request its sender gave up on is handled after all.
HandleLate ==
    /\ \E r \in late :
        Store(r) /\ late' = late \ {r} /\ doubt' = doubt \cup {r.path}
    /\ UNCHANGED <<sourceVars, epoch, migrated, ledgerVars, passVars, faults>>

DropLate ==
    /\ \E r \in late : late' = late \ {r}
    /\ UNCHANGED <<sourceVars, hostVars, ledgerVars, passVars, doubt, faults>>
-----------------------------------------------------------------------------
(* One pass of sync_once. *)

\* The host's status answers (without an answer the pass ends before it began).
ReadStatus ==
    /\ pc = "idle"
    /\ pc' = "epoch" /\ seenEpoch' = epoch
    /\ UNCHANGED <<sourceVars, hostVars, ledgerVars, snap, todo, seen, call, late, doubt, faults>>

\* The documents query runs: what the loop visits is what this snapshot holds.
StartScan ==
    /\ pc' = "scan" /\ snap' = doc
    /\ todo' = {p \in Paths : doc[p] # None} /\ seen' = {}

SameEpoch ==
    /\ pc = "epoch" /\ ledgerEpoch = seenEpoch
    /\ StartScan
    /\ UNCHANGED <<sourceVars, hostVars, ledgerVars, seenEpoch, call, late, doubt, faults>>

\* Mutant: the new epoch is noted but the old store's acceptances are kept.
ClearLedgerKeeps ==
    /\ pc = "epoch" /\ ledgerEpoch # seenEpoch
    /\ pc' = "clear"
    /\ UNCHANGED <<sourceVars, hostVars, ledgerVars, seenEpoch, snap, todo, seen, call, late,
                   doubt, faults>>

\* Another epoch: first the ledger's rows go ...
ClearLedger ==
    /\ pc = "epoch" /\ ledgerEpoch # seenEpoch
    /\ ledger' = Nothing /\ pc' = "clear"
    /\ UNCHANGED <<sourceVars, hostVars, ledgerEpoch, seenEpoch, snap, todo, seen, call, late,
                   doubt, faults>>

\* ... then the epoch is recorded, in a statement of its own.
AdoptEpoch ==
    /\ pc = "clear"
    /\ ledgerEpoch' = seenEpoch
    /\ doubt' = doubt \cup {p \in Paths : rows[p] # None}
    /\ StartScan
    /\ UNCHANGED <<sourceVars, hostVars, ledger, seenEpoch, call, late, faults>>

First(p) == p \in todo /\ \A q \in todo : p <= q

Send(p, d) == call' = [path |-> p, doc |-> d, applied |-> FALSE]

\* The file cannot be opened any more: its row is deleted on the host.
ScanDenied(p) ==
    /\ pc = "scan" /\ call = NoCall /\ First(p)
    /\ access[p] = "no"
    /\ Send(p, None) /\ todo' = todo \ {p}
    /\ UNCHANGED <<sourceVars, hostVars, ledgerVars, pc, seenEpoch, snap, seen, late, doubt, faults>>

\* Mutant: a path counts as seen before its length is looked at.
ScanOversizedSeen(p) ==
    /\ pc = "scan" /\ call = NoCall /\ First(p)
    /\ access[p] = "yes" /\ snap[p] \in Oversized
    /\ todo' = todo \ {p} /\ seen' = seen \cup {p}
    /\ UNCHANGED <<sourceVars, hostVars, ledgerVars, pc, seenEpoch, snap, call, late, doubt, faults>>

\* Too long for the host: not sent, and not among the paths that stay.
ScanOversized(p) ==
    /\ pc = "scan" /\ call = NoCall /\ First(p)
    /\ access[p] = "yes" /\ snap[p] \in Oversized
    /\ todo' = todo \ {p}
    /\ UNCHANGED <<sourceVars, hostVars, ledgerVars, pc, seenEpoch, snap, seen, call, late, doubt,
                   faults>>

\* The ledger says the host has exactly this document.
ScanUnchanged(p) ==
    /\ pc = "scan" /\ call = NoCall /\ First(p)
    /\ access[p] = "yes" /\ snap[p] \notin Oversized /\ ledger[p] = snap[p]
    /\ seen' = seen \cup {p} /\ todo' = todo \ {p}
    /\ UNCHANGED <<sourceVars, hostVars, ledgerVars, pc, seenEpoch, snap, call, late, doubt, faults>>

ScanChanged(p) ==
    /\ pc = "scan" /\ call = NoCall /\ First(p)
    /\ access[p] = "yes" /\ snap[p] \notin Oversized /\ ledger[p] # snap[p]
    /\ seen' = seen \cup {p} /\ todo' = todo \ {p}
    /\ Send(p, snap[p])
    /\ UNCHANGED <<sourceVars, hostVars, ledgerVars, pc, seenEpoch, snap, late, doubt, faults>>

\* The cursor is through: what the ledger has beyond the seen paths is to go.
StartPrune ==
    /\ pc = "scan" /\ call = NoCall /\ todo = {}
    /\ pc' = "prune" /\ todo' = {p \in Paths : ledger[p] # None /\ p \notin seen}
    /\ snap' = Nothing /\ seen' = {}
    /\ UNCHANGED <<sourceVars, hostVars, ledgerVars, seenEpoch, call, late, doubt, faults>>

PruneMissing(p) ==
    /\ pc = "prune" /\ call = NoCall /\ First(p)
    /\ Send(p, None) /\ todo' = todo \ {p}
    /\ UNCHANGED <<sourceVars, hostVars, ledgerVars, pc, seenEpoch, snap, seen, late, doubt, faults>>

\* The answer came: the ledger records what the host accepted.
RecordAnswer ==
    /\ call # NoCall /\ call.applied
    /\ ledger' = [ledger EXCEPT ![call.path] = call.doc]
    /\ call' = NoCall
    /\ UNCHANGED <<sourceVars, hostVars, ledgerEpoch, pc, seenEpoch, snap, todo, seen, late, doubt,
                   faults>>

EndOfPass ==
    /\ pc' = "idle" /\ seenEpoch' = 0
    /\ snap' = Nothing /\ todo' = {} /\ seen' = {} /\ call' = NoCall

FinishPass ==
    /\ pc = "prune" /\ call = NoCall /\ todo = {}
    /\ EndOfPass
    /\ UNCHANGED <<sourceVars, hostVars, ledgerVars, late, doubt, faults>>

\* source_file_read_authorized returns an error, and ? ends the pass.
AbortOnAccess(p) ==
    /\ pc = "scan" /\ call = NoCall /\ First(p)
    /\ access[p] = "error"
    /\ EndOfPass
    /\ UNCHANGED <<sourceVars, hostVars, ledgerVars, late, doubt, faults>>

\* The call fails: it never arrived, it arrives later, or only its answer is lost.
CallFails ==
    /\ call # NoCall /\ faults < MaxFaults /\ faults' = faults + 1
    /\ LET r == [path |-> call.path, doc |-> call.doc]
       IN  \/ ~call.applied /\ UNCHANGED <<late, doubt>>
           \/ ~call.applied /\ late' = late \cup {r} /\ doubt' = doubt \cup {r.path}
           \/ call.applied /\ doubt' = doubt \cup {r.path} /\ UNCHANGED late
    /\ EndOfPass
    /\ UNCHANGED <<sourceVars, hostVars, ledgerVars>>

\* The process ends outside a call, or a database refuses: the pass is over.
PassInterrupted ==
    /\ pc # "idle" /\ call = NoCall /\ faults < MaxFaults /\ faults' = faults + 1
    /\ EndOfPass
    /\ UNCHANGED <<sourceVars, hostVars, ledgerVars, late, doubt>>
-----------------------------------------------------------------------------
Pass ==
    \/ ReadStatus \/ SameEpoch \/ ClearLedger \/ AdoptEpoch
    \/ \E p \in Paths : ScanDenied(p) \/ ScanOversized(p) \/ ScanUnchanged(p) \/ ScanChanged(p)
    \/ \E p \in Paths : PruneMissing(p) \/ AbortOnAccess(p)
    \/ StartPrune \/ RecordAnswer \/ FinishPass

Next ==
    \/ \E p \in Paths : IndexDocument(p) \/ ChangeAccess(p)
    \/ MigrateStore \/ LoseStore \/ HandleCall \/ HandleLate \/ DropLate
    \/ Pass \/ CallFails \/ PassInterrupted

Spec == Init /\ [][Next]_vars

\* The interval ticks for ever and the blocking pass runs to its end; a host
\* that is up answers.  Nothing is assumed of late requests.
Fairness == WF_vars(Pass) /\ WF_vars(HandleCall)

FairSpec == Spec /\ Fairness
-----------------------------------------------------------------------------
\* What the host should hold of p: the text of a readable file that is not too long.
Wanted(p) == IF doc[p] = None \/ access[p] = "no" \/ doc[p] \in Oversized THEN None ELSE doc[p]

\* Within the host's epoch the ledger is exact: apart from the path of a call
\* under way and the paths in doubt (a call whose answer was lost, a row left
\* from an earlier epoch), it records precisely the host's rows.
LedgerExact ==
    ledgerEpoch = epoch =>
        \A p \in Paths : p \in doubt \/ call.path = p \/ rows[p] = ledger[p]

\* Once the source's files are left alone and calls succeed, the host agrees
\* with the source on every path that is not in doubt.
Converges ==
    <>[](\A p \in Paths : access[p] # "error")
        => <>[](\A p \in Paths : p \in doubt \/ rows[p] = Wanted(p))

M == INSTANCE Mirror WITH source <- doc, mirror <- rows, store <- epoch

\* The host is a mirror of the source: whatever is lost, late or repeated, a
\* row is only ever a document the source has held for that path, rows change
\* one at a time, and all of them go together only with a new epoch.
IsMirror == M!MirrorSpec
=============================================================================
