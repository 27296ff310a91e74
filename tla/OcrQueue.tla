------------------------------ MODULE OcrQueue ------------------------------
(***************************************************************************)
(* The deferred recognition queue of the index (src/src/ocr.rs and the     *)
(* index worker of src/src/index.rs) when OCR is done by mesh workers.     *)
(*                                                                         *)
(* One index thread reconciles batches of file events, walks all the roots *)
(* when a full rebuild is due, and hands queued inputs to retry lanes.  A  *)
(* lane is a thread that recognises one input and commits the result.  The *)
(* queue is a set in memory and a table in SQLite; an input that fits in   *)
(* neither is covered by an overflow latch, which forces a full walk.      *)
(*                                                                         *)
(* The files are the environment: a path holds a version, every change is  *)
(* a version never used before (a fingerprint is a size and an mtime).     *)
(* Every SQLite operation is a transaction that commits or fails.  Time is *)
(* left out: cooldowns, debounces and the activity guard only delay.       *)
(***************************************************************************)
EXTENDS Integers, FiniteSets

CONSTANTS
    Images,       \* paths that OCR handles (images, PDFs without a text layer)
    Texts,        \* paths whose text is extracted locally
    MetadataOnly, \* images and PDFs that match metadata_only_globs
    MaxVersion,   \* bound on the versions, which no two paths share after the first
    ZeroBytes,    \* the versions that are empty files
    Oversize,     \* the versions above max_image_bytes
    MaxDeferred,  \* MAX_DEFERRED_PATHS and MAX_PENDING_OCR
    MaxFailures,  \* MAX_RECOGNITION_FAILURES
    MaxParallel,  \* MAX_PARALLEL_OCR
    MaxFaults,    \* bound on failing SQLite operations
    MaxOutages,   \* bound on transport failures and lost lanes
    MaxRestarts   \* bound on crashes of the process

Paths == Images \cup Texts \cup MetadataOnly
Versions == 0 .. MaxVersion   \* 0: there is no such file, or no such record

ASSUME PathsAssumption ==
    /\ IsFiniteSet(Paths)
    /\ Images \cap Texts = {} /\ Images \cap MetadataOnly = {} /\ Texts \cap MetadataOnly = {}
ASSUME OcrBoundsAssumption ==
    /\ MaxVersion \in Nat \ {0} /\ MaxDeferred \in Nat \ {0} /\ MaxFailures \in Nat \ {0}
    /\ MaxParallel \in Nat \ {0} /\ MaxFaults \in Nat /\ MaxOutages \in Nat
    /\ MaxRestarts \in Nat
    /\ ZeroBytes \subseteq 1 .. MaxVersion /\ Oversize \subseteq 1 .. MaxVersion

VARIABLES
    file,       \* the version of each path, 0 when there is no file
    made,       \* the newest version any path ever had
    events,     \* pending_event_paths of the watcher
    pc,         \* where the index thread is: "loop", "batch" or "walk"
    todo,       \* the paths of the batch or the walk still to be visited
    seen,       \* seen_paths of rebuild_index
    pending,    \* the index thread's `pending` flag
    due,        \* whether the weekly full rebuild is due
    deferred,   \* OcrEngine.deferred
    overflow,   \* OcrEngine.deferred_overflow
    undurable,  \* OcrEngine.undurable
    loadFailed, \* OcrEngine.pending_store_load_failed
    lane,       \* the retry lane of each path
    pendingOcr, \* the table grepmesh_pending_ocr
    overflowDb, \* the metadata row pending_ocr_overflow
    recoveryDb, \* the metadata row ocr_recovery_full_scan_required
    doc,        \* the indexed document: fingerprint, and version its text was read from
    empty,      \* grepmesh_ocr_empty_results, likewise
    attempts,   \* grepmesh_ocr_attempts
    faults,     \* failed SQLite operations so far
    outages,    \* transport failures and lost lanes so far
    restarts,   \* crashes so far
    owed,       \* history: inputs given to defer_path and neither settled nor deleted since
    excused,    \* history: inputs whose enqueue and latch SQLite both rejected
    failed      \* history: failed recognitions of each path's current version

queue == <<deferred, overflow, undurable, pendingOcr, overflowDb, recoveryDb, faults,
           owed, excused>>
disk == <<file, made>>
thread == <<pc, todo, seen, pending, due>>
results == <<doc, empty, attempts>>
bounds == <<outages, restarts>>
vars == <<disk, events, thread, queue, loadFailed, lane, results, bounds, failed>>

LaneSteps == {"idle", "claimed", "extract", "send", "remote", "recheck", "commit",
              "empty", "emptyCommit", "forget"}
Fingerprint == [v : Versions, bytes : Versions]
None == [v |-> 0, bytes |-> 0]
NoAttempts == [v |-> 0, n |-> 0]
IdleLane == [pc |-> "idle", v |-> 0, stat |-> 0, bytes |-> 0]
Idle(p) == lane[p].pc = "idle"
Active == {p \in Paths : ~Idle(p)}

\* OcrEngine::pending_store_healthy is recomputed as this whenever it changes.
Healthy == undurable = {} /\ ~loadFailed
\* deferred_count() == 0.
Drained == deferred = {} /\ ~overflow
RebuildDue == Drained /\ (recoveryDb \/ due)

-----------------------------------------------------------------------------
(* SQLite and the queue.  An operation that SQLite rejects is one fault;   *)
(* `spent` counts the faults an action has already had.                    *)

flags == <<overflow, overflowDb, recoveryDb>>
Fault(ok) == IF ok THEN 0 ELSE 1

\* Mutant: the latch in memory follows the latch in SQLite.
MutDeferFull(p, spent) ==
    /\ p \notin deferred /\ Cardinality(deferred) >= MaxDeferred
    /\ \E latched \in BOOLEAN :
          /\ faults' = faults + spent + Fault(latched)
          /\ overflow' = (overflow \/ latched)
          /\ overflowDb' = (overflowDb \/ latched)
          /\ recoveryDb' = (recoveryDb \/ latched)
          /\ excused' = IF latched THEN excused \ {p} ELSE excused \cup {p}
    /\ faults' <= MaxFaults
    /\ owed' = owed \cup {p}
    /\ UNCHANGED <<deferred, undurable, pendingOcr>>

\* defer_path of an input that finds the queue full: only the latch is set.
DeferFull(p, spent) ==
    /\ p \notin deferred /\ Cardinality(deferred) >= MaxDeferred
    /\ overflow' = TRUE
    /\ \E latched \in BOOLEAN :
          /\ faults' = faults + spent + Fault(latched)
          /\ overflowDb' = (overflowDb \/ latched)
          /\ recoveryDb' = (recoveryDb \/ latched)
          /\ excused' = IF latched THEN excused \ {p} ELSE excused \cup {p}
    /\ faults' <= MaxFaults
    /\ owed' = owed \cup {p}
    /\ UNCHANGED <<deferred, undurable, pendingOcr>>

HasRoom(p) == p \in deferred \/ Cardinality(deferred) < MaxDeferred
TableFull(p) == p \notin pendingOcr /\ Cardinality(pendingOcr) >= MaxDeferred

\* defer_path with room in memory and in the table.
DeferDurably(p, spent) ==
    /\ HasRoom(p) /\ ~TableFull(p)
    /\ deferred' = deferred \cup {p}
    /\ pendingOcr' = pendingOcr \cup {p}
    /\ undurable' = undurable \ {p}
    /\ owed' = owed \cup {p}
    /\ excused' = excused \ {p}
    /\ faults' = faults + spent /\ faults' <= MaxFaults
    /\ UNCHANGED flags

\* Mutant: a rejected row sets no durable latch.
MutDeferUndurably(p, spent) ==
    /\ HasRoom(p)
    /\ deferred' = deferred \cup {p}
    /\ undurable' = undurable \cup {p}
    /\ overflow' = TRUE
    /\ faults' = faults + spent + 1 /\ faults' <= MaxFaults
    /\ owed' = owed \cup {p}
    /\ UNCHANGED <<pendingOcr, overflowDb, recoveryDb, excused>>

\* defer_path when the table is full or SQLite rejects the row: the input stays
\* in memory, marked undurable, and the overflow latch is set in memory and, as
\* far as SQLite accepts it, durably.  A full table sets the latch by itself.
DeferUndurably(p, spent) ==
    /\ HasRoom(p)
    /\ deferred' = deferred \cup {p}
    /\ undurable' = undurable \cup {p}
    /\ overflow' = TRUE
    /\ \E reached \in BOOLEAN, latched \in BOOLEAN :
          LET marked == latched \/ reached
          IN /\ reached => TableFull(p)
             /\ faults' = faults + spent + Fault(reached) + Fault(latched)
             /\ overflowDb' = (overflowDb \/ marked)
             /\ recoveryDb' = (recoveryDb \/ marked)
             /\ excused' = IF marked THEN excused \ {p} ELSE excused \cup {p}
    /\ faults' <= MaxFaults
    /\ owed' = owed \cup {p}
    /\ UNCHANGED pendingOcr

DeferFails(p, spent) == DeferFull(p, spent) \/ DeferUndurably(p, spent)
DeferPath(p, spent) == DeferDurably(p, spent) \/ DeferFails(p, spent)

\* Mutant: an acknowledged input stays marked undurable.
MutForgetMemory(p) ==
    \/ deferred' = deferred \ {p} /\ UNCHANGED <<undurable, faults>>
    \/ /\ p \in deferred /\ faults < MaxFaults
       /\ faults' = faults + 1
       /\ UNCHANGED <<deferred, undurable>>

\* What forget_deferred does to the memory: an input leaves it only after SQLite
\* has acknowledged it.
ForgetMemory(p) ==
    \/ /\ deferred' = deferred \ {p}
       /\ undurable' = undurable \ {p}
       /\ UNCHANGED faults
    \/ /\ p \in deferred /\ faults < MaxFaults
       /\ faults' = faults + 1
       /\ UNCHANGED <<deferred, undurable>>

ForgetDeferred(p) ==
    /\ ForgetMemory(p)
    /\ pendingOcr' = IF p \in deferred /\ p \notin deferred' THEN pendingOcr \ {p}
                     ELSE pendingOcr

\* A transaction that settles an input takes the queue's row along.
Settled(p) ==
    /\ pendingOcr' = pendingOcr \ {p}
    /\ owed' = owed \ {p}
    /\ excused' = excused \ {p}

\* replace_indexed_document also ends both ledgers' rows for the version.
Replaced(p, v, bytes) ==
    /\ doc' = [doc EXCEPT ![p] = [v |-> v, bytes |-> bytes]]
    /\ empty' = [empty EXCEPT ![p] = IF @.v = v THEN None ELSE @]
    /\ attempts' = [attempts EXCEPT ![p] = IF @.v = v THEN NoAttempts ELSE @]

\* replace_metadata_only_document refreshes only the fingerprint of a document
\* that exists; the queue's row then stays.
MetadataReplaced(p, v) ==
    /\ IF doc[p].v # 0
       THEN /\ doc' = [doc EXCEPT ![p].v = v]
            /\ UNCHANGED <<empty, attempts, pendingOcr>>
       ELSE /\ Replaced(p, v, v)
            /\ pendingOcr' = pendingOcr \ {p}
    /\ owed' = owed \ {p}
    /\ excused' = excused \ {p}

FailureCount(p, v) == IF attempts[p].v = v THEN attempts[p].n ELSE 0
SkipRecognition(p, v) == empty[p].v = v \/ FailureCount(p, v) >= MaxFailures

\* remove_document_with_empty: an empty result is recorded unless the version
\* ran out of attempts.
RemovedEmpty(p, v, bytes) ==
    /\ doc' = [doc EXCEPT ![p] = None]
    /\ empty' = IF FailureCount(p, v) < MaxFailures
                THEN [empty EXCEPT ![p] = [v |-> v, bytes |-> bytes]] ELSE empty
    /\ UNCHANGED attempts

Removed(p) == doc' = [doc EXCEPT ![p] = None] /\ UNCHANGED <<empty, attempts>>

\* Mutant: the last failures replace the count.
MutRecordedFailures(p, v, n) == n

\* record_ocr_failures: a new version starts its own count.
RecordedFailures(p, v, n) ==
    LET total == FailureCount(p, v) + n
    IN IF total < MaxFailures THEN total ELSE MaxFailures

-----------------------------------------------------------------------------
(* What scan_directory_unit makes of a path when it may not dispatch.      *)

Cached(p) == p \notin deferred /\ doc[p].v = file[p]
Class(p) ==
    CASE file[p] = 0 -> "gone"
      [] file[p] # 0 /\ (p \notin Images \/ Cached(p)) -> "document"
      [] file[p] # 0 /\ p \in Images /\ ~Cached(p) ->
            IF SkipRecognition(p, file[p]) \/ file[p] \in ZeroBytes THEN "empty"
            ELSE IF file[p] \in Oversize THEN "oversize" ELSE "recognise"

\* replace_scanned_document and, unless it is metadata only, forget_deferred.
DocumentStored(p) ==
    /\ IF p \in MetadataOnly
       THEN /\ MetadataReplaced(p, file[p])
            /\ UNCHANGED <<deferred, undurable, faults>>
       ELSE /\ Replaced(p, file[p], IF Cached(p) THEN doc[p].bytes ELSE file[p])
            /\ Settled(p)
            /\ ForgetMemory(p)
    /\ UNCHANGED flags

\* complete_empty_ocr.
EmptyCompleted(p) ==
    /\ RemovedEmpty(p, file[p], file[p])
    /\ Settled(p)
    /\ ForgetMemory(p)
    /\ UNCHANGED flags

-----------------------------------------------------------------------------
(* The files.                                                              *)

FileWrite(p) ==
    /\ made < MaxVersion
    /\ made' = made + 1
    /\ file' = [file EXCEPT ![p] = made + 1]
    /\ events' = events \cup {p}
    /\ failed' = [failed EXCEPT ![p] = 0]
    /\ UNCHANGED <<thread, queue, loadFailed, lane, results, bounds>>

FileDelete(p) ==
    /\ file[p] # 0
    /\ file' = [file EXCEPT ![p] = 0]
    /\ events' = events \cup {p}
    /\ failed' = [failed EXCEPT ![p] = 0]
    /\ owed' = owed \ {p}
    /\ excused' = excused \ {p}
    /\ UNCHANGED <<made, thread, deferred, undurable, pendingOcr, flags, faults,
                   loadFailed, lane, results, bounds>>

\* A week has passed since the last full rebuild.
RebuildFallsDue ==
    /\ ~due
    /\ due' = TRUE
    /\ UNCHANGED <<disk, events, pc, todo, seen, pending, queue, loadFailed, lane, results,
                   bounds, failed>>

-----------------------------------------------------------------------------
(* The index thread: one batch of events.                                  *)

TakeBatch ==
    /\ pc = "loop" /\ events # {}
    /\ pc' = "batch"
    /\ todo' = events
    /\ events' = {}
    /\ pending' = TRUE
    /\ UNCHANGED <<disk, seen, due, queue, loadFailed, lane, results, bounds, failed>>

\* The activity guard cannot be saved: the batch that was taken is given up.
BatchDropped ==
    /\ pc = "loop" /\ events # {}
    /\ faults < MaxFaults
    /\ faults' = faults + 1
    /\ events' = {}
    /\ pending' = TRUE
    /\ UNCHANGED <<disk, pc, todo, seen, due, deferred, undurable, pendingOcr, flags, owed,
                   excused, loadFailed, lane, results, bounds, failed>>

BatchStep(p) ==
    /\ pc = "batch" /\ p \in todo
    /\ todo' = todo \ {p}
    /\ pc' = IF todo = {p} THEN "loop" ELSE "batch"
    /\ UNCHANGED <<disk, events, seen, pending, due, loadFailed, lane, bounds, failed>>

\* A path that a lane works on is skipped, and its event is gone.
ReconcileInFlight(p) ==
    /\ BatchStep(p) /\ ~Idle(p)
    /\ UNCHANGED <<queue, results>>

ReconcileGone(p) ==
    /\ BatchStep(p) /\ Idle(p) /\ Class(p) = "gone"
    /\ Removed(p)
    /\ Settled(p)
    /\ UNCHANGED <<deferred, undurable, flags, faults>>

\* Mutant: a path in flight is not skipped.
MutReconcileDocument(p) ==
    /\ BatchStep(p) /\ Class(p) = "document"
    /\ DocumentStored(p)

ReconcileDocument(p) ==
    /\ BatchStep(p) /\ Idle(p) /\ Class(p) = "document"
    /\ DocumentStored(p)

ReconcileEmpty(p) ==
    /\ BatchStep(p) /\ Idle(p) /\ Class(p) = "empty"
    /\ EmptyCompleted(p)

\* Forgotten first; the document goes with the row when nothing is deferred.
ReconcileOversize(p) ==
    /\ BatchStep(p) /\ Idle(p) /\ Class(p) = "oversize"
    /\ ForgetMemory(p)
    /\ IF p \in deferred'
       THEN UNCHANGED <<results, pendingOcr>>
       ELSE Removed(p) /\ pendingOcr' = pendingOcr \ {p}
    /\ owed' = owed \ {p}
    /\ excused' = excused \ {p}
    /\ UNCHANGED flags

ReconcileRecognise(p) ==
    /\ BatchStep(p) /\ Idle(p) /\ Class(p) = "recognise"
    /\ DeferPath(p, 0)
    /\ UNCHANGED results

\* The write is rejected.  A removal and a metadata refresh ignore it.
ReconcileRejected(p) ==
    /\ BatchStep(p) /\ Idle(p)
    /\ \/ /\ Class(p) \in {"document", "empty"} /\ p \notin MetadataOnly
          /\ DeferPath(p, 1)
       \/ /\ Class(p) = "gone" \/ (Class(p) = "document" /\ p \in MetadataOnly)
          /\ faults < MaxFaults /\ faults' = faults + 1
          /\ UNCHANGED <<deferred, undurable, pendingOcr, flags, owed, excused>>
    /\ UNCHANGED results

ReconcilePath(p) ==
    \/ ReconcileInFlight(p) \/ ReconcileGone(p) \/ ReconcileDocument(p)
    \/ ReconcileEmpty(p) \/ ReconcileOversize(p) \/ ReconcileRecognise(p)
    \/ ReconcileRejected(p)

-----------------------------------------------------------------------------
(* The index thread: the full rebuild, rebuild_index and run_rebuild.      *)

RebuildStart ==
    /\ pc = "loop" /\ pending /\ Active = {} /\ RebuildDue
    /\ pc' = "walk"
    /\ todo' = Paths
    /\ seen' = {}
    /\ UNCHANGED <<disk, events, pending, due, queue, loadFailed, lane, results, bounds, failed>>

WalkStep(p) ==
    /\ pc = "walk" /\ p \in todo
    /\ todo' = todo \ {p}
    /\ UNCHANGED <<disk, events, pc, pending, due, loadFailed, lane, bounds, failed>>

WalkGone(p) ==
    /\ WalkStep(p) /\ Class(p) = "gone"
    /\ owed' = owed \ {p}
    /\ excused' = excused \ {p}
    /\ UNCHANGED <<seen, deferred, undurable, pendingOcr, flags, faults, results>>

WalkDocument(p) ==
    /\ WalkStep(p) /\ Class(p) = "document"
    /\ seen' = seen \cup {p}
    /\ DocumentStored(p)

WalkEmpty(p) ==
    /\ WalkStep(p) /\ Class(p) = "empty"
    /\ EmptyCompleted(p)
    /\ UNCHANGED seen

WalkOversize(p) ==
    /\ WalkStep(p) /\ Class(p) = "oversize"
    /\ ForgetDeferred(p)
    /\ owed' = owed \ {p}
    /\ excused' = excused \ {p}
    /\ UNCHANGED <<seen, flags, results>>

WalkRecognise(p) ==
    /\ WalkStep(p) /\ Class(p) = "recognise"
    /\ DeferDurably(p, 0)
    /\ UNCHANGED <<seen, results>>

WalkPath(p) ==
    \/ WalkGone(p) \/ WalkDocument(p) \/ WalkEmpty(p) \/ WalkOversize(p) \/ WalkRecognise(p)

\* After run_rebuild the flag is cleared; at startup (the walk of a process whose
\* flag is still FALSE) it is set when work is left.
PendingAfterRebuild == ~pending /\ ~(deferred' = {} /\ ~overflow')

\* A write that is rejected, or an input that cannot be queued, ends the walk.
WalkFails(p) ==
    /\ pc = "walk" /\ p \in todo
    /\ \/ Class(p) \in {"document", "empty"} /\ DeferPath(p, 1)
       \/ Class(p) = "recognise" /\ DeferFails(p, 0)
    /\ pc' = "loop" /\ todo' = {} /\ seen' = {}
    /\ pending' = PendingAfterRebuild
    /\ UNCHANGED <<disk, events, due, loadFailed, lane, results, bounds, failed>>

\* prune_except drops what the walk did not see; the marker is written, and the
\* recovery row cleared, only when nothing is left deferred.
WalkDone ==
    /\ pc = "walk" /\ todo = {}
    /\ \E pruned \in BOOLEAN, marked \in BOOLEAN :
          LET marks == pruned /\ Drained /\ ~loadFailed
          IN /\ faults' = faults + Fault(pruned) + (IF marks THEN Fault(marked) ELSE 0)
             /\ marks \/ marked
             /\ doc' = IF pruned THEN [p \in Paths |-> IF p \in seen THEN doc[p] ELSE None]
                       ELSE doc
             /\ IF marks /\ marked THEN recoveryDb' = FALSE /\ due' = FALSE
                ELSE UNCHANGED <<recoveryDb, due>>
    /\ faults' <= MaxFaults
    /\ pc' = "loop" /\ seen' = {}
    /\ pending' = (~pending /\ ~Drained)
    /\ UNCHANGED <<disk, events, todo, deferred, undurable, pendingOcr, overflow, overflowDb,
                   owed, excused, loadFailed, lane, empty, attempts, bounds, failed>>

\* Mutant: drained is taken to mean deferred_count() == 0.
MutClearOverflow ==
    /\ pc = "loop" /\ Drained /\ Healthy /\ overflow
    /\ overflow' = FALSE
    /\ overflowDb' = FALSE
    /\ recoveryDb' = TRUE
    /\ pending' = TRUE
    /\ UNCHANGED <<disk, events, pc, todo, seen, due, deferred, undurable, pendingOcr, faults,
                   owed, excused, loadFailed, lane, results, bounds, failed>>

\* clear_overflow_if_drained: the latch becomes an obligation to walk.
ClearOverflow ==
    /\ pc = "loop" /\ deferred = {} /\ Healthy /\ overflow
    /\ overflow' = FALSE
    /\ overflowDb' = FALSE
    /\ recoveryDb' = TRUE
    /\ pending' = TRUE
    /\ UNCHANGED <<disk, events, pc, todo, seen, due, deferred, undurable, pendingOcr, faults,
                   owed, excused, loadFailed, lane, results, bounds, failed>>

-----------------------------------------------------------------------------
(* Retry lanes: retry_ocr_path with dispatch.                              *)

rest == <<disk, events, thread, loadFailed>>

LaneTo(p, step) == lane' = [lane EXCEPT ![p].pc = step]
LaneEnds(p) == lane' = [lane EXCEPT ![p] = IdleLane]

\* take_retry_paths_excluding and claim_retry.
Dispatch(p) ==
    /\ pc = "loop" /\ p \in deferred /\ Idle(p)
    /\ Cardinality(Active) < MaxParallel
    /\ LaneTo(p, "claimed")
    /\ pending' = TRUE
    /\ UNCHANGED <<disk, events, pc, todo, seen, due, queue, loadFailed, results, bounds, failed>>

\* metadata_retry_paths: the index thread itself retries what needs no worker.
Cleanup(p) ==
    /\ pc = "loop" /\ p \in deferred \cap MetadataOnly /\ Idle(p)
    /\ \/ /\ file[p] # 0 /\ DocumentStored(p)
       \/ /\ file[p] # 0 /\ DeferPath(p, 1) /\ UNCHANGED results
       \/ /\ file[p] = 0 /\ Removed(p) /\ Settled(p) /\ ForgetMemory(p)
          /\ UNCHANGED flags
    /\ pending' = TRUE
    /\ UNCHANGED <<disk, events, pc, todo, seen, due, loadFailed, lane, bounds, failed>>

LaneGone(p) ==
    /\ lane[p].pc = "claimed" /\ file[p] = 0
    /\ \/ /\ Removed(p) /\ Settled(p) /\ LaneTo(p, "forget")
          /\ UNCHANGED faults
       \/ /\ faults < MaxFaults /\ faults' = faults + 1
          /\ LaneEnds(p)
          /\ UNCHANGED <<results, pendingOcr, owed, excused>>
    /\ UNCHANGED <<rest, deferred, undurable, flags, bounds, failed>>

\* The fingerprint that the result will be stored under is read here.  What is
\* no image or PDF is dropped from the queue without being looked at.
LaneStat(p) ==
    /\ lane[p].pc = "claimed" /\ file[p] # 0
    /\ LET v == file[p]
           to(step) == lane' = [lane EXCEPT ![p] = [pc |-> step, v |-> v, stat |-> 0, bytes |-> v]]
       IN \/ /\ p \in Texts /\ to("forget")
             /\ UNCHANGED <<owed, excused>>
          \/ /\ p \in MetadataOnly /\ to("recheck")
             /\ UNCHANGED <<owed, excused>>
          \/ /\ p \in Images /\ Class(p) = "empty" /\ to("empty")
             /\ UNCHANGED <<owed, excused>>
          \/ /\ p \in Images /\ Class(p) = "oversize" /\ to("forget")
             /\ owed' = owed \ {p} /\ excused' = excused \ {p}
          \/ /\ p \in Images /\ Class(p) = "recognise" /\ to("extract")
             /\ UNCHANGED <<owed, excused>>
    /\ UNCHANGED <<rest, deferred, undurable, pendingOcr, flags, faults, results, bounds, failed>>

\* extract_remote reads the fingerprint again, for the failure ledger.
LaneExtract(p) ==
    /\ lane[p].pc = "extract"
    /\ \/ file[p] = 0 /\ LaneEnds(p)
       \/ /\ file[p] # 0 /\ SkipRecognition(p, file[p])
          /\ lane' = [lane EXCEPT ![p].pc = "empty", ![p].bytes = file[p]]
       \/ /\ file[p] # 0 /\ ~SkipRecognition(p, file[p])
          /\ lane' = [lane EXCEPT ![p].pc = "send", ![p].stat = file[p]]
    /\ UNCHANGED <<rest, queue, results, bounds, failed>>

\* extract_with_budget reads the bytes once a worker is free.
LaneSend(p) ==
    /\ lane[p].pc = "send"
    /\ \/ /\ file[p] \notin {0} \cup ZeroBytes \cup Oversize
          /\ lane' = [lane EXCEPT ![p].pc = "remote", ![p].bytes = file[p]]
          /\ UNCHANGED queue
       \/ /\ file[p] \in {0} \cup ZeroBytes \cup Oversize
          /\ LaneEnds(p)
          /\ DeferPath(p, 0)
    /\ UNCHANGED <<rest, results, bounds, failed>>

LaneAnswered(p) ==
    /\ lane[p].pc = "remote"
    /\ LaneTo(p, "recheck") \/ LaneTo(p, "empty")
    /\ UNCHANGED <<rest, queue, results, bounds, failed>>

\* A worker failed on this input (extract_with_budget reports one attempt).  The
\* failure of a version that is still there is recorded; a version that ran out of
\* attempts counts as empty.
LaneFailed(p) ==
    /\ lane[p].pc = "remote"
    /\ LET v == lane[p].stat
           total == RecordedFailures(p, v, 1)
       IN \/ /\ file[p] = v
             /\ failed' = [failed EXCEPT ![p] = @ + 1]
             /\ \/ /\ attempts' = [attempts EXCEPT ![p] = [v |-> v, n |-> total]]
                   /\ IF total >= MaxFailures
                      THEN LaneTo(p, "empty") /\ UNCHANGED queue
                      ELSE LaneEnds(p) /\ DeferPath(p, 0)
                \/ /\ faults < MaxFaults /\ faults' = faults + 1
                   /\ LaneEnds(p)
                   /\ UNCHANGED <<attempts, deferred, undurable, pendingOcr, flags, owed, excused>>
          \/ /\ file[p] # v
             /\ LaneEnds(p) /\ DeferPath(p, 0)
             /\ UNCHANGED <<attempts, failed>>
    /\ UNCHANGED <<rest, doc, empty, bounds>>

\* No worker, a transport error, a deadline: not a failure of the input.
LaneOutage(p) ==
    /\ lane[p].pc \in {"send", "remote"} /\ outages < MaxOutages
    /\ outages' = outages + 1
    /\ LaneEnds(p) /\ DeferPath(p, 0)
    /\ UNCHANGED <<rest, results, restarts, failed>>

\* A lane that panics drops its lease.
LaneLost(p) ==
    /\ ~Idle(p) /\ outages < MaxOutages
    /\ outages' = outages + 1
    /\ LaneEnds(p)
    /\ UNCHANGED <<rest, queue, results, restarts, failed>>

\* Mutant: the fingerprint is not read again.
MutLaneRecheck(p) ==
    /\ lane[p].pc = "recheck" /\ LaneTo(p, "commit")
    /\ UNCHANGED <<rest, queue, results, bounds, failed>>

\* The input must still be the version the lane started from.
LaneRecheck(p) ==
    /\ lane[p].pc = "recheck"
    /\ \/ file[p] = lane[p].v /\ LaneTo(p, "commit") /\ UNCHANGED queue
       \/ file[p] # lane[p].v /\ LaneEnds(p) /\ DeferPath(p, 0)
    /\ UNCHANGED <<rest, results, bounds, failed>>

LaneCommit(p) ==
    /\ lane[p].pc = "commit"
    /\ \/ /\ p \in MetadataOnly
          /\ MetadataReplaced(p, lane[p].v)
          /\ LaneEnds(p)
          /\ UNCHANGED <<deferred, undurable, flags, faults>>
       \/ /\ p \notin MetadataOnly
          /\ Replaced(p, lane[p].v, lane[p].bytes) /\ Settled(p)
          /\ LaneTo(p, "forget")
          /\ UNCHANGED <<deferred, undurable, flags, faults>>
       \/ DeferPath(p, 1) /\ LaneEnds(p) /\ UNCHANGED results
    /\ UNCHANGED <<rest, bounds, failed>>

\* complete_empty_ocr, before and after its look at the file.
LaneEmpty(p) ==
    /\ lane[p].pc = "empty"
    /\ \/ file[p] = lane[p].v /\ LaneTo(p, "emptyCommit") /\ UNCHANGED queue
       \/ file[p] # lane[p].v /\ LaneEnds(p) /\ DeferPath(p, 0)
    /\ UNCHANGED <<rest, results, bounds, failed>>

LaneEmptyCommit(p) ==
    /\ lane[p].pc = "emptyCommit"
    /\ \/ /\ RemovedEmpty(p, lane[p].v, lane[p].bytes) /\ Settled(p)
          /\ LaneTo(p, "forget")
          /\ UNCHANGED <<deferred, undurable, flags, faults>>
       \/ DeferPath(p, 1) /\ LaneEnds(p) /\ UNCHANGED results
    /\ UNCHANGED <<rest, bounds, failed>>

LaneForget(p) ==
    /\ lane[p].pc = "forget"
    /\ ForgetDeferred(p)
    /\ LaneEnds(p)
    /\ UNCHANGED <<rest, flags, owed, excused, results, bounds, failed>>

LaneStep(p) ==
    \/ LaneGone(p) \/ LaneStat(p) \/ LaneExtract(p) \/ LaneSend(p) \/ LaneAnswered(p)
    \/ LaneFailed(p) \/ LaneRecheck(p) \/ LaneCommit(p) \/ LaneEmpty(p) \/ LaneEmptyCommit(p)
    \/ LaneForget(p)

-----------------------------------------------------------------------------
(* IndexManager::start: the queue is loaded, and a rebuild that is due     *)
(* starts at once unless the activity guard is still hot.                  *)

Begins(loaded, latched, failure) ==
    /\ deferred' = loaded
    /\ overflow' = latched
    /\ loadFailed' = failure
    /\ \E hot \in BOOLEAN :
          LET drained == loaded = {} /\ ~latched
              requested == drained /\ (recoveryDb' \/ due')
          IN /\ pc' = IF requested /\ ~hot THEN "walk" ELSE "loop"
             /\ todo' = IF requested /\ ~hot THEN Paths ELSE {}
             /\ pending' = (~drained \/ (requested /\ hot))
    /\ seen' = {} /\ events' = {} /\ undurable' = {}
    /\ lane' = [p \in Paths |-> IdleLane]

\* The process dies anywhere and starts again.
Restart ==
    /\ restarts < MaxRestarts
    /\ restarts' = restarts + 1
    /\ owed' = owed \ excused
    /\ excused' = {}
    /\ UNCHANGED <<disk, due, pendingOcr, overflowDb, recoveryDb, results, outages, failed>>
    /\ \/ Begins(pendingOcr, overflowDb, FALSE) /\ UNCHANGED faults
       \/ /\ faults < MaxFaults /\ faults' = faults + 1
          /\ Begins({}, TRUE, TRUE)

Init ==
    /\ made = 1 /\ file \in [Paths -> {0, 1}]
    /\ events = {} /\ todo = Paths /\ seen = {}
    /\ pc = "walk" /\ pending = FALSE /\ due = TRUE
    /\ deferred = {} /\ overflow = FALSE /\ undurable = {} /\ loadFailed = FALSE
    /\ lane = [p \in Paths |-> IdleLane]
    /\ pendingOcr = {} /\ overflowDb = FALSE /\ recoveryDb = FALSE
    /\ doc = [p \in Paths |-> None] /\ empty = [p \in Paths |-> None]
    /\ attempts = [p \in Paths |-> NoAttempts]
    /\ faults = 0 /\ outages = 0 /\ restarts = 0
    /\ owed = {} /\ excused = {}
    /\ failed = [p \in Paths |-> 0]

ThreadStep == TakeBatch \/ RebuildStart \/ WalkDone \/ ClearOverflow
PathStep(p) == ReconcilePath(p) \/ WalkPath(p) \/ WalkFails(p) \/ Dispatch(p) \/ Cleanup(p)

Next ==
    \/ ThreadStep \/ BatchDropped \/ RebuildFallsDue \/ Restart
    \/ \E p \in Paths :
          \/ PathStep(p) \/ LaneStep(p) \/ LaneOutage(p) \/ LaneLost(p)
          \/ FileWrite(p) \/ FileDelete(p)

Spec == Init /\ [][Next]_vars

\* The index thread never stops, a thread that was spawned runs, the recognition
\* of an input ends (remote_timeout_ms), and the rotation of the retry cursor
\* reaches every queued input.
FairSpec ==
    /\ Spec
    /\ WF_vars(ThreadStep)
    /\ \A p \in Paths :
          /\ WF_vars(ReconcilePath(p) \/ WalkPath(p) \/ WalkFails(p))
          /\ SF_vars(Dispatch(p))
          /\ WF_vars(LaneStep(p))

-----------------------------------------------------------------------------
(* Properties.                                                             *)

\* Every reachable state has the shape that the declarations describe;
\* what is not durable is still in memory.
TypeOK ==
    /\ file \in [Paths -> Versions] /\ made \in Versions
    /\ events \subseteq Paths
    /\ pc \in {"loop", "batch", "walk"} /\ todo \subseteq Paths /\ seen \subseteq Paths
    /\ pending \in BOOLEAN /\ due \in BOOLEAN
    /\ deferred \subseteq Paths /\ undurable \subseteq deferred
    /\ overflow \in BOOLEAN /\ loadFailed \in BOOLEAN
    /\ lane \in [Paths -> [pc : LaneSteps, v : Versions, stat : Versions, bytes : Versions]]
    /\ pendingOcr \subseteq Paths /\ overflowDb \in BOOLEAN /\ recoveryDb \in BOOLEAN
    /\ doc \in [Paths -> Fingerprint] /\ empty \in [Paths -> Fingerprint]
    /\ attempts \in [Paths -> [v : Versions, n : 0 .. MaxFailures]]
    /\ faults \in 0 .. MaxFaults /\ outages \in 0 .. MaxOutages /\ restarts \in 0 .. MaxRestarts
    /\ owed \subseteq Paths /\ excused \subseteq Paths
    /\ failed \in [Paths -> Nat]

\* An input that OCR was asked to retain and that is not settled yet is known to
\* the running process: it is queued, or the overflow latch is set, or a full
\* walk is owed that has yet to pass it.
OwedIsCovered ==
    \A p \in owed \ Texts :
        p \in deferred \/ overflow \/ (recoveryDb /\ (pc = "walk" => p \in todo))

\* The same input survives a crash: its row or one of the latches is in SQLite,
\* unless SQLite itself refused both (set_ocr_overflow is best effort).
OwedIsDurable ==
    \A p \in owed \ (Texts \cup excused) : p \in pendingOcr \/ overflowDb \/ recoveryDb

\* A document or an empty result stored for a version was computed from the bytes
\* of that version, however the file changed during recognition.
ResultIsOfItsVersion ==
    \A p \in Images : doc[p].v = doc[p].bytes /\ empty[p].v = empty[p].bytes

\* No version of an input is recognised in vain more often than the budget, across
\* restarts too.  The budget is spent again only for a count that SQLite rejected and
\* for an input that stayed queued after its document was stored and its count
\* dropped: its acknowledgement was rejected, or its lane was lost before it.
RecognitionBudget ==
    \A p \in Paths : failed[p] <= MaxFailures * (1 + faults + outages)

\* The index never goes back to an older version of a path.
NoRegression == [][\A p \in Paths : doc'[p].v = 0 \/ doc'[p].v >= doc[p].v]_doc

\* An empty result does not acknowledge a newer version of its file: a version
\* that came after it is settled, or some part of the system has yet to look at it.
Accounted(p) ==
    \/ doc[p].v = file[p] \/ SkipRecognition(p, file[p]) \/ file[p] \in Oversize
    \/ p \in events \/ p \in deferred \/ overflow \/ recoveryDb \/ due
    \/ (pc # "loop" /\ p \in todo)
EmptyAckKeepsNewer ==
    \A p \in Images : empty[p].v # 0 /\ file[p] > empty[p].v => Accounted(p)

\* Every input that was queued or overflowed is settled in the end.  A process that
\* could not load its queue holds the latch, and does no full walk, until it restarts.
OwedIsSettled == \A p \in Paths : p \in owed ~> p \notin owed \/ loadFailed
=============================================================================
