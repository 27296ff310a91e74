--------------------------- MODULE OcrQueueProofs ---------------------------
(***************************************************************************)
(* Proofs about OcrQueue: an input that OCR accepted is neither lost by    *)
(* the running process (OwedIsCovered) nor by a crash (OwedIsDurable),     *)
(* and what is recorded about an input is true of its bytes, within its    *)
(* failure budget and never older than what it replaces                    *)
(* (ResultIsOfItsVersion, RecognitionBudget, NoRegression).                *)
(*                                                                         *)
(* Every action does one of three things to the queue: it takes an input   *)
(* in (Grows), it lets one go that is settled (Shrinks), or it leaves the  *)
(* queue alone.  The first two keep both coverage properties whatever else *)
(* happens; the rebuild, the latch and the restart are treated one by one. *)
(* The records are settled path by path: an action touches one path and    *)
(* leaves the others as they are (Step, Apart).                            *)
(***************************************************************************)
EXTENDS OcrQueue, TLAPS

QueueTyped ==
    /\ deferred \subseteq Paths /\ undurable \subseteq deferred /\ pendingOcr \subseteq Paths
    /\ overflow \in BOOLEAN /\ overflowDb \in BOOLEAN /\ recoveryDb \in BOOLEAN
    /\ faults \in 0 .. MaxFaults
    /\ owed \subseteq Paths /\ excused \subseteq Paths

ResultsTyped ==
    /\ doc \in [Paths -> Fingerprint] /\ empty \in [Paths -> Fingerprint]
    /\ attempts \in [Paths -> [v : Versions, n : 0 .. MaxFailures]]

LaneTyped ==
    lane \in [Paths -> [pc : LaneSteps, v : Versions, stat : Versions, bytes : Versions]]

ThreadTyped ==
    /\ pc \in {"loop", "batch", "walk"} /\ todo \subseteq Paths /\ seen \subseteq Paths
    /\ pending \in BOOLEAN /\ due \in BOOLEAN

RestTyped ==
    /\ file \in [Paths -> Versions] /\ made \in Versions
    /\ events \subseteq Paths /\ loadFailed \in BOOLEAN
    /\ outages \in 0 .. MaxOutages /\ restarts \in 0 .. MaxRestarts
    /\ failed \in [Paths -> Nat]

\* No lane works while the index thread walks the roots.
WalkAlone == pc = "walk" => \A p \in Paths : Idle(p)

\* A lane that is about to forget its input has settled it.
ForgetSettled == \A p \in Paths \ Texts : lane[p].pc = "forget" => p \notin owed

QueueSafe == OwedIsCovered /\ OwedIsDurable
IInv == TypeOK /\ QueueSafe /\ WalkAlone /\ ForgetSettled

\* defer_path: p is queued or latched, in memory and as far as SQLite accepts it
\* durably, and nothing else is let go.
Grows(p) ==
    /\ owed' = owed \cup {p}
    /\ excused \subseteq excused' \cup {p}
    /\ deferred \subseteq deferred' /\ pendingOcr \subseteq pendingOcr'
    /\ overflow => overflow'
    /\ overflowDb => overflowDb'
    /\ recoveryDb => recoveryDb'
    /\ p \in deferred' \/ overflow'
    /\ p \in excused' \/ p \in pendingOcr' \/ overflowDb'

\* p leaves the queue, settled; nothing else is let go.
Shrinks(p) ==
    /\ owed' = owed \ {p}
    /\ excused' = excused \ {p}
    /\ deferred \subseteq deferred' \cup {p} /\ pendingOcr \subseteq pendingOcr' \cup {p}
    /\ UNCHANGED flags

\* What the two properties depend on, the index thread apart.
held == <<deferred, overflow, pendingOcr, overflowDb, recoveryDb, owed, excused>>

\* Every lane but p's is left alone.
OthersRest(p) == \A q \in Paths : q # p => lane'[q] = lane[q]

\* How far the walk gets: it passes p at most.
Passes(p) == pc' # "walk" \/ (pc' = pc /\ todo \subseteq todo' \cup {p})

-----------------------------------------------------------------------------
\* The type invariant in the parts that actions disturb together.
LEMMA TypeParts ==
    TypeOK <=> QueueTyped /\ ResultsTyped /\ LaneTyped /\ ThreadTyped /\ RestTyped
BY DEF TypeOK, QueueTyped, ResultsTyped, LaneTyped, ThreadTyped, RestTyped

LEMMA TypePartsNext ==
    TypeOK' <=> QueueTyped' /\ ResultsTyped' /\ LaneTyped' /\ ThreadTyped' /\ RestTyped'
BY DEF TypeOK, QueueTyped, ResultsTyped, LaneTyped, ThreadTyped, RestTyped

\* defer_path in each of its three outcomes (ocr.rs) takes the input in.
LEMMA DeferFacts ==
    ASSUME NEW p \in Paths, NEW spent \in Nat, QueueTyped, DeferPath(p, spent)
    PROVE  QueueTyped' /\ Grows(p)
<1> USE OcrBoundsAssumption
<1>1. CASE DeferFull(p, spent)
  BY <1>1 DEF DeferFull, QueueTyped, Grows, Fault
<1>2. CASE DeferDurably(p, spent)
  BY <1>2 DEF DeferDurably, QueueTyped, Grows, Fault, flags
<1>3. CASE DeferUndurably(p, spent)
  BY <1>3 DEF DeferUndurably, QueueTyped, Grows, Fault
<1> QED BY <1>1, <1>2, <1>3 DEF DeferPath, DeferFails

\* What forget_deferred may do to the memory.
LEMMA ForgetMemoryFacts ==
    ASSUME NEW p \in Paths, QueueTyped, ForgetMemory(p)
    PROVE  /\ deferred' \subseteq deferred /\ deferred \subseteq deferred' \cup {p}
           /\ undurable' \subseteq deferred'
           /\ faults' \in 0 .. MaxFaults
BY OcrBoundsAssumption DEF ForgetMemory, QueueTyped

\* Taking an input in keeps both properties of the queue.
LEMMA GrowKeeps ==
    ASSUME NEW p \in Paths, QueueSafe, Grows(p), Passes(p)
    PROVE  QueueSafe'
BY DEF QueueSafe, OwedIsCovered, OwedIsDurable, Grows, Passes

\* Letting a settled input go keeps both properties of the queue.
LEMMA ShrinkKeeps ==
    ASSUME NEW p \in Paths, QueueSafe, Shrinks(p), Passes(p)
    PROVE  QueueSafe'
BY DEF QueueSafe, OwedIsCovered, OwedIsDurable, Shrinks, Passes, flags

\* So does leaving the queue alone while the walk stays where it is.
LEMMA StillKeeps ==
    ASSUME QueueSafe, UNCHANGED held, pc' # "walk" \/ (pc' = pc /\ todo' = todo)
    PROVE  QueueSafe'
BY DEF QueueSafe, OwedIsCovered, OwedIsDurable, held

\* The transactions that store or remove a document keep the records' types.
LEMMA ReplacedTyped ==
    ASSUME NEW p \in Paths, NEW v \in Versions, NEW b \in Versions, ResultsTyped,
           Replaced(p, v, b)
    PROVE  ResultsTyped'
BY OcrBoundsAssumption DEF Replaced, ResultsTyped, Fingerprint, None, NoAttempts, Versions

LEMMA MetadataReplacedFacts ==
    ASSUME NEW p \in Paths, NEW v \in Versions, ResultsTyped, QueueTyped,
           MetadataReplaced(p, v), UNCHANGED <<deferred, undurable, flags, faults>>
    PROVE  ResultsTyped' /\ QueueTyped' /\ Shrinks(p)
<1>1. ResultsTyped'
  <2>1. CASE doc[p].v # 0
    BY <2>1 DEF MetadataReplaced, ResultsTyped, Fingerprint
  <2>2. CASE doc[p].v = 0
    BY <2>2, ReplacedTyped DEF MetadataReplaced
  <2> QED BY <2>1, <2>2
<1>2. QueueTyped' /\ Shrinks(p)
  BY DEF MetadataReplaced, QueueTyped, Shrinks, flags
<1> QED BY <1>1, <1>2

LEMMA RemovedTyped ==
    ASSUME NEW p \in Paths, ResultsTyped, Removed(p)
    PROVE  ResultsTyped'
BY OcrBoundsAssumption DEF Removed, ResultsTyped, Fingerprint, None, Versions

LEMMA RemovedEmptyTyped ==
    ASSUME NEW p \in Paths, NEW v \in Versions, NEW b \in Versions, ResultsTyped,
           RemovedEmpty(p, v, b)
    PROVE  ResultsTyped'
BY OcrBoundsAssumption DEF RemovedEmpty, ResultsTyped, Fingerprint, None, Versions

\* An input that is settled and forgotten in one step leaves the queue.
LEMMA SettleForget ==
    ASSUME NEW p \in Paths, QueueTyped, Settled(p), ForgetMemory(p), UNCHANGED flags
    PROVE  QueueTyped' /\ Shrinks(p)
<1>1. /\ deferred' \subseteq deferred /\ deferred \subseteq deferred' \cup {p}
      /\ undurable' \subseteq deferred' /\ faults' \in 0 .. MaxFaults
  BY ForgetMemoryFacts
<1> QED BY <1>1 DEF QueueTyped, Settled, Shrinks, flags

\* An input that is settled and stays in memory for now.
LEMMA SettleOnly ==
    ASSUME NEW p \in Paths, QueueTyped, Settled(p),
           UNCHANGED <<deferred, undurable, flags, faults>>
    PROVE  QueueTyped' /\ Shrinks(p)
BY DEF QueueTyped, Settled, Shrinks, flags

\* What the index thread stores itself.
LEMMA DocumentStoredFacts ==
    ASSUME NEW p \in Paths, TypeOK, DocumentStored(p)
    PROVE  QueueTyped' /\ ResultsTyped' /\ Shrinks(p)
<1> file[p] \in Versions /\ doc[p].bytes \in Versions /\ QueueTyped /\ ResultsTyped
  BY TypeParts DEF RestTyped, ResultsTyped, Fingerprint
<1>1. CASE p \in MetadataOnly
  BY <1>1, MetadataReplacedFacts DEF DocumentStored
<1>2. CASE p \notin MetadataOnly
  <2>1. ResultsTyped'
    BY <1>2, ReplacedTyped DEF DocumentStored
  <2> QED BY <1>2, <2>1, SettleForget DEF DocumentStored
<1> QED BY <1>1, <1>2

LEMMA EmptyCompletedFacts ==
    ASSUME NEW p \in Paths, TypeOK, EmptyCompleted(p)
    PROVE  QueueTyped' /\ ResultsTyped' /\ Shrinks(p)
<1> file[p] \in Versions /\ QueueTyped /\ ResultsTyped
  BY TypeParts DEF RestTyped
<1> QED BY RemovedEmptyTyped, SettleForget DEF EmptyCompleted

-----------------------------------------------------------------------------
\* A step that takes p in keeps the invariant: of the index thread, while no lane
\* works on p, or of p's lane, which ends.
LEMMA GrowStep ==
    ASSUME NEW p \in Paths, IInv, TypeOK', Grows(p), Passes(p), Idle(p), lane' = lane
    PROVE  IInv'
<1>1. QueueSafe'
  BY GrowKeeps DEF IInv
<1>2. WalkAlone'
  BY DEF IInv, WalkAlone, Passes, Idle
<1>3. ForgetSettled'
  BY DEF IInv, ForgetSettled, Grows, Idle
<1> QED BY <1>1, <1>2, <1>3 DEF IInv

LEMMA GrowLane ==
    ASSUME NEW p \in Paths, IInv, TypeOK', Grows(p), UNCHANGED thread, ~Idle(p), LaneEnds(p)
    PROVE  IInv'
<1>0. lane'[p].pc = "idle" /\ OthersRest(p) /\ pc # "walk"
  BY TypeParts DEF IInv, LaneTyped, LaneEnds, IdleLane, OthersRest, WalkAlone
<1>1. QueueSafe'
  BY GrowKeeps DEF IInv, Passes, thread
<1>2. WalkAlone'
  BY <1>0 DEF WalkAlone, thread
<1>3. ForgetSettled'
  BY <1>0 DEF IInv, ForgetSettled, Grows, OthersRest
<1> QED BY <1>1, <1>2, <1>3 DEF IInv

\* So does a step that lets a settled p go.
LEMMA ShrinkStep ==
    ASSUME NEW p \in Paths, IInv, TypeOK', Shrinks(p), Passes(p), lane' = lane
    PROVE  IInv'
<1>1. QueueSafe'
  BY ShrinkKeeps DEF IInv
<1>2. WalkAlone'
  BY DEF IInv, WalkAlone, Passes, Idle
<1>3. ForgetSettled'
  BY DEF IInv, ForgetSettled, Shrinks
<1> QED BY <1>1, <1>2, <1>3 DEF IInv

LEMMA ShrinkLane ==
    ASSUME NEW p \in Paths, IInv, TypeOK', Shrinks(p), UNCHANGED thread, ~Idle(p), OthersRest(p)
    PROVE  IInv'
<1>0. pc # "walk"
  BY DEF IInv, WalkAlone
<1>1. QueueSafe'
  BY ShrinkKeeps DEF IInv, Passes, thread
<1>2. WalkAlone'
  BY <1>0 DEF WalkAlone, thread
<1>3. ForgetSettled'
  BY DEF IInv, ForgetSettled, Shrinks, OthersRest
<1> QED BY <1>1, <1>2, <1>3 DEF IInv

\* So does a step that leaves the queue and the walk alone.
LEMMA StillStep ==
    ASSUME IInv, TypeOK', UNCHANGED <<held, lane>>, pc' # "walk" \/ (pc' = pc /\ todo' = todo)
    PROVE  IInv'
<1>1. QueueSafe'
  BY StillKeeps DEF IInv
<1>2. WalkAlone'
  BY DEF IInv, WalkAlone, Idle
<1>3. ForgetSettled'
  BY DEF IInv, ForgetSettled, held
<1> QED BY <1>1, <1>2, <1>3 DEF IInv

LEMMA StillLane ==
    ASSUME NEW p \in Paths, IInv, TypeOK', UNCHANGED <<held, thread>>, OthersRest(p), pc # "walk",
           lane'[p].pc = "forget" => p \in Texts
    PROVE  IInv'
<1>1. QueueSafe'
  BY StillKeeps DEF IInv, thread
<1>2. WalkAlone'
  BY DEF WalkAlone, thread
<1>3. ForgetSettled'
  BY DEF IInv, ForgetSettled, held, OthersRest
<1> QED BY <1>1, <1>2, <1>3 DEF IInv

\* Moving or ending p's lane keeps the lanes' type.
LEMMA LaneToFacts ==
    ASSUME NEW p \in Paths, NEW step \in LaneSteps, LaneTyped, LaneTo(p, step)
    PROVE  LaneTyped' /\ OthersRest(p) /\ lane'[p].pc = step
BY DEF LaneTyped, LaneTo, OthersRest

LEMMA LaneEndsFacts ==
    ASSUME NEW p \in Paths, LaneTyped, LaneEnds(p)
    PROVE  LaneTyped' /\ OthersRest(p) /\ lane'[p].pc = "idle"
BY OcrBoundsAssumption DEF LaneTyped, LaneEnds, OthersRest, IdleLane, LaneSteps, Versions

-----------------------------------------------------------------------------
\* The files change, and the weekly rebuild falls due.
LEMMA FileWriteKeeps ==
    ASSUME NEW p \in Paths, IInv, FileWrite(p)
    PROVE  IInv'
<1>1. RestTyped'
  BY OcrBoundsAssumption, TypeParts DEF IInv, FileWrite, RestTyped, bounds, Versions
<1>2. TypeOK'
  BY <1>1, TypeParts, TypePartsNext
     DEF IInv, FileWrite, QueueTyped, ResultsTyped, LaneTyped, ThreadTyped, queue, results, thread
<1> QED BY <1>2, StillStep DEF FileWrite, held, queue, thread

LEMMA FileDeleteKeeps ==
    ASSUME NEW p \in Paths, IInv, FileDelete(p)
    PROVE  IInv'
<1>1. RestTyped'
  BY OcrBoundsAssumption, TypeParts DEF IInv, FileDelete, RestTyped, bounds, Versions
<1>2. QueueTyped' /\ Shrinks(p)
  BY TypeParts DEF IInv, FileDelete, QueueTyped, Shrinks, flags
<1>3. TypeOK'
  BY <1>1, <1>2, TypeParts, TypePartsNext
     DEF IInv, FileDelete, ResultsTyped, LaneTyped, ThreadTyped, results, thread
<1> QED BY <1>2, <1>3, ShrinkStep DEF FileDelete, Passes, thread

\* The steps of the index thread that leave the queue alone.
LEMMA ThreadStillKeeps ==
    ASSUME IInv, TakeBatch \/ BatchDropped \/ RebuildFallsDue
    PROVE  IInv'
<1>0. QueueTyped /\ ResultsTyped /\ LaneTyped /\ ThreadTyped /\ RestTyped
  BY TypeParts DEF IInv
<1>1. TypeOK'
  <2>1. QueueTyped'
    BY <1>0, OcrBoundsAssumption
       DEF TakeBatch, BatchDropped, RebuildFallsDue, QueueTyped, queue, flags
  <2>2. ResultsTyped' /\ LaneTyped' /\ RestTyped'
    BY <1>0 DEF TakeBatch, BatchDropped, RebuildFallsDue, ResultsTyped, LaneTyped, RestTyped,
                results, disk, bounds
  <2>3. ThreadTyped'
    BY <1>0 DEF TakeBatch, BatchDropped, RebuildFallsDue, ThreadTyped, RestTyped
  <2> QED BY <2>1, <2>2, <2>3, TypePartsNext
<1> QED BY <1>1, StillStep DEF TakeBatch, BatchDropped, RebuildFallsDue, held, queue, flags

\* What a visit of the batch or the walk leaves of the type invariant to be shown.
LEMMA VisitTyped ==
    ASSUME NEW p \in Paths, IInv, BatchStep(p), QueueTyped', ResultsTyped'
    PROVE  TypeOK' /\ Passes(p) /\ lane' = lane
BY TypeParts, TypePartsNext
   DEF IInv, BatchStep, LaneTyped, ThreadTyped, RestTyped, disk, bounds, Passes

LEMMA WalkTyped ==
    ASSUME NEW p \in Paths, IInv, WalkStep(p), seen' \subseteq Paths, QueueTyped', ResultsTyped'
    PROVE  TypeOK' /\ Passes(p) /\ Idle(p) /\ lane' = lane
BY TypeParts, TypePartsNext
   DEF IInv, WalkStep, LaneTyped, ThreadTyped, RestTyped, disk, bounds, Passes, WalkAlone

\* Forgetting an input whose row and memory go together.
LEMMA ForgetDeferredFacts ==
    ASSUME NEW p \in Paths, QueueTyped, ForgetDeferred(p), UNCHANGED flags,
           owed' \subseteq Paths, excused' \subseteq Paths
    PROVE  /\ QueueTyped'
           /\ deferred \subseteq deferred' \cup {p} /\ pendingOcr \subseteq pendingOcr' \cup {p}
<1>1. /\ deferred' \subseteq deferred /\ deferred \subseteq deferred' \cup {p}
      /\ undurable' \subseteq deferred' /\ faults' \in 0 .. MaxFaults
  BY ForgetMemoryFacts DEF ForgetDeferred
<1> QED BY <1>1 DEF QueueTyped, ForgetDeferred, flags

\* Every outcome of reconcile_event_batch on one path.
LEMMA ReconcileKeeps ==
    ASSUME NEW p \in Paths, IInv, ReconcilePath(p)
    PROVE  IInv'
<1>0. QueueTyped /\ ResultsTyped /\ TypeOK
  BY TypeParts DEF IInv
<1>1. CASE ReconcileInFlight(p)
  <2>1. QueueTyped' /\ ResultsTyped'
    BY <1>0, <1>1 DEF ReconcileInFlight, QueueTyped, ResultsTyped, queue, results
  <2>2. TypeOK' /\ lane' = lane
    BY <1>1, <2>1, VisitTyped DEF ReconcileInFlight
  <2> QED BY <1>1, <2>2, StillStep DEF ReconcileInFlight, BatchStep, queue, held
<1>2. CASE ReconcileGone(p)
  <2>1. QueueTyped' /\ Shrinks(p) /\ ResultsTyped'
    BY <1>0, <1>2, SettleOnly, RemovedTyped DEF ReconcileGone
  <2> QED BY <1>2, <2>1, VisitTyped, ShrinkStep DEF ReconcileGone
<1>3. CASE ReconcileDocument(p)
  <2>1. QueueTyped' /\ Shrinks(p) /\ ResultsTyped'
    BY <1>0, <1>3, DocumentStoredFacts DEF ReconcileDocument
  <2> QED BY <1>3, <2>1, VisitTyped, ShrinkStep DEF ReconcileDocument
<1>4. CASE ReconcileEmpty(p)
  <2>1. QueueTyped' /\ Shrinks(p) /\ ResultsTyped'
    BY <1>0, <1>4, EmptyCompletedFacts DEF ReconcileEmpty
  <2> QED BY <1>4, <2>1, VisitTyped, ShrinkStep DEF ReconcileEmpty
<1>5. CASE ReconcileOversize(p)
  <2>1. ResultsTyped'
    BY <1>0, <1>5, RemovedTyped DEF ReconcileOversize, ResultsTyped, results
  <2>2. /\ deferred' \subseteq deferred /\ deferred \subseteq deferred' \cup {p}
        /\ undurable' \subseteq deferred' /\ faults' \in 0 .. MaxFaults
    BY <1>0, <1>5, ForgetMemoryFacts DEF ReconcileOversize
  <2>3. QueueTyped' /\ Shrinks(p)
    BY <1>0, <1>5, <2>2 DEF ReconcileOversize, QueueTyped, Shrinks, flags
  <2> QED BY <1>5, <2>1, <2>3, VisitTyped, ShrinkStep DEF ReconcileOversize
<1>6. CASE ReconcileRecognise(p)
  <2>1. QueueTyped' /\ Grows(p) /\ ResultsTyped'
    BY <1>0, <1>6, DeferFacts DEF ReconcileRecognise, ResultsTyped, results
  <2> QED BY <1>6, <2>1, VisitTyped, GrowStep DEF ReconcileRecognise
<1>7. CASE ReconcileRejected(p)
  <2>0. ResultsTyped'
    BY <1>0, <1>7 DEF ReconcileRejected, ResultsTyped, results
  <2>1. CASE DeferPath(p, 1)
    <3>1. QueueTyped' /\ Grows(p)
      BY <1>0, <2>1, DeferFacts
    <3> QED BY <1>7, <2>0, <3>1, VisitTyped, GrowStep DEF ReconcileRejected
  <2>2. CASE /\ faults < MaxFaults /\ faults' = faults + 1
             /\ UNCHANGED <<deferred, undurable, pendingOcr, flags, owed, excused>>
    <3>1. QueueTyped'
      BY <1>0, <2>2, OcrBoundsAssumption DEF QueueTyped, flags
    <3>2. TypeOK' /\ lane' = lane
      BY <1>7, <2>0, <3>1, VisitTyped DEF ReconcileRejected
    <3> QED BY <1>7, <2>2, <3>2, StillStep DEF ReconcileRejected, BatchStep, held, flags
  <2> QED BY <1>7, <2>1, <2>2 DEF ReconcileRejected
<1> QED BY <1>1, <1>2, <1>3, <1>4, <1>5, <1>6, <1>7 DEF ReconcilePath

\* The rebuild starts with an empty queue and no lane, so the walk it owes is whole.
LEMMA RebuildStartKeeps ==
    ASSUME IInv, RebuildStart
    PROVE  IInv'
<1>1. TypeOK'
  BY TypeParts, TypePartsNext
     DEF IInv, RebuildStart, QueueTyped, ResultsTyped, LaneTyped, ThreadTyped, RestTyped,
         queue, results, disk, bounds
<1>2. QueueSafe'
  BY TypeParts DEF IInv, QueueSafe, OwedIsCovered, OwedIsDurable, RebuildStart, RebuildDue,
                   Drained, QueueTyped, queue
<1>3. WalkAlone' /\ ForgetSettled'
  BY DEF IInv, RebuildStart, Active, WalkAlone, ForgetSettled, Idle, queue
<1> QED BY <1>1, <1>2, <1>3 DEF IInv

\* Every outcome of the walk on one path.
LEMMA WalkKeeps ==
    ASSUME NEW p \in Paths, IInv, WalkPath(p)
    PROVE  IInv'
<1>0. QueueTyped /\ ResultsTyped /\ TypeOK /\ seen \subseteq Paths
  BY TypeParts DEF IInv, ThreadTyped
<1>1. CASE WalkGone(p)
  <2>1. QueueTyped' /\ Shrinks(p) /\ ResultsTyped' /\ seen' \subseteq Paths
    BY <1>0, <1>1 DEF WalkGone, QueueTyped, ResultsTyped, Shrinks, flags, results
  <2> QED BY <1>1, <2>1, WalkTyped, ShrinkStep DEF WalkGone
<1>2. CASE WalkDocument(p)
  <2>1. QueueTyped' /\ Shrinks(p) /\ ResultsTyped'
    BY <1>0, <1>2, DocumentStoredFacts DEF WalkDocument
  <2>2. seen' \subseteq Paths
    BY <1>0, <1>2 DEF WalkDocument
  <2> QED BY <1>2, <2>1, <2>2, WalkTyped, ShrinkStep DEF WalkDocument
<1>3. CASE WalkEmpty(p)
  <2>1. QueueTyped' /\ Shrinks(p) /\ ResultsTyped'
    BY <1>0, <1>3, EmptyCompletedFacts DEF WalkEmpty
  <2>2. seen' \subseteq Paths
    BY <1>0, <1>3 DEF WalkEmpty
  <2> QED BY <1>3, <2>1, <2>2, WalkTyped, ShrinkStep DEF WalkEmpty
<1>4. CASE WalkOversize(p)
  <2>1. ResultsTyped' /\ seen' \subseteq Paths /\ owed' \subseteq Paths /\ excused' \subseteq Paths
    BY <1>0, <1>4 DEF WalkOversize, QueueTyped, ResultsTyped, results
  <2>2. QueueTyped' /\ Shrinks(p)
    BY <1>0, <1>4, <2>1, ForgetDeferredFacts DEF WalkOversize, Shrinks
  <2> QED BY <1>4, <2>1, <2>2, WalkTyped, ShrinkStep DEF WalkOversize
<1>5. CASE WalkRecognise(p)
  <2>1. QueueTyped' /\ Grows(p) /\ ResultsTyped' /\ seen' \subseteq Paths
    BY <1>0, <1>5, DeferFacts DEF WalkRecognise, DeferPath, ResultsTyped, results
  <2> QED BY <1>5, <2>1, WalkTyped, GrowStep DEF WalkRecognise
<1> QED BY <1>1, <1>2, <1>3, <1>4, <1>5 DEF WalkPath

LEMMA WalkFailsKeeps ==
    ASSUME NEW p \in Paths, IInv, WalkFails(p)
    PROVE  IInv'
<1>1. QueueTyped' /\ Grows(p)
  BY DeferFacts, TypeParts DEF IInv, WalkFails, DeferPath
<1>2. TypeOK'
  BY <1>1, TypeParts, TypePartsNext
     DEF IInv, WalkFails, ResultsTyped, LaneTyped, ThreadTyped, RestTyped, PendingAfterRebuild,
         QueueTyped, results, disk, bounds
<1> QED BY <1>1, <1>2, GrowStep DEF IInv, WalkFails, WalkAlone, Passes

\* The recovery row is cleared only when the whole walk found nothing to queue.
LEMMA WalkDoneKeeps ==
    ASSUME IInv, WalkDone
    PROVE  IInv'
<1>0. QueueTyped /\ ResultsTyped /\ ThreadTyped
  BY TypeParts DEF IInv
<1>1. QueueTyped'
  <2>1. PICK pruned \in BOOLEAN, marked \in BOOLEAN :
          /\ faults' = faults + Fault(pruned)
                       + (IF pruned /\ Drained /\ ~loadFailed THEN Fault(marked) ELSE 0)
          /\ recoveryDb' = FALSE \/ recoveryDb' = recoveryDb
    BY DEF WalkDone
  <2>2. Fault(pruned) \in 0 .. 1 /\ Fault(marked) \in 0 .. 1
    BY DEF Fault
  <2>3. faults' \in 0 .. MaxFaults
    BY <1>0, <2>1, <2>2, OcrBoundsAssumption DEF WalkDone, QueueTyped
  <2> QED BY <1>0, <2>1, <2>3 DEF WalkDone, QueueTyped
<1>2. ResultsTyped'
  BY <1>0, OcrBoundsAssumption DEF WalkDone, ResultsTyped, Fingerprint, None, Versions
<1>3. ThreadTyped'
  BY <1>0 DEF WalkDone, ThreadTyped, QueueTyped, Drained
<1>4. TypeOK'
  BY <1>1, <1>2, <1>3, TypeParts, TypePartsNext
     DEF IInv, WalkDone, LaneTyped, RestTyped, disk, bounds
<1>5. QueueSafe'
  <2>1. CASE recoveryDb' = recoveryDb
    BY <2>1 DEF IInv, WalkDone, QueueSafe, OwedIsCovered, OwedIsDurable
  <2>2. CASE Drained
    BY <2>2 DEF IInv, WalkDone, QueueSafe, OwedIsCovered, OwedIsDurable, Drained
  <2> QED BY <2>1, <2>2 DEF WalkDone
<1>6. WalkAlone' /\ ForgetSettled'
  BY DEF IInv, WalkDone, WalkAlone, ForgetSettled
<1> QED BY <1>4, <1>5, <1>6 DEF IInv

\* The latch is given up only for a full walk.
LEMMA ClearOverflowKeeps ==
    ASSUME IInv, ClearOverflow
    PROVE  IInv'
<1>1. TypeOK'
  BY TypeParts, TypePartsNext
     DEF IInv, ClearOverflow, QueueTyped, ResultsTyped, LaneTyped, ThreadTyped, RestTyped,
         results, disk, bounds
<1>2. QueueSafe' /\ WalkAlone' /\ ForgetSettled'
  BY DEF IInv, QueueSafe, OwedIsCovered, OwedIsDurable, ClearOverflow, WalkAlone, ForgetSettled
<1> QED BY <1>1, <1>2 DEF IInv

-----------------------------------------------------------------------------
\* The index thread hands an input to a lane, or retries it itself.
LEMMA DispatchKeeps ==
    ASSUME NEW p \in Paths, IInv, Dispatch(p)
    PROVE  IInv'
<1>1. LaneTyped' /\ OthersRest(p) /\ lane'[p].pc = "claimed"
  BY LaneToFacts, TypeParts DEF IInv, Dispatch, LaneSteps
<1>2. TypeOK'
  BY <1>1, TypeParts, TypePartsNext
     DEF IInv, Dispatch, QueueTyped, ResultsTyped, ThreadTyped, RestTyped, queue, results,
         disk, bounds
<1>3. QueueSafe'
  BY StillKeeps DEF IInv, Dispatch, held, queue
<1>4. WalkAlone' /\ ForgetSettled'
  BY <1>1 DEF IInv, Dispatch, WalkAlone, ForgetSettled, OthersRest, queue
<1> QED BY <1>2, <1>3, <1>4 DEF IInv

LEMMA CleanupKeeps ==
    ASSUME NEW p \in Paths, IInv, Cleanup(p)
    PROVE  IInv'
<1>0. QueueTyped /\ ResultsTyped /\ TypeOK
  BY TypeParts DEF IInv
<1>1. QueueTyped' /\ ResultsTyped' /\ (Shrinks(p) \/ Grows(p))
  <2>1. CASE DocumentStored(p)
    BY <1>0, <2>1, DocumentStoredFacts
  <2>2. CASE DeferPath(p, 1) /\ UNCHANGED results
    <3>1. ResultsTyped'
      BY <1>0, <2>2 DEF ResultsTyped, results
    <3> QED BY <1>0, <2>2, <3>1, DeferFacts
  <2>3. CASE Removed(p) /\ Settled(p) /\ ForgetMemory(p) /\ UNCHANGED flags
    BY <1>0, <2>3, RemovedTyped, SettleForget
  <2> QED BY <2>1, <2>2, <2>3 DEF Cleanup
<1>2. TypeOK'
  BY <1>1, TypeParts, TypePartsNext
     DEF IInv, Cleanup, LaneTyped, ThreadTyped, RestTyped, disk, bounds
<1>3. Idle(p) /\ lane' = lane /\ Passes(p)
  BY DEF Cleanup, Passes
<1> QED BY <1>1, <1>2, <1>3, ShrinkStep, GrowStep

-----------------------------------------------------------------------------
\* A lane leaves the files and the index thread alone, so the type invariant is
\* about the queue, the results and the lanes.
LEMMA LaneTypes ==
    ASSUME IInv, UNCHANGED rest, RestTyped', QueueTyped', ResultsTyped', LaneTyped'
    PROVE  TypeOK'
BY TypeParts, TypePartsNext DEF IInv, rest, thread, ThreadTyped

\* A lane that gives up after defer_path.
LEMMA LaneDefers ==
    ASSUME NEW p \in Paths, NEW spent \in Nat, IInv, ~Idle(p), DeferPath(p, spent),
           LaneEnds(p), UNCHANGED rest, RestTyped', ResultsTyped'
    PROVE  IInv'
<1>1. QueueTyped' /\ Grows(p)
  BY DeferFacts, TypeParts DEF IInv
<1>2. LaneTyped'
  BY LaneEndsFacts, TypeParts DEF IInv
<1>3. TypeOK'
  BY <1>1, <1>2, LaneTypes
<1> QED BY <1>1, <1>3, GrowLane DEF rest

\* A lane that settles its input.
LEMMA LaneSettles ==
    ASSUME NEW p \in Paths, IInv, ~Idle(p), QueueTyped', Shrinks(p), LaneTyped', OthersRest(p),
           UNCHANGED rest, RestTyped', ResultsTyped'
    PROVE  IInv'
<1>1. TypeOK'
  BY LaneTypes
<1> QED BY <1>1, ShrinkLane DEF rest

\* A lane that goes on, or ends, without touching the queue.
LEMMA LaneMoves ==
    ASSUME NEW p \in Paths, IInv, ~Idle(p), UNCHANGED <<rest, held>>, QueueTyped', ResultsTyped',
           RestTyped', LaneTyped', OthersRest(p), lane'[p].pc = "forget" => p \in Texts
    PROVE  IInv'
<1>1. TypeOK'
  BY LaneTypes
<1>2. pc # "walk"
  BY DEF IInv, WalkAlone
<1> QED BY <1>1, <1>2, StillLane DEF rest

LEMMA LaneGoneKeeps ==
    ASSUME NEW p \in Paths, IInv, LaneGone(p)
    PROVE  IInv'
<1>0. QueueTyped /\ ResultsTyped /\ LaneTyped /\ RestTyped' /\ ~Idle(p) /\ UNCHANGED rest
  BY TypeParts DEF IInv, LaneGone, Idle, RestTyped, rest, disk, bounds
<1>1. CASE Removed(p) /\ Settled(p) /\ LaneTo(p, "forget") /\ UNCHANGED faults
  <2>1. QueueTyped' /\ Shrinks(p) /\ ResultsTyped'
    BY <1>0, <1>1, SettleOnly, RemovedTyped DEF LaneGone
  <2>2. LaneTyped' /\ OthersRest(p)
    BY <1>0, <1>1, LaneToFacts DEF LaneSteps
  <2> QED BY <1>0, <2>1, <2>2, LaneSettles
<1>2. CASE /\ faults < MaxFaults /\ faults' = faults + 1 /\ LaneEnds(p)
           /\ UNCHANGED <<results, pendingOcr, owed, excused>>
  <2>1. QueueTyped' /\ ResultsTyped' /\ UNCHANGED held
    BY <1>0, <1>2, OcrBoundsAssumption
       DEF LaneGone, QueueTyped, ResultsTyped, held, results, flags
  <2>2. LaneTyped' /\ OthersRest(p) /\ lane'[p].pc = "idle"
    BY <1>0, <1>2, LaneEndsFacts
  <2> QED BY <1>0, <2>1, <2>2, LaneMoves
<1> QED BY <1>1, <1>2 DEF LaneGone

LEMMA LaneStatKeeps ==
    ASSUME NEW p \in Paths, IInv, LaneStat(p)
    PROVE  IInv'
<1>0. /\ QueueTyped /\ ResultsTyped /\ LaneTyped /\ RestTyped' /\ ResultsTyped'
      /\ ~Idle(p) /\ UNCHANGED rest /\ file[p] \in Versions
  BY TypeParts DEF IInv, LaneStat, Idle, RestTyped, ResultsTyped, results, rest, disk, bounds
<1>1. PICK step \in LaneSteps :
        /\ lane' = [lane EXCEPT ![p] = [pc |-> step, v |-> file[p], stat |-> 0, bytes |-> file[p]]]
        /\ \/ (step = "forget" => p \in Texts) /\ UNCHANGED <<owed, excused>>
           \/ owed' = owed \ {p} /\ excused' = excused \ {p}
  BY DEF LaneStat, LaneSteps
<1>2. LaneTyped' /\ OthersRest(p) /\ lane'[p].pc = step
  BY <1>0, <1>1, OcrBoundsAssumption DEF LaneTyped, OthersRest, Versions
<1>3. CASE (step = "forget" => p \in Texts) /\ UNCHANGED <<owed, excused>>
  <2>1. QueueTyped' /\ UNCHANGED held
    BY <1>0, <1>3 DEF LaneStat, QueueTyped, held, flags
  <2> QED BY <1>0, <1>2, <1>3, <2>1, LaneMoves
<1>4. CASE owed' = owed \ {p} /\ excused' = excused \ {p}
  <2>1. QueueTyped' /\ Shrinks(p)
    BY <1>0, <1>4 DEF LaneStat, QueueTyped, Shrinks, flags
  <2> QED BY <1>0, <1>2, <2>1, LaneSettles
<1> QED BY <1>1, <1>3, <1>4

LEMMA LaneExtractKeeps ==
    ASSUME NEW p \in Paths, IInv, LaneExtract(p)
    PROVE  IInv'
<1>0. /\ LaneTyped /\ QueueTyped' /\ ResultsTyped' /\ RestTyped' /\ UNCHANGED <<rest, held>>
      /\ ~Idle(p) /\ file[p] \in Versions
  BY TypeParts DEF IInv, LaneExtract, Idle, RestTyped, ResultsTyped, QueueTyped, results, rest,
                   disk, bounds, queue, held
<1>1. LaneTyped' /\ OthersRest(p) /\ lane'[p].pc \in {"idle", "empty", "send"}
  <2>1. CASE LaneEnds(p)
    BY <1>0, <2>1, LaneEndsFacts
  <2>2. CASE lane' = [lane EXCEPT ![p].pc = "empty", ![p].bytes = file[p]]
    BY <1>0, <2>2 DEF LaneTyped, OthersRest, LaneSteps
  <2>3. CASE lane' = [lane EXCEPT ![p].pc = "send", ![p].stat = file[p]]
    BY <1>0, <2>3 DEF LaneTyped, OthersRest, LaneSteps
  <2> QED BY <2>1, <2>2, <2>3 DEF LaneExtract
<1> QED BY <1>0, <1>1, LaneMoves

LEMMA LaneSendKeeps ==
    ASSUME NEW p \in Paths, IInv, LaneSend(p)
    PROVE  IInv'
<1>0. /\ LaneTyped /\ QueueTyped /\ ResultsTyped' /\ RestTyped' /\ UNCHANGED rest
      /\ ~Idle(p) /\ file[p] \in Versions
  BY TypeParts DEF IInv, LaneSend, Idle, RestTyped, ResultsTyped, results, rest, disk, bounds
<1>1. CASE UNCHANGED queue /\ lane' = [lane EXCEPT ![p].pc = "remote", ![p].bytes = file[p]]
  <2>1. LaneTyped' /\ OthersRest(p) /\ lane'[p].pc = "remote"
    BY <1>0, <1>1 DEF LaneTyped, OthersRest, LaneSteps
  <2>2. QueueTyped' /\ UNCHANGED held
    BY <1>0, <1>1 DEF QueueTyped, queue, held
  <2> QED BY <1>0, <2>1, <2>2, LaneMoves
<1>2. CASE LaneEnds(p) /\ DeferPath(p, 0)
  BY <1>0, <1>2, LaneDefers
<1> QED BY <1>1, <1>2 DEF LaneSend

LEMMA LaneAnsweredKeeps ==
    ASSUME NEW p \in Paths, IInv, LaneAnswered(p)
    PROVE  IInv'
<1>0. /\ LaneTyped /\ QueueTyped' /\ ResultsTyped' /\ RestTyped' /\ UNCHANGED <<rest, held>>
      /\ ~Idle(p)
  BY TypeParts DEF IInv, LaneAnswered, Idle, RestTyped, ResultsTyped, QueueTyped, results, rest,
                   disk, bounds, queue, held
<1>1. LaneTyped' /\ OthersRest(p) /\ lane'[p].pc \in {"recheck", "empty"}
  BY <1>0, LaneToFacts DEF LaneAnswered, LaneSteps
<1> QED BY <1>0, <1>1, LaneMoves

\* A failed recognition is counted, and the input is kept or given up as empty.
LEMMA LaneFailedKeeps ==
    ASSUME NEW p \in Paths, IInv, LaneFailed(p)
    PROVE  IInv'
<1> DEFINE v == lane[p].stat
           total == RecordedFailures(p, v, 1)
           Records == attempts' = [attempts EXCEPT ![p] = [v |-> v, n |-> total]]
<1>0. /\ LaneTyped /\ QueueTyped /\ ResultsTyped /\ RestTyped /\ UNCHANGED rest
      /\ ~Idle(p) /\ v \in Versions
  BY TypeParts DEF IInv, LaneFailed, Idle, LaneTyped
<1>1. RestTyped'
  <2>1. failed' \in [Paths -> Nat]
    BY <1>0 DEF LaneFailed, RestTyped
  <2> QED BY <1>0, <2>1 DEF LaneFailed, RestTyped, rest, disk, bounds
<1>2. total \in 0 .. MaxFailures
  BY <1>0, OcrBoundsAssumption DEF RecordedFailures, FailureCount, ResultsTyped
<1>3. ResultsTyped'
  <2>1. CASE Records
    BY <1>0, <1>2, <2>1 DEF LaneFailed, ResultsTyped
  <2>2. CASE attempts' = attempts
    BY <1>0, <2>2 DEF LaneFailed, ResultsTyped
  <2> QED BY <2>1, <2>2 DEF LaneFailed
<1>4. CASE LaneTo(p, "empty") /\ UNCHANGED queue
  <2>1. LaneTyped' /\ OthersRest(p) /\ lane'[p].pc = "empty"
    BY <1>0, <1>4, LaneToFacts DEF LaneSteps
  <2>2. QueueTyped' /\ UNCHANGED held
    BY <1>0, <1>4 DEF QueueTyped, queue, held
  <2> QED BY <1>0, <1>1, <1>3, <2>1, <2>2, LaneMoves
<1>5. CASE LaneEnds(p) /\ DeferPath(p, 0)
  BY <1>0, <1>1, <1>3, <1>5, LaneDefers
<1>6. CASE /\ faults < MaxFaults /\ faults' = faults + 1 /\ LaneEnds(p)
           /\ UNCHANGED <<attempts, deferred, undurable, pendingOcr, flags, owed, excused>>
  <2>1. LaneTyped' /\ OthersRest(p) /\ lane'[p].pc = "idle"
    BY <1>0, <1>6, LaneEndsFacts
  <2>2. QueueTyped' /\ UNCHANGED held
    BY <1>0, <1>6, OcrBoundsAssumption DEF QueueTyped, flags, held
  <2> QED BY <1>0, <1>1, <1>3, <2>1, <2>2, LaneMoves
<1> QED BY <1>4, <1>5, <1>6 DEF LaneFailed

LEMMA LaneOutageKeeps ==
    ASSUME NEW p \in Paths, IInv, LaneOutage(p)
    PROVE  IInv'
<1>1. ResultsTyped' /\ RestTyped' /\ UNCHANGED rest /\ ~Idle(p)
  BY TypeParts, OcrBoundsAssumption
     DEF IInv, LaneOutage, Idle, RestTyped, ResultsTyped, results, rest, disk
<1> QED BY <1>1, LaneDefers DEF LaneOutage

LEMMA LaneLostKeeps ==
    ASSUME NEW p \in Paths, IInv, LaneLost(p)
    PROVE  IInv'
<1>1. /\ ResultsTyped' /\ RestTyped' /\ QueueTyped' /\ UNCHANGED <<rest, held>> /\ ~Idle(p)
  BY TypeParts, OcrBoundsAssumption
     DEF IInv, LaneLost, RestTyped, ResultsTyped, QueueTyped, results, rest, disk, queue, held
<1>2. LaneTyped' /\ OthersRest(p) /\ lane'[p].pc = "idle"
  BY LaneEndsFacts, TypeParts DEF IInv, LaneLost
<1> QED BY <1>1, <1>2, LaneMoves

\* The input is looked at again before its result, or its empty result, is stored.
LEMMA LaneLooksAgainKeeps ==
    ASSUME NEW p \in Paths, IInv, LaneRecheck(p) \/ LaneEmpty(p)
    PROVE  IInv'
<1>0. /\ LaneTyped /\ QueueTyped /\ ResultsTyped' /\ RestTyped' /\ UNCHANGED rest /\ ~Idle(p)
  BY TypeParts DEF IInv, LaneRecheck, LaneEmpty, Idle, RestTyped, ResultsTyped, results, rest,
                   disk, bounds
<1>1. CASE UNCHANGED queue /\ (LaneTo(p, "commit") \/ LaneTo(p, "emptyCommit"))
  <2>1. LaneTyped' /\ OthersRest(p) /\ lane'[p].pc # "forget"
    BY <1>0, <1>1, LaneToFacts DEF LaneSteps
  <2>2. QueueTyped' /\ UNCHANGED held
    BY <1>0, <1>1 DEF QueueTyped, queue, held
  <2> QED BY <1>0, <2>1, <2>2, LaneMoves
<1>2. CASE LaneEnds(p) /\ DeferPath(p, 0)
  BY <1>0, <1>2, LaneDefers
<1> QED BY <1>1, <1>2 DEF LaneRecheck, LaneEmpty

LEMMA LaneCommitKeeps ==
    ASSUME NEW p \in Paths, IInv, LaneCommit(p)
    PROVE  IInv'
<1>0. /\ LaneTyped /\ QueueTyped /\ ResultsTyped /\ RestTyped' /\ UNCHANGED rest /\ ~Idle(p)
      /\ lane[p].v \in Versions /\ lane[p].bytes \in Versions
  BY TypeParts DEF IInv, LaneCommit, LaneTyped, Idle, RestTyped, rest, disk, bounds
<1>1. CASE /\ MetadataReplaced(p, lane[p].v) /\ LaneEnds(p)
           /\ UNCHANGED <<deferred, undurable, flags, faults>>
  <2>1. QueueTyped' /\ Shrinks(p) /\ ResultsTyped'
    BY <1>0, <1>1, MetadataReplacedFacts
  <2>2. LaneTyped' /\ OthersRest(p)
    BY <1>0, <1>1, LaneEndsFacts
  <2> QED BY <1>0, <2>1, <2>2, LaneSettles
<1>2. CASE /\ Replaced(p, lane[p].v, lane[p].bytes) /\ Settled(p) /\ LaneTo(p, "forget")
           /\ UNCHANGED <<deferred, undurable, flags, faults>>
  <2>1. QueueTyped' /\ Shrinks(p) /\ ResultsTyped'
    BY <1>0, <1>2, SettleOnly, ReplacedTyped
  <2>2. LaneTyped' /\ OthersRest(p)
    BY <1>0, <1>2, LaneToFacts DEF LaneSteps
  <2> QED BY <1>0, <2>1, <2>2, LaneSettles
<1>3. CASE DeferPath(p, 1) /\ LaneEnds(p) /\ UNCHANGED results
  <2>1. ResultsTyped'
    BY <1>0, <1>3 DEF ResultsTyped, results
  <2> QED BY <1>0, <1>3, <2>1, LaneDefers
<1> QED BY <1>1, <1>2, <1>3 DEF LaneCommit

LEMMA LaneEmptyCommitKeeps ==
    ASSUME NEW p \in Paths, IInv, LaneEmptyCommit(p)
    PROVE  IInv'
<1>0. /\ LaneTyped /\ QueueTyped /\ ResultsTyped /\ RestTyped' /\ UNCHANGED rest /\ ~Idle(p)
      /\ lane[p].v \in Versions /\ lane[p].bytes \in Versions
  BY TypeParts DEF IInv, LaneEmptyCommit, LaneTyped, Idle, RestTyped, rest, disk, bounds
<1>1. CASE /\ RemovedEmpty(p, lane[p].v, lane[p].bytes) /\ Settled(p) /\ LaneTo(p, "forget")
           /\ UNCHANGED <<deferred, undurable, flags, faults>>
  <2>1. QueueTyped' /\ Shrinks(p) /\ ResultsTyped'
    BY <1>0, <1>1, SettleOnly, RemovedEmptyTyped
  <2>2. LaneTyped' /\ OthersRest(p)
    BY <1>0, <1>1, LaneToFacts DEF LaneSteps
  <2> QED BY <1>0, <2>1, <2>2, LaneSettles
<1>2. CASE DeferPath(p, 1) /\ LaneEnds(p) /\ UNCHANGED results
  <2>1. ResultsTyped'
    BY <1>0, <1>2 DEF ResultsTyped, results
  <2> QED BY <1>0, <1>2, <2>1, LaneDefers
<1> QED BY <1>1, <1>2 DEF LaneEmptyCommit

\* forget_deferred in a lane: its input is settled, so that nothing owed is let go.
LEMMA LaneForgetKeeps ==
    ASSUME NEW p \in Paths, IInv, LaneForget(p)
    PROVE  IInv'
<1>0. /\ LaneTyped /\ QueueTyped /\ ResultsTyped' /\ RestTyped' /\ UNCHANGED rest /\ ~Idle(p)
      /\ UNCHANGED <<flags, owed, excused>>
  BY TypeParts DEF IInv, LaneForget, Idle, RestTyped, ResultsTyped, results, rest, disk, bounds
<1>1. /\ QueueTyped' /\ deferred \subseteq deferred' \cup {p}
      /\ pendingOcr \subseteq pendingOcr' \cup {p}
  BY <1>0, ForgetDeferredFacts DEF LaneForget, QueueTyped
<1>2. LaneTyped' /\ OthersRest(p) /\ lane'[p].pc = "idle"
  BY <1>0, LaneEndsFacts DEF LaneForget
<1>3. TypeOK'
  BY <1>0, <1>1, <1>2, LaneTypes
<1>4. p \in Texts \/ p \notin owed
  BY DEF IInv, ForgetSettled, LaneForget
<1>5. QueueSafe'
  BY <1>0, <1>1, <1>4 DEF IInv, QueueSafe, OwedIsCovered, OwedIsDurable, flags, rest, thread
<1>6. WalkAlone' /\ ForgetSettled'
  BY <1>0, <1>2 DEF IInv, WalkAlone, ForgetSettled, OthersRest, rest, thread
<1> QED BY <1>3, <1>5, <1>6 DEF IInv

LEMMA LaneStepKeeps ==
    ASSUME NEW p \in Paths, IInv, LaneStep(p) \/ LaneOutage(p) \/ LaneLost(p)
    PROVE  IInv'
BY LaneGoneKeeps, LaneStatKeeps, LaneExtractKeeps, LaneSendKeeps, LaneAnsweredKeeps,
   LaneFailedKeeps, LaneOutageKeeps, LaneLostKeeps, LaneLooksAgainKeeps, LaneCommitKeeps,
   LaneEmptyCommitKeeps, LaneForgetKeeps DEF LaneStep

-----------------------------------------------------------------------------
\* A restart finds in SQLite what the process had accepted, or walks everything.
LEMMA RestartKeeps ==
    ASSUME IInv, Restart
    PROVE  IInv'
<1>0. QueueTyped /\ ResultsTyped /\ RestTyped /\ ThreadTyped
  BY TypeParts DEF IInv
<1>1. PICK loaded \in SUBSET Paths, latched \in BOOLEAN, failure \in BOOLEAN :
        /\ Begins(loaded, latched, failure)
        /\ latched \/ (loaded = pendingOcr /\ latched = overflowDb)
        /\ faults' \in 0 .. MaxFaults
  <2>1. CASE Begins(pendingOcr, overflowDb, FALSE) /\ UNCHANGED faults
    BY <1>0, <2>1, Zenon DEF QueueTyped
  <2>2. CASE faults < MaxFaults /\ faults' = faults + 1 /\ Begins({}, TRUE, TRUE)
    <3>1. faults' \in 0 .. MaxFaults
      BY <1>0, <2>2, OcrBoundsAssumption DEF QueueTyped
    <3> QED BY <2>2, <3>1, Zenon
  <2> QED BY <2>1, <2>2 DEF Restart
<1>2. QueueTyped'
  BY <1>0, <1>1 DEF Restart, Begins, QueueTyped
<1>3. ResultsTyped' /\ RestTyped'
  BY <1>0, <1>1, OcrBoundsAssumption
     DEF Restart, Begins, ResultsTyped, RestTyped, results, disk
<1>4. LaneTyped' /\ (\A p \in Paths : lane'[p].pc = "idle")
  BY <1>1, OcrBoundsAssumption DEF Begins, LaneTyped, IdleLane, LaneSteps, Versions
<1>5. /\ ThreadTyped'
      /\ pc' = "walk" => todo' = Paths
  BY <1>0, <1>1 DEF Restart, Begins, ThreadTyped, QueueTyped
<1>6. TypeOK'
  BY <1>2, <1>3, <1>4, <1>5, TypePartsNext
<1>7. QueueSafe'
  BY <1>0, <1>1, <1>5 DEF IInv, QueueSafe, OwedIsCovered, OwedIsDurable, Restart, Begins,
                          QueueTyped
<1>8. WalkAlone' /\ ForgetSettled'
  BY <1>4 DEF WalkAlone, ForgetSettled, Idle
<1> QED BY <1>6, <1>7, <1>8 DEF IInv

LEMMA InitSafe ==
    ASSUME Init
    PROVE  IInv
<1>0. /\ 0 \in Versions /\ 1 \in Versions
      /\ 0 \in 0 .. MaxFaults /\ 0 \in 0 .. MaxOutages /\ 0 \in 0 .. MaxRestarts
  BY OcrBoundsAssumption DEF Versions
<1>1. QueueTyped /\ ThreadTyped
  BY <1>0, Zenon DEF Init, QueueTyped, ThreadTyped
<1>4. RestTyped
  <2>1. file \in [Paths -> Versions] /\ failed \in [Paths -> Nat]
    BY <1>0 DEF Init
  <2> QED BY <1>0, <2>1, Zenon DEF Init, RestTyped
<1>2. ResultsTyped /\ LaneTyped
  BY OcrBoundsAssumption
     DEF Init, ResultsTyped, LaneTyped, Fingerprint, None, NoAttempts, IdleLane, LaneSteps, Versions
<1>3. QueueSafe /\ WalkAlone /\ ForgetSettled
  BY DEF Init, QueueSafe, OwedIsCovered, OwedIsDurable, WalkAlone, ForgetSettled, Idle, IdleLane
<1> QED BY <1>1, <1>4, <1>2, <1>3, TypeParts DEF IInv

\* No step of the system breaks the inductive invariant.
LEMMA NextKeeps ==
    ASSUME IInv, [Next]_vars
    PROVE  IInv'
<1>1. CASE ThreadStep \/ BatchDropped \/ RebuildFallsDue \/ Restart
  BY <1>1, ThreadStillKeeps, RebuildStartKeeps, WalkDoneKeeps, ClearOverflowKeeps, RestartKeeps
     DEF ThreadStep
<1>2. ASSUME NEW p \in Paths, PathStep(p)
      PROVE  IInv'
  BY <1>2, ReconcileKeeps, WalkKeeps, WalkFailsKeeps, DispatchKeeps, CleanupKeeps DEF PathStep
<1>3. CASE UNCHANGED vars
  <2>1. TypeOK'
    BY <1>3 DEF IInv, TypeOK, vars, disk, thread, queue, results, bounds
  <2> QED BY <1>3, <2>1, StillStep DEF vars, thread, queue, held
<1> QED BY <1>1, <1>2, <1>3, LaneStepKeeps, FileWriteKeeps, FileDeleteKeeps DEF Next

\* Every reachable state satisfies the inductive invariant.
THEOREM OcrInvariance == Spec => []IInv
<1>1. Init => IInv
  BY InitSafe
<1>2. IInv /\ [Next]_vars => IInv'
  BY NextKeeps
<1> QED BY <1>1, <1>2, PTL DEF Spec

\* The state of the queue keeps its types whatever the interleaving of the index
\* thread, the lanes, SQLite faults and restarts; in particular an undurable input
\* is always still in memory.
THEOREM OcrTypeCorrect == Spec => []TypeOK
<1>1. IInv => TypeOK
  BY DEF IInv
<1> QED BY <1>1, OcrInvariance, PTL

\* defer_path loses nothing while the process runs: an accepted input is queued, or
\* latched, or will still be passed by the full walk that is owed.
THEOREM CoverageHolds == Spec => []OwedIsCovered
<1>1. IInv => OwedIsCovered
  BY DEF IInv, QueueSafe
<1> QED BY <1>1, OcrInvariance, PTL

\* defer_path loses nothing in a crash: an accepted input, or a latch that stands
\* for it, is in SQLite unless SQLite rejected both writes.
THEOREM DurabilityHolds == Spec => []OwedIsDurable
<1>1. IInv => OwedIsDurable
  BY DEF IInv, QueueSafe
<1> QED BY <1>1, OcrInvariance, PTL

-----------------------------------------------------------------------------
(* What is recorded about an input, and how often it is recognised.        *)

\* The record of p is of a version that p had, and an image's was computed from it.
Recorded(p) ==
    /\ file[p] <= made /\ doc[p].v <= made
    /\ file[p] # 0 => doc[p].v <= file[p]
    /\ p \in Images => doc[p].v = doc[p].bytes /\ empty[p].v = empty[p].bytes

\* A lane carries a version no older than the record, bytes no older than the version,
\* and, once it has looked again, the bytes of that version.
Carried(p) ==
    LET l == lane[p]
    IN /\ l.v <= made /\ l.bytes <= made
       /\ file[p] # 0 => l.v <= file[p] /\ l.bytes <= file[p]
       /\ ~Idle(p) /\ l.pc # "claimed" => doc[p].v <= l.v
       /\ l.pc \in {"extract", "send", "remote", "recheck", "empty"} => l.v # 0 /\ l.v <= l.bytes
       /\ p \in Images /\ l.pc \in {"commit", "emptyCommit"} => l.v = l.bytes

\* The failures that faults and lost lanes may have made the system forget.
Forgotten == MaxFailures * (faults + outages)

\* The failures of p's version are counted, up to the forgotten ones.
InBudget(p) == failed[p] <= Forgotten + FailureCount(p, file[p])

\* The version of p is recorded and its count dropped; nothing leads back to it.
Finished(p) ==
    /\ doc[p].v = file[p] /\ p \notin pendingOcr
    /\ failed[p] <= MaxFailures + Forgotten
    /\ \/ lane[p].pc = "forget"
       \/ p \notin deferred /\ (pc = "walk" => p \in todo \cup seen)

\* Only images are recognised, from the queue, while their budget lasts.
Budgeted(p) ==
    /\ InBudget(p) \/ Finished(p)
    /\ file[p] = 0 => failed[p] = 0
    /\ p \notin Images =>
          failed[p] = 0
          /\ lane[p].pc \notin {"extract", "send", "remote", "empty", "emptyCommit"}
    /\ ~Idle(p) => p \in deferred
    /\ lane[p].pc \in {"send", "remote"} =>
          lane[p].stat # 0 /\ FailureCount(p, lane[p].stat) < MaxFailures

Sound(p) == Recorded(p) /\ Carried(p) /\ Budgeted(p)
RInv == \A p \in Paths : Sound(p)

\* What a step about p leaves alone of the other paths.
Apart(p) ==
    \A q \in Paths \ {p} :
        /\ file'[q] = file[q] /\ lane'[q] = lane[q] /\ failed'[q] = failed[q]
        /\ doc'[q] = doc[q] /\ empty'[q] = empty[q] /\ attempts'[q] = attempts[q]
        /\ q \in deferred' <=> q \in deferred
        /\ q \in pendingOcr' => q \in pendingOcr
        /\ pc' = "walk" => pc = "walk" /\ (q \in todo \cup seen => q \in todo' \cup seen')

\* The document of p is replaced by a newer one, or removed, or left.
Forward(p) == doc'[p].v = 0 \/ doc'[p].v >= doc[p].v

\* A step about p: all that has to be shown of it.
Step(p) == Apart(p) /\ made <= made' /\ Forgotten <= Forgotten' /\ Sound(p)' /\ Forward(p)

\* Products grow with their second factor.
LEMMA Times ==
    ASSUME NEW m \in Nat, NEW a \in Nat, NEW b \in Nat, a <= b
    PROVE  /\ m * a \in Nat /\ m * b \in Nat /\ m * a <= m * b
           /\ a < b => m * a + m <= m * b
<1>1. PICK d \in Nat : b = a + d  BY b - a \in Nat, b = a + (b - a)
<1>2. m * b = m * a + m * d  BY <1>1
<1>3. m * a \in Nat /\ m * b \in Nat /\ m * d \in Nat  OBVIOUS
<1>4. ASSUME a < b PROVE m * a + m <= m * b
  <2>1. PICK e \in Nat : d = e + 1  BY <1>1, <1>4, d - 1 \in Nat, d = (d - 1) + 1
  <2>2. m * d = m * e + m /\ m * e \in Nat  BY <2>1
  <2> QED BY <1>2, <1>3, <2>2
<1> QED BY <1>2, <1>3, <1>4

\* Every fault and every lost lane makes room for one more budget.
LEMMA ForgottenGrows ==
    ASSUME TypeOK, TypeOK', faults <= faults', outages <= outages'
    PROVE  /\ Forgotten \in Nat /\ Forgotten' \in Nat /\ Forgotten <= Forgotten'
           /\ faults < faults' \/ outages < outages' => Forgotten + MaxFailures <= Forgotten'
<1>1. ASSUME NEW f \in Nat, NEW o \in Nat, NEW g \in Nat, NEW q \in Nat, f <= g, o <= q
      PROVE  /\ MaxFailures * (f + o) \in Nat /\ MaxFailures * (g + q) \in Nat
             /\ MaxFailures * (f + o) <= MaxFailures * (g + q)
             /\ f < g \/ o < q => MaxFailures * (f + o) + MaxFailures <= MaxFailures * (g + q)
  <2> DEFINE a == f + o
             b == g + q
  <2>1. a \in Nat /\ b \in Nat /\ a <= b /\ (f < g \/ o < q => a < b)  BY <1>1
  <2>2. MaxFailures \in Nat  BY OcrBoundsAssumption
  <2> HIDE DEF a, b
  <2>3. /\ MaxFailures * a \in Nat /\ MaxFailures * b \in Nat
        /\ MaxFailures * a <= MaxFailures * b
        /\ a < b => MaxFailures * a + MaxFailures <= MaxFailures * b
    BY <2>1, <2>2, Times
  <2> QED BY <2>1, <2>3 DEF a, b
<1>2. faults \in Nat /\ outages \in Nat /\ faults' \in Nat /\ outages' \in Nat
  BY OcrBoundsAssumption DEF TypeOK
<1> QED BY <1>1, <1>2 DEF Forgotten

\* A step about p is no step about any other path.
LEMMA ApartKeeps ==
    ASSUME TypeOK, TypeOK', NEW p \in Paths, NEW q \in Paths, p # q, Sound(q), Apart(p),
           made <= made', Forgotten <= Forgotten', Forgotten \in Nat, Forgotten' \in Nat
    PROVE  Sound(q)' /\ Forward(q)
<1>1. /\ file'[q] = file[q] /\ lane'[q] = lane[q] /\ failed'[q] = failed[q]
      /\ doc'[q] = doc[q] /\ empty'[q] = empty[q] /\ attempts'[q] = attempts[q]
      /\ q \in deferred' <=> q \in deferred
      /\ q \in pendingOcr' => q \in pendingOcr
      /\ pc' = "walk" => pc = "walk" /\ (q \in todo \cup seen => q \in todo' \cup seen')
  BY DEF Apart
<1>2. /\ file[q] \in Nat /\ made \in Nat /\ made' \in Nat /\ doc[q].v \in Nat
      /\ lane[q].v \in Nat /\ lane[q].bytes \in Nat /\ failed[q] \in Nat
      /\ FailureCount(q, file[q]) \in Nat /\ MaxFailures \in Nat
  BY OcrBoundsAssumption DEF TypeOK, Versions, Fingerprint, FailureCount
<1>3. Recorded(q)'  BY <1>1, <1>2 DEF Sound, Recorded
<1>4. Carried(q)'  BY <1>1, <1>2 DEF Sound, Carried, Idle
<1>5. InBudget(q) => InBudget(q)'
  <2>1. FailureCount(q, file[q])' = FailureCount(q, file[q])  BY <1>1 DEF FailureCount
  <2> QED BY <1>1, <1>2, <2>1 DEF InBudget
<1>6. Finished(q) => Finished(q)'  BY <1>1, <1>2 DEF Finished
<1>7. Budgeted(q)'
  <2>1. \A v : FailureCount(q, v)' = FailureCount(q, v)  BY <1>1 DEF FailureCount
  <2> QED BY <1>1, <1>5, <1>6, <2>1 DEF Sound, Budgeted, Idle, FailureCount
<1>8. Forward(q)  BY <1>1, <1>2 DEF Forward
<1> QED BY <1>3, <1>4, <1>7, <1>8 DEF Sound

LEMMA StepKeeps ==
    ASSUME TypeOK, TypeOK', RInv, NEW p \in Paths, Step(p)
    PROVE  RInv' /\ \A q \in Paths : Forward(q)
<1>1. Forgotten \in Nat /\ Forgotten' \in Nat
  <2>1. ASSUME NEW n \in Nat, NEW k \in Nat PROVE MaxFailures * (n + k) \in Nat
    BY Times, OcrBoundsAssumption, n + k \in Nat
  <2>2. faults \in Nat /\ outages \in Nat /\ faults' \in Nat /\ outages' \in Nat
    BY OcrBoundsAssumption DEF TypeOK
  <2> QED BY <2>1, <2>2 DEF Forgotten
<1>2. ASSUME NEW q \in Paths, q # p PROVE Sound(q)' /\ Forward(q)
  BY <1>1, <1>2, ApartKeeps DEF RInv, Step
<1> QED BY <1>2 DEF RInv, Step

\* The parts of a path's record, of its lane and of its budget are numbers.
LEMMA Numbers ==
    ASSUME TypeOK, NEW p \in Paths
    PROVE  /\ file[p] \in Nat /\ made \in Nat /\ doc[p].v \in Nat /\ doc[p].bytes \in Nat
           /\ lane[p].v \in Nat /\ lane[p].bytes \in Nat /\ lane[p].stat \in Nat
           /\ failed[p] \in Nat /\ faults \in Nat /\ outages \in Nat
           /\ MaxFailures \in Nat \ {0}
           /\ \A v : FailureCount(p, v) \in 0 .. MaxFailures
<1>1. attempts[p].n \in 0 .. MaxFailures  BY DEF TypeOK
<1>2. \A v : FailureCount(p, v) \in 0 .. MaxFailures
  BY <1>1, OcrBoundsAssumption DEF FailureCount
<1> QED BY <1>2, OcrBoundsAssumption DEF TypeOK, Versions, Fingerprint

-----------------------------------------------------------------------------
(* The index thread's visits.                                              *)

\* What scan_directory_unit knows of a path of each class.
LEMMA ClassFacts ==
    ASSUME NEW p \in Paths
    PROVE  /\ Class(p) = "gone" <=> file[p] = 0
           /\ p \notin Images => Class(p) \in {"gone", "document"}
           /\ p \in Images /\ Class(p) = "document" => Cached(p)
           /\ p \in Images /\ Class(p) \notin {"gone", "document"} => ~Cached(p)
BY DEF Class

\* What the index thread does not recognise again is still within its budget.
LEMMA Unfinished ==
    ASSUME TypeOK, NEW p \in Paths, Sound(p), Idle(p), Class(p) # "document", Forgotten \in Nat
    PROVE  InBudget(p)
<1>1. file[p] = 0 \/ p \notin Images => failed[p] = 0  BY DEF Sound, Budgeted
<1>2. failed[p] = 0 => InBudget(p)  BY Numbers DEF InBudget
<1>3. p \in Images /\ file[p] # 0 => ~Cached(p)  BY ClassFacts
<1>4. Finished(p) => Cached(p)  BY DEF Finished, Cached, Idle
<1> QED BY <1>1, <1>2, <1>3, <1>4 DEF Sound, Budgeted

\* A visit to p by the index thread, which no lane works on.
Visits(p) ==
    /\ Idle(p) /\ UNCHANGED <<lane, file, made, failed, outages>>
    /\ pc' = "walk" => pc = "walk" /\ todo \subseteq todo' \cup {p} /\ seen \subseteq seen'

LEMMA VisitApart ==
    ASSUME TypeOK, TypeOK', NEW p \in Paths, Visits(p), faults <= faults',
           deferred \subseteq deferred' \cup {p}, deferred' \subseteq deferred \cup {p},
           pendingOcr' \subseteq pendingOcr \cup {p},
           \A q \in Paths \ {p} :
              doc'[q] = doc[q] /\ empty'[q] = empty[q] /\ attempts'[q] = attempts[q]
    PROVE  /\ Apart(p) /\ made <= made' /\ Forgotten \in Nat /\ Forgotten' \in Nat
           /\ Forgotten <= Forgotten'
           /\ faults < faults' => Forgotten + MaxFailures <= Forgotten'
<1>1. outages <= outages' /\ made <= made'  BY Numbers DEF Visits
<1> QED BY <1>1, ForgottenGrows DEF Visits, Apart

\* The lane of p stays idle.
LEMMA VisitCarried ==
    ASSUME NEW p \in Paths, Sound(p), Visits(p)
    PROVE  Carried(p)'
BY DEF Sound, Visits, Carried, Idle

\* replace_scanned_document stores the version that is there, and keeps the bytes
\* that a cached document was computed from.
LEMMA StoredStep ==
    ASSUME TypeOK, TypeOK', NEW p \in Paths, RInv, Visits(p), Class(p) = "document",
           DocumentStored(p), pc' = "walk" => p \in seen'
    PROVE  Step(p)
<1>0. Sound(p) /\ QueueTyped  BY TypeParts DEF RInv
<1>1. file[p] # 0  BY ClassFacts
<1>2. /\ deferred \subseteq deferred' \cup {p} /\ deferred' \subseteq deferred
      /\ faults <= faults' /\ (p \notin deferred => p \notin deferred')
  BY <1>0, Numbers DEF DocumentStored, ForgetMemory, QueueTyped
<1>3. pendingOcr' \subseteq pendingOcr
  BY DEF DocumentStored, MetadataReplaced, Settled
<1>4. \A q \in Paths \ {p} :
         doc'[q] = doc[q] /\ empty'[q] = empty[q] /\ attempts'[q] = attempts[q]
  BY DEF DocumentStored, MetadataReplaced, Replaced, TypeOK
<1>5. doc'[p].v = file[p]
  <2>1. doc \in [Paths -> Fingerprint]  BY DEF TypeOK
  <2> QED BY <2>1 DEF DocumentStored, MetadataReplaced, Replaced, Fingerprint
<1>6. /\ Apart(p) /\ made <= made' /\ Forgotten \in Nat /\ Forgotten' \in Nat
      /\ Forgotten <= Forgotten'
  BY <1>2, <1>3, <1>4, VisitApart
<1>7. Recorded(p)'
  <2>1. CASE p \in Images
    <3>1. Cached(p)  BY <2>1, ClassFacts
    <3>2. Replaced(p, file[p], doc[p].bytes)
      BY <2>1, <3>1, PathsAssumption DEF DocumentStored
    <3>3. doc[p].v = file[p] /\ doc[p].v = doc[p].bytes /\ empty[p].v = empty[p].bytes
      BY <1>0, <2>1, <3>1 DEF Cached, Sound, Recorded
    <3>4. doc'[p] = [v |-> file[p], bytes |-> file[p]]
      BY <3>2, <3>3 DEF Replaced, TypeOK
    <3>5. empty'[p] = empty[p] \/ empty'[p] = None  BY <3>2 DEF Replaced, TypeOK
    <3>6. empty'[p].v = empty'[p].bytes  BY <3>3, <3>5 DEF None
    <3>7. doc'[p].v = file[p] /\ doc'[p].bytes = file[p]  BY <3>4
    <3>8. file'[p] = file[p] /\ made' = made  BY DEF Visits
    <3>9. file[p] <= made /\ file[p] \in Nat  BY <1>0, Numbers DEF Sound, Recorded
    <3> QED BY <3>6, <3>7, <3>8, <3>9 DEF Recorded
  <2>2. CASE p \notin Images
    BY <1>0, <1>5, <2>2, Numbers DEF Recorded, Sound, Visits
  <2> QED BY <2>1, <2>2
<1>8. Budgeted(p)'
  <2>1. CASE p \in Images
    <3>1. Cached(p)  BY <2>1, ClassFacts
    <3>2. p \notin deferred'  BY <1>2, <3>1 DEF Cached
    <3>3. p \notin pendingOcr'
      BY <2>1, PathsAssumption DEF DocumentStored, Settled
    <3>4. failed[p] <= MaxFailures + Forgotten
      BY <1>0, <1>6, Numbers DEF Sound, Budgeted, InBudget, Finished
    <3>5. failed'[p] <= MaxFailures + Forgotten'
      BY <1>6, <3>4, Numbers DEF Visits
    <3>6. Finished(p)'  BY <1>5, <3>2, <3>3, <3>5 DEF Finished, Visits
    <3> QED BY <1>0, <1>1, <2>1, <3>6 DEF Budgeted, Visits, Idle
  <2>2. CASE p \notin Images
    <3>1. failed'[p] = 0 /\ Idle(p)'  BY <1>0, <2>2 DEF Sound, Budgeted, Visits, Idle
    <3>2. InBudget(p)'
      <4>1. FailureCount(p, file[p])' \in Nat
        <5>1. attempts'[p].n \in 0 .. MaxFailures  BY DEF TypeOK
        <5> QED BY <5>1, OcrBoundsAssumption DEF FailureCount
      <4> QED BY <1>6, <3>1, <4>1 DEF InBudget
    <3> QED BY <2>2, <3>1, <3>2 DEF Budgeted, Idle
  <2> QED BY <2>1, <2>2
<1>9. Forward(p)  BY <1>0, <1>1, <1>5, Numbers DEF Sound, Recorded, Forward
<1> QED BY <1>0, <1>6, <1>7, <1>8, <1>9, VisitCarried DEF Step, Sound

\* What a visit that stores nothing makes of p's records.
Cleared(p) ==
    \/ Removed(p) \/ RemovedEmpty(p, file[p], file[p])
    \/ UNCHANGED <<doc, empty, attempts>>

\* p's document goes, or stays, and p may leave the queue.
LEMMA ClearedStep ==
    ASSUME TypeOK, TypeOK', NEW p \in Paths, RInv, Visits(p), Cleared(p),
           Forgotten \in Nat => InBudget(p), faults <= faults',
           deferred' \subseteq deferred, deferred \subseteq deferred' \cup {p},
           pendingOcr' \subseteq pendingOcr
    PROVE  Step(p)
<1>0. Sound(p)  BY DEF RInv
<1>1. /\ \A q \in Paths \ {p} :
            doc'[q] = doc[q] /\ empty'[q] = empty[q] /\ attempts'[q] = attempts[q]
      /\ doc'[p] \in {doc[p], None} /\ attempts'[p] = attempts[p]
      /\ empty'[p] \in {empty[p], [v |-> file[p], bytes |-> file[p]]}
  BY DEF Cleared, Removed, RemovedEmpty, TypeOK
<1>2. /\ Apart(p) /\ made <= made' /\ Forgotten \in Nat /\ Forgotten' \in Nat
      /\ Forgotten <= Forgotten'
  BY <1>1, VisitApart
<1>3. Recorded(p)'  BY <1>0, <1>1, Numbers DEF Sound, Recorded, Visits, None
<1>4. Budgeted(p)'
  <2>1. FailureCount(p, file[p])' = FailureCount(p, file[p])
    BY <1>1 DEF FailureCount, Visits
  <2>2. InBudget(p)'  BY <1>2, <2>1, Numbers DEF InBudget, Visits
  <2> QED BY <1>0, <2>2 DEF Sound, Budgeted, Visits, Idle
<1>5. Forward(p)  BY <1>1, Numbers DEF Forward, None
<1> QED BY <1>0, <1>2, <1>3, <1>4, <1>5, VisitCarried DEF Step, Sound

\* p joins the queue, or a fault is all that happens: either the path is one that is
\* still within its budget, or the fault makes room for another.
LEMMA KeptStep ==
    ASSUME TypeOK, TypeOK', NEW p \in Paths, RInv, Visits(p), UNCHANGED results,
           ((Forgotten \in Nat => InBudget(p)) /\ faults <= faults') \/ faults < faults',
           deferred \subseteq deferred', deferred' \subseteq deferred \cup {p},
           pendingOcr' \subseteq pendingOcr \cup {p}
    PROVE  Step(p)
<1>0. Sound(p)  BY DEF RInv
<1>1. UNCHANGED <<doc, empty, attempts>>  BY DEF results
<1>2. faults <= faults'
  <2>1. faults \in Nat /\ faults' \in Nat  BY OcrBoundsAssumption DEF TypeOK
  <2> QED BY <2>1
<1>3. /\ Apart(p) /\ made <= made' /\ Forgotten \in Nat /\ Forgotten' \in Nat
      /\ Forgotten <= Forgotten'
      /\ faults < faults' => Forgotten + MaxFailures <= Forgotten'
  BY <1>1, <1>2, VisitApart
<1>4. Recorded(p)'  BY <1>0, <1>1 DEF Sound, Recorded, Visits
<1>5. Budgeted(p)'
  <2>1. FailureCount(p, file[p])' = FailureCount(p, file[p])
    BY <1>1 DEF FailureCount, Visits
  <2>2. InBudget(p)'
    <3>1. CASE InBudget(p)  BY <1>3, <2>1, <3>1, Numbers DEF InBudget, Visits
    <3>2. CASE faults < faults' /\ Finished(p)
      BY <1>3, <2>1, <3>2, Numbers DEF InBudget, Finished, Visits
    <3> QED BY <1>0, <1>3, <3>1, <3>2 DEF Sound, Budgeted
  <2> QED BY <1>0, <1>1, <2>2 DEF Sound, Budgeted, Visits, Idle
<1>6. Forward(p)  BY <1>1, Numbers DEF Forward
<1> QED BY <1>0, <1>3, <1>4, <1>5, <1>6, VisitCarried DEF Step, Sound

\* How far defer_path and forget_deferred go.
LEMMA DeferReach ==
    ASSUME NEW p \in Paths, NEW spent \in Nat, QueueTyped, DeferPath(p, spent)
    PROVE  /\ deferred \subseteq deferred' /\ deferred' \subseteq deferred \cup {p}
           /\ pendingOcr' \subseteq pendingOcr \cup {p}
           /\ faults + spent <= faults'
<1>0. faults \in Nat  BY OcrBoundsAssumption DEF QueueTyped
<1>1. CASE DeferFull(p, spent)  BY <1>0, <1>1 DEF DeferFull, Fault
<1>2. CASE DeferDurably(p, spent)  BY <1>0, <1>2 DEF DeferDurably
<1>3. CASE DeferUndurably(p, spent)  BY <1>0, <1>3 DEF DeferUndurably, Fault
<1> QED BY <1>1, <1>2, <1>3 DEF DeferPath, DeferFails

LEMMA ForgetReach ==
    ASSUME NEW p \in Paths, QueueTyped, ForgetMemory(p)
    PROVE  /\ deferred' \subseteq deferred /\ deferred \subseteq deferred' \cup {p}
           /\ faults <= faults' /\ (p \in deferred' => faults < faults')
<1>0. faults \in Nat  BY OcrBoundsAssumption DEF QueueTyped
<1> QED BY <1>0 DEF ForgetMemory

\* A path that must be recognised, or that SQLite rejected, joins the queue.
LEMMA DeferredStep ==
    ASSUME TypeOK, TypeOK', NEW p \in Paths, RInv, Visits(p), UNCHANGED results,
           NEW spent \in Nat, DeferPath(p, spent),
           spent # 0 \/ Class(p) # "document"
    PROVE  Step(p)
<1>1. /\ deferred \subseteq deferred' /\ deferred' \subseteq deferred \cup {p}
      /\ pendingOcr' \subseteq pendingOcr \cup {p}
      /\ faults + spent <= faults' /\ faults \in Nat /\ faults' \in Nat
  BY DeferReach, TypeParts, TypePartsNext, OcrBoundsAssumption DEF QueueTyped
<1>2. CASE spent # 0
  BY <1>1, <1>2, KeptStep
<1>3. CASE Class(p) # "document"
  <2>1. Forgotten \in Nat => InBudget(p)  BY <1>3, Unfinished DEF RInv, Visits
  <2> QED BY <1>1, <2>1, KeptStep
<1> QED BY <1>2, <1>3

\* One path of a batch (reconcile_event_paths).
LEMMA ReconcileStep ==
    ASSUME TypeOK, TypeOK', RInv, NEW p \in Paths, ReconcilePath(p), Idle(p)
    PROVE  Step(p)
<1>0. QueueTyped /\ ResultsTyped /\ faults \in Nat
  BY TypeParts, OcrBoundsAssumption DEF QueueTyped
<1>1. Visits(p) /\ pc' # "walk"
  BY DEF ReconcilePath, ReconcileInFlight, ReconcileGone, ReconcileDocument, ReconcileEmpty,
         ReconcileOversize, ReconcileRecognise, ReconcileRejected, BatchStep, Visits, disk, bounds
<1>2. Class(p) # "document" => (Forgotten \in Nat => InBudget(p))
  BY Unfinished DEF RInv
<1>3. CASE ReconcileGone(p)
  <2>1. Cleared(p) /\ faults' = faults /\ deferred' = deferred /\ pendingOcr' \subseteq pendingOcr
    BY <1>3 DEF ReconcileGone, Cleared, Settled
  <2>2. Class(p) # "document"  BY <1>3 DEF ReconcileGone
  <2> QED BY <1>0, <1>1, <1>2, <2>1, <2>2, ClearedStep
<1>4. CASE ReconcileDocument(p)
  BY <1>1, <1>4, StoredStep DEF ReconcileDocument
<1>5. CASE ReconcileEmpty(p)
  <2>1. Cleared(p) /\ pendingOcr' \subseteq pendingOcr /\ ForgetMemory(p)
    BY <1>5 DEF ReconcileEmpty, EmptyCompleted, Cleared, Settled
  <2>2. Class(p) # "document"  BY <1>5 DEF ReconcileEmpty
  <2> QED BY <1>0, <1>1, <1>2, <2>1, <2>2, ForgetReach, ClearedStep
<1>6. CASE ReconcileOversize(p)
  <2>1. Cleared(p) /\ pendingOcr' \subseteq pendingOcr /\ ForgetMemory(p)
    BY <1>6 DEF ReconcileOversize, Cleared, results
  <2>2. Class(p) # "document"  BY <1>6 DEF ReconcileOversize
  <2> QED BY <1>0, <1>1, <1>2, <2>1, <2>2, ForgetReach, ClearedStep
<1>7. CASE ReconcileRecognise(p)
  BY <1>1, <1>7, DeferredStep DEF ReconcileRecognise
<1>8. CASE ReconcileRejected(p)
  <2>1. CASE DeferPath(p, 1)  BY <1>1, <1>8, <2>1, DeferredStep DEF ReconcileRejected
  <2>2. CASE faults' = faults + 1 /\ UNCHANGED <<deferred, pendingOcr>>
    BY <1>0, <1>1, <1>8, <2>2, KeptStep DEF ReconcileRejected
  <2> QED BY <1>8, <2>1, <2>2 DEF ReconcileRejected
<1>9. ~ReconcileInFlight(p)  BY DEF ReconcileInFlight
<1> QED BY <1>3, <1>4, <1>5, <1>6, <1>7, <1>8, <1>9 DEF ReconcilePath

\* One path of the full walk (rebuild_index), which no lane runs beside.
LEMMA WalkPathStep ==
    ASSUME TypeOK, TypeOK', RInv, NEW p \in Paths, WalkPath(p) \/ WalkFails(p), Idle(p)
    PROVE  Step(p)
<1>0. QueueTyped /\ ResultsTyped /\ faults \in Nat
  BY TypeParts, OcrBoundsAssumption DEF QueueTyped
<1>1. Visits(p)
  BY DEF WalkPath, WalkGone, WalkDocument, WalkEmpty, WalkOversize, WalkRecognise, WalkFails,
         WalkStep, Visits, disk, bounds
<1>2. Class(p) # "document" => (Forgotten \in Nat => InBudget(p))
  BY Unfinished DEF RInv
<1>3. CASE WalkGone(p)
  <2>1. Cleared(p) /\ faults' = faults /\ deferred' = deferred /\ pendingOcr' = pendingOcr
    BY <1>3 DEF WalkGone, Cleared, results
  <2>2. Class(p) # "document"  BY <1>3 DEF WalkGone
  <2> QED BY <1>0, <1>1, <1>2, <2>1, <2>2, ClearedStep
<1>4. CASE WalkDocument(p)
  BY <1>1, <1>4, StoredStep DEF WalkDocument
<1>5. CASE WalkEmpty(p)
  <2>1. Cleared(p) /\ pendingOcr' \subseteq pendingOcr /\ ForgetMemory(p)
    BY <1>5 DEF WalkEmpty, EmptyCompleted, Cleared, Settled
  <2>2. Class(p) # "document"  BY <1>5 DEF WalkEmpty
  <2> QED BY <1>0, <1>1, <1>2, <2>1, <2>2, ForgetReach, ClearedStep
<1>6. CASE WalkOversize(p)
  <2>1. Cleared(p) /\ pendingOcr' \subseteq pendingOcr /\ ForgetMemory(p)
    BY <1>6 DEF WalkOversize, ForgetDeferred, Cleared, results
  <2>2. Class(p) # "document"  BY <1>6 DEF WalkOversize
  <2> QED BY <1>0, <1>1, <1>2, <2>1, <2>2, ForgetReach, ClearedStep
<1>7. CASE WalkRecognise(p)
  BY <1>1, <1>7, DeferredStep DEF WalkRecognise, DeferPath
<1>8. CASE WalkFails(p)
  <2>1. CASE DeferPath(p, 1)  BY <1>1, <1>8, <2>1, DeferredStep DEF WalkFails
  <2>2. CASE Class(p) = "recognise" /\ DeferFails(p, 0)
    BY <1>1, <1>8, <2>2, DeferredStep DEF WalkFails, DeferPath
  <2> QED BY <1>8, <2>1, <2>2 DEF WalkFails
<1> QED BY <1>3, <1>4, <1>5, <1>6, <1>7, <1>8 DEF WalkPath

\* The index thread's own retry of a metadata-only path.
LEMMA CleanupStep ==
    ASSUME TypeOK, TypeOK', RInv, NEW p \in Paths, Cleanup(p)
    PROVE  Step(p)
<1>0. QueueTyped /\ faults \in Nat /\ p \notin Images
  BY TypeParts, OcrBoundsAssumption, PathsAssumption DEF QueueTyped, Cleanup
<1>1. Visits(p) /\ pc' # "walk"
  BY DEF Cleanup, Visits, disk, bounds
<1>2. CASE file[p] # 0 /\ DocumentStored(p)
  <2>1. Class(p) = "document"  BY <1>0, <1>2, ClassFacts
  <2> QED BY <1>1, <1>2, <2>1, StoredStep
<1>3. CASE DeferPath(p, 1) /\ UNCHANGED results
  BY <1>1, <1>3, DeferredStep
<1>4. CASE file[p] = 0 /\ Removed(p) /\ Settled(p) /\ ForgetMemory(p)
  <2>1. Cleared(p) /\ pendingOcr' \subseteq pendingOcr
    BY <1>4 DEF Cleared, Settled
  <2>2. Forgotten \in Nat => InBudget(p)
    BY <1>4, Numbers DEF RInv, Sound, Budgeted, InBudget
  <2> QED BY <1>0, <1>1, <1>4, <2>1, <2>2, ForgetReach, ClearedStep
<1> QED BY <1>2, <1>3, <1>4 DEF Cleanup

-----------------------------------------------------------------------------
(* Steps that visit no path.                                               *)

\* The files change: the version is new, and nothing was recorded of it.
LEMMA FileStep ==
    ASSUME TypeOK, TypeOK', RInv, NEW p \in Paths, FileWrite(p) \/ FileDelete(p)
    PROVE  Step(p)
<1>0. Sound(p)  BY DEF RInv
<1>1. /\ UNCHANGED <<doc, empty, attempts, lane, deferred, pendingOcr, faults, outages, pc, todo, seen>>
      /\ failed' = [failed EXCEPT ![p] = 0]
  BY DEF FileWrite, FileDelete, thread, queue, results, bounds
<1>2. \/ made' = made + 1 /\ file' = [file EXCEPT ![p] = made + 1]
      \/ made' = made /\ file' = [file EXCEPT ![p] = 0]
  BY DEF FileWrite, FileDelete
<1>3. file \in [Paths -> Versions] /\ failed \in [Paths -> Nat]  BY DEF TypeOK
<1>4. Apart(p)  BY <1>1, <1>2, <1>3 DEF Apart
<1>5. made <= made' /\ file[p] <= made /\ made' \in Nat
  BY <1>0, <1>2, Numbers DEF Sound, Recorded
<1>6. Forgotten \in Nat /\ Forgotten' \in Nat /\ Forgotten <= Forgotten'
  BY <1>1, Numbers, ForgottenGrows
<1>7. file'[p] \in {0, made + 1} /\ file'[p] <= made' /\ (file'[p] # 0 => file'[p] = made + 1)
  BY <1>2, <1>3, Numbers
<1>8. Recorded(p)'  BY <1>0, <1>1, <1>5, <1>7, Numbers DEF Sound, Recorded
<1>9. Carried(p)'
  BY <1>0, <1>1, <1>2, <1>5, <1>7, Numbers DEF Sound, Carried, Idle
<1>10. Budgeted(p)'
  <2>1. failed'[p] = 0  BY <1>1, <1>3
  <2>2. \A v : FailureCount(p, v)' = FailureCount(p, v)  BY <1>1 DEF FailureCount
  <2>3. FailureCount(p, file[p])' \in Nat
    <3>1. attempts[p].n \in 0 .. MaxFailures  BY DEF TypeOK
    <3> QED BY <1>1, <3>1, OcrBoundsAssumption DEF FailureCount
  <2>4. InBudget(p)'  BY <1>6, <2>1, <2>3 DEF InBudget
  <2> QED BY <1>0, <1>1, <2>1, <2>2, <2>4 DEF Sound, Budgeted, Idle, FailureCount
<1>11. Forward(p)  BY <1>1, Numbers DEF Forward
<1> QED BY <1>4, <1>5, <1>6, <1>8, <1>9, <1>10, <1>11 DEF Step, Sound

\* Steps that touch no record, no count and no file, end no lane but with the process,
\* let nothing back into the queue, and start walks that pass every path.
LEMMA OtherStep ==
    ASSUME TypeOK, TypeOK', RInv, NEW p \in Paths,
           UNCHANGED <<disk, empty, attempts, failed>>, faults <= faults', outages <= outages',
           pendingOcr' = pendingOcr,
           \/ /\ lane' = lane /\ deferred' = deferred
              /\ pc' # "walk" \/ p \in todo' \/ UNCHANGED <<pc, todo, seen>>
           \/ /\ lane'[p] = IdleLane /\ deferred' \subseteq pendingOcr
              /\ pc' # "walk" \/ p \in todo',
           doc' = doc \/ (doc'[p] = None /\ Idle(p)' /\ InBudget(p)) \/ doc'[p] = doc[p]
    PROVE  Sound(p)' /\ Forward(p)
<1>0. Sound(p)  BY DEF RInv
<1>1. file' = file /\ made' = made  BY DEF disk
<1>2. doc'[p] = doc[p] \/ (doc'[p] = None /\ Idle(p)' /\ InBudget(p))  OBVIOUS
<1>3. Forgotten \in Nat /\ Forgotten' \in Nat /\ Forgotten <= Forgotten'
  BY ForgottenGrows
<1>4. Recorded(p)'  BY <1>0, <1>1, <1>2, Numbers DEF Sound, Recorded, None
<1>5. Carried(p)'
  <2>1. CASE lane'[p] = lane[p] /\ doc'[p] = doc[p]
    BY <1>0, <1>1, <2>1 DEF Sound, Carried, Idle
  <2>2. CASE lane'[p] = lane[p] /\ Idle(p)'
    BY <1>0, <1>1, <2>2 DEF Sound, Carried, Idle
  <2>3. CASE lane'[p] = IdleLane
    BY <1>1, <2>3, Numbers DEF Carried, IdleLane, Idle
  <2> QED BY <1>2, <2>1, <2>2, <2>3
<1>6. FailureCount(p, file[p])' = FailureCount(p, file[p])  BY <1>1 DEF FailureCount
<1>7. InBudget(p) => InBudget(p)'  BY <1>3, <1>6, Numbers DEF InBudget
<1>8. ASSUME Finished(p), ~InBudget(p) PROVE Finished(p)'
  <2>1. doc'[p] = doc[p]  BY <1>2, <1>8
  <2>2. failed'[p] <= MaxFailures + Forgotten'  BY <1>3, <1>8, Numbers DEF Finished
  <2>3. CASE /\ lane' = lane /\ deferred' = deferred
             /\ pc' # "walk" \/ p \in todo' \/ UNCHANGED <<pc, todo, seen>>
    BY <1>1, <1>8, <2>1, <2>2, <2>3 DEF Finished
  <2>4. CASE /\ lane'[p] = IdleLane /\ deferred' \subseteq pendingOcr
             /\ pc' # "walk" \/ p \in todo'
    <3>1. p \notin deferred'  BY <1>8, <2>4 DEF Finished
    <3> QED BY <1>1, <1>8, <2>1, <2>2, <2>4, <3>1 DEF Finished
  <2> QED BY <2>3, <2>4
<1>9. Budgeted(p)'
  BY <1>0, <1>1, <1>7, <1>8 DEF Sound, Budgeted, Idle, IdleLane, FailureCount
<1>10. Forward(p)  BY <1>2, Numbers DEF Forward, None
<1> QED BY <1>4, <1>5, <1>9, <1>10 DEF Sound

-----------------------------------------------------------------------------
(* The lanes' steps, during which no walk goes on.                         *)

\* A step of p's lane.
OnLane(p) ==
    /\ pc # "walk" /\ UNCHANGED <<file, made, pc, todo, seen>> /\ OthersRest(p)
    /\ faults <= faults' /\ outages <= outages'
    /\ \A q \in Paths \ {p} :
          /\ doc'[q] = doc[q] /\ empty'[q] = empty[q] /\ attempts'[q] = attempts[q]
          /\ failed'[q] = failed[q]
          /\ (q \in deferred' <=> q \in deferred) /\ (q \in pendingOcr' => q \in pendingOcr)

LEMMA LaneApart ==
    ASSUME TypeOK, TypeOK', NEW p \in Paths, OnLane(p)
    PROVE  /\ Apart(p) /\ made <= made' /\ Forgotten \in Nat /\ Forgotten' \in Nat
           /\ Forgotten <= Forgotten'
           /\ faults < faults' \/ outages < outages' => Forgotten + MaxFailures <= Forgotten'
<1>1. made <= made'  BY Numbers DEF OnLane
<1>2. Apart(p)  BY DEF OnLane, OthersRest, Apart
<1>3. faults <= faults' /\ outages <= outages'  BY DEF OnLane
<1> QED BY <1>1, <1>2, <1>3, ForgottenGrows

\* p is in the queue as long as its lane works, and counted until its result is stored.
LEMMA Counted ==
    ASSUME NEW p \in Paths, Sound(p), ~Idle(p), lane[p].pc # "forget"
    PROVE  InBudget(p) /\ p \in deferred
BY DEF Sound, Budgeted, Finished

\* A lane moves on without a change to p's records or its place in the queue.
LEMMA MovesStep ==
    ASSUME TypeOK, TypeOK', RInv, NEW p \in Paths, OnLane(p),
           UNCHANGED <<doc, empty, attempts, failed>>, p \in deferred, p \in deferred',
           InBudget(p), Carried(p)',
           p \in Images \/ lane'[p].pc \notin {"extract", "send", "remote", "empty", "emptyCommit"},
           lane'[p].pc \in {"send", "remote"} =>
              lane'[p].stat # 0 /\ FailureCount(p, lane'[p].stat) < MaxFailures
    PROVE  Step(p)
<1>0. Sound(p)  BY DEF RInv
<1>1. /\ Apart(p) /\ made <= made' /\ Forgotten \in Nat /\ Forgotten' \in Nat
      /\ Forgotten <= Forgotten'
  BY LaneApart
<1>2. file' = file /\ made' = made  BY DEF OnLane
<1>3. Recorded(p)'  BY <1>0, <1>2 DEF Sound, Recorded
<1>4. FailureCount(p, file[p])' = FailureCount(p, file[p])  BY <1>2 DEF FailureCount
<1>5. InBudget(p)'  BY <1>1, <1>4, Numbers DEF InBudget
<1>6. FailureCount(p, lane[p].stat)' = FailureCount(p, lane'[p].stat)  BY DEF FailureCount
<1>7. Budgeted(p)'  BY <1>0, <1>2, <1>5, <1>6 DEF Sound, Budgeted
<1>8. Forward(p)  BY Numbers DEF Forward
<1> QED BY <1>1, <1>3, <1>7, <1>8 DEF Step, Sound

\* A lane ends without a result: its input stays in the queue.
LEMMA EndsStep ==
    ASSUME TypeOK, TypeOK', RInv, NEW p \in Paths, OnLane(p), ~Idle(p), LaneEnds(p),
           UNCHANGED <<doc, empty, attempts, failed>>, p \in deferred',
           lane[p].pc = "forget" => outages < outages'
    PROVE  Step(p)
<1>0. Sound(p)  BY DEF RInv
<1>1. /\ Apart(p) /\ made <= made' /\ Forgotten \in Nat /\ Forgotten' \in Nat
      /\ Forgotten <= Forgotten'
      /\ outages < outages' => Forgotten + MaxFailures <= Forgotten'
  BY LaneApart
<1>2. file' = file /\ made' = made  BY DEF OnLane
<1>3. lane'[p] = IdleLane  BY DEF LaneEnds, TypeOK
<1>4. Recorded(p)'  BY <1>0, <1>2 DEF Sound, Recorded
<1>5. Carried(p)'  BY <1>2, <1>3, Numbers DEF Carried, IdleLane, Idle
<1>6. FailureCount(p, file[p])' = FailureCount(p, file[p])  BY <1>2 DEF FailureCount
<1>7. InBudget(p)'
  <2>1. CASE InBudget(p)  BY <1>1, <1>6, <2>1, Numbers DEF InBudget
  <2>2. CASE ~InBudget(p)
    <3>1. Finished(p) /\ outages < outages'  BY <1>0, <2>2, Counted DEF Sound, Budgeted
    <3> QED BY <1>1, <1>6, <3>1, Numbers DEF Finished, InBudget
  <2> QED BY <2>1, <2>2
<1>8. Budgeted(p)'  BY <1>0, <1>2, <1>3, <1>7 DEF Sound, Budgeted, IdleLane, Idle
<1>9. Forward(p)  BY Numbers DEF Forward
<1> QED BY <1>1, <1>4, <1>5, <1>8, <1>9 DEF Step, Sound

\* A lane ends and hands its input back to the queue, or has lost its way.
LEMMA BackStep ==
    ASSUME TypeOK, TypeOK', RInv, WalkAlone, NEW p \in Paths, ~Idle(p), LaneEnds(p),
           UNCHANGED <<rest, results, failed>>, outages <= outages',
           \/ /\ lane[p].pc # "forget" \/ outages < outages'
              /\ deferred' = deferred /\ pendingOcr' = pendingOcr /\ faults <= faults'
           \/ /\ lane[p].pc # "forget"
              /\ \E spent \in Nat : DeferPath(p, spent)
    PROVE  Step(p)
<1>0. Sound(p) /\ QueueTyped /\ faults \in Nat /\ faults' \in Nat
  BY TypeParts, OcrBoundsAssumption DEF RInv, QueueTyped, TypeOK
<1>1. /\ deferred \subseteq deferred' /\ deferred' \subseteq deferred \cup {p}
      /\ pendingOcr' \subseteq pendingOcr \cup {p} /\ faults <= faults'
  <2>1. CASE \E spent \in Nat : DeferPath(p, spent)
    <3>1. PICK spent \in Nat : DeferPath(p, spent)  BY <2>1
    <3> QED BY <1>0, <3>1, DeferReach
  <2>2. CASE deferred' = deferred /\ pendingOcr' = pendingOcr /\ faults <= faults'
    BY <2>2
  <2> QED BY <2>1, <2>2
<1>2. OthersRest(p)  BY LaneEndsFacts, TypeParts
<1>3. OnLane(p)  BY <1>1, <1>2 DEF OnLane, WalkAlone, rest, disk, thread, results
<1>4. p \in deferred'  BY <1>0, <1>1 DEF Sound, Budgeted
<1> QED BY <1>3, <1>4, EndsStep DEF results

\* Steps that move a lane on, field by field.
LEMMA OnlyLane ==
    ASSUME TypeOK, WalkAlone, NEW p \in Paths, ~Idle(p), UNCHANGED <<rest, results, failed, bounds>>,
           UNCHANGED <<deferred, pendingOcr, faults>>, OthersRest(p)
    PROVE  OnLane(p) /\ UNCHANGED <<doc, empty, attempts, failed>>
<1>1. faults \in Nat /\ outages \in Nat  BY Numbers
<1> QED BY <1>1 DEF OnLane, WalkAlone, rest, disk, thread, results, bounds

LEMMA DispatchStep ==
    ASSUME TypeOK, TypeOK', RInv, NEW p \in Paths, Dispatch(p)
    PROVE  Step(p)
<1>0. Sound(p)  BY DEF RInv
<1>1. lane \in [Paths -> [pc : LaneSteps, v : Versions, stat : Versions, bytes : Versions]]
  BY DEF TypeOK
<1>2. /\ lane'[p].pc = "claimed" /\ lane'[p].v = lane[p].v /\ lane'[p].bytes = lane[p].bytes
      /\ OthersRest(p)
  BY <1>1 DEF Dispatch, LaneTo, OthersRest
<1>3. /\ UNCHANGED <<file, made, todo, seen, pc, deferred, pendingOcr, faults, outages,
                     doc, empty, attempts, failed>>
      /\ p \in deferred /\ pc = "loop" /\ Idle(p)
  BY DEF Dispatch, disk, queue, results, bounds
<1>4. OnLane(p)  BY <1>2, <1>3, Numbers DEF OnLane
<1>5. Carried(p)'  BY <1>0, <1>2, <1>3 DEF Sound, Carried, Idle
<1>6. CASE InBudget(p)  BY <1>2, <1>3, <1>4, <1>5, <1>6, MovesStep
<1>7. CASE ~InBudget(p)
  <2>1. Finished(p)  BY <1>0, <1>7 DEF Sound, Budgeted
  <2> QED BY <1>3, <2>1 DEF Finished, Idle
<1> QED BY <1>6, <1>7

\* The version that the lane will store its result under is read.
LEMMA StatStep ==
    ASSUME TypeOK, TypeOK', RInv, WalkAlone, NEW p \in Paths, LaneStat(p)
    PROVE  Step(p)
<1>0. Sound(p) /\ ~Idle(p) /\ file[p] # 0  BY DEF RInv, LaneStat, Idle
<1>1. PICK step \in {"forget", "recheck", "empty", "extract"} :
        /\ lane' = [lane EXCEPT ![p] = [pc |-> step, v |-> file[p], stat |-> 0, bytes |-> file[p]]]
        /\ p \notin Images => step \notin {"empty", "extract"}
  BY PathsAssumption DEF LaneStat
<1>2. lane'[p] = [pc |-> step, v |-> file[p], stat |-> 0, bytes |-> file[p]] /\ OthersRest(p)
  BY <1>1 DEF OthersRest, TypeOK
<1>3. OnLane(p) /\ UNCHANGED <<doc, empty, attempts, failed, file, made, deferred>>
  <2>1. UNCHANGED <<rest, results, failed, bounds, deferred, pendingOcr, faults>>
    BY DEF LaneStat
  <2> QED BY <1>0, <1>2, <2>1, OnlyLane DEF rest, disk
<1>4. InBudget(p) /\ p \in deferred  BY <1>0, Counted DEF LaneStat
<1>5. Carried(p)'
  <2>1. doc[p].v <= file[p] /\ file[p] <= made  BY <1>0 DEF Sound, Recorded
  <2> QED BY <1>0, <1>2, <1>3, <2>1, Numbers DEF Carried, Idle
<1> QED BY <1>1, <1>2, <1>3, <1>4, <1>5, MovesStep

\* The version whose failures count, and the bytes that are sent.
LEMMA ExtractStep ==
    ASSUME TypeOK, TypeOK', RInv, WalkAlone, NEW p \in Paths, LaneExtract(p)
    PROVE  Step(p)
<1>0. Sound(p) /\ ~Idle(p) /\ lane[p].pc = "extract"  BY DEF RInv, LaneExtract, Idle
<1>1. UNCHANGED <<rest, results, failed, bounds, deferred, pendingOcr, faults, outages>>
  BY DEF LaneExtract, queue, bounds
<1>2. lane \in [Paths -> [pc : LaneSteps, v : Versions, stat : Versions, bytes : Versions]]
  BY DEF TypeOK
<1>3. InBudget(p) /\ p \in deferred /\ p \in Images  BY <1>0, Counted DEF Sound, Budgeted
<1>4. /\ lane[p].v # 0 /\ lane[p].v <= made /\ doc[p].v <= lane[p].v /\ file[p] <= made
      /\ file[p] # 0 => lane[p].v <= file[p]
  BY <1>0 DEF Sound, Carried, Recorded
<1>5. CASE LaneEnds(p)
  BY <1>0, <1>1, <1>5, BackStep, Numbers
<1>6. CASE file[p] # 0 /\ lane' = [lane EXCEPT ![p].pc = "empty", ![p].bytes = file[p]]
  <2>1. /\ lane'[p].pc = "empty" /\ lane'[p].v = lane[p].v /\ lane'[p].bytes = file[p]
        /\ OthersRest(p)
    BY <1>2, <1>6 DEF OthersRest
  <2>2. OnLane(p) /\ UNCHANGED <<doc, empty, attempts, failed, file, made, deferred>>
    BY <1>0, <1>1, <2>1, OnlyLane DEF rest, disk
  <2>3. Carried(p)'  BY <1>4, <1>6, <2>1, <2>2, Numbers DEF Carried, Idle
  <2> QED BY <1>3, <2>1, <2>2, <2>3, MovesStep
<1>7. CASE /\ file[p] # 0 /\ ~SkipRecognition(p, file[p])
           /\ lane' = [lane EXCEPT ![p].pc = "send", ![p].stat = file[p]]
  <2>1. /\ lane'[p].pc = "send" /\ lane'[p].v = lane[p].v /\ lane'[p].bytes = lane[p].bytes
        /\ lane'[p].stat = file[p] /\ OthersRest(p)
    BY <1>2, <1>7 DEF OthersRest
  <2>2. OnLane(p) /\ UNCHANGED <<doc, empty, attempts, failed, file, made, deferred>>
    BY <1>0, <1>1, <2>1, OnlyLane DEF rest, disk
  <2>3. Carried(p)'  BY <1>0, <2>1, <2>2 DEF Sound, Carried, Idle
  <2>4. FailureCount(p, file[p]) < MaxFailures  BY <1>7, Numbers DEF SkipRecognition
  <2> QED BY <1>3, <1>7, <2>1, <2>2, <2>3, <2>4, MovesStep
<1> QED BY <1>5, <1>6, <1>7 DEF LaneExtract

LEMMA SendStep ==
    ASSUME TypeOK, TypeOK', RInv, WalkAlone, NEW p \in Paths, LaneSend(p)
    PROVE  Step(p)
<1>0. Sound(p) /\ ~Idle(p) /\ lane[p].pc = "send"  BY DEF RInv, LaneSend, Idle
<1>1. UNCHANGED <<rest, results, failed, bounds, outages>>  BY DEF LaneSend, bounds
<1>2. lane \in [Paths -> [pc : LaneSteps, v : Versions, stat : Versions, bytes : Versions]]
  BY DEF TypeOK
<1>3. InBudget(p) /\ p \in deferred /\ p \in Images  BY <1>0, Counted DEF Sound, Budgeted
<1>4. /\ lane[p].v # 0 /\ lane[p].v <= made /\ doc[p].v <= lane[p].v /\ file[p] <= made
      /\ file[p] # 0 => lane[p].v <= file[p]
  BY <1>0 DEF Sound, Carried, Recorded
<1>5. CASE LaneEnds(p) /\ DeferPath(p, 0)
  BY <1>0, <1>1, <1>5, BackStep, Numbers
<1>6. CASE /\ file[p] # 0 /\ UNCHANGED queue
           /\ lane' = [lane EXCEPT ![p].pc = "remote", ![p].bytes = file[p]]
  <2>1. /\ lane'[p].pc = "remote" /\ lane'[p].v = lane[p].v /\ lane'[p].bytes = file[p]
        /\ lane'[p].stat = lane[p].stat /\ OthersRest(p)
    BY <1>2, <1>6 DEF OthersRest
  <2>2. OnLane(p) /\ UNCHANGED <<doc, empty, attempts, failed, file, made, deferred>>
    BY <1>0, <1>1, <1>6, <2>1, OnlyLane DEF rest, disk, queue
  <2>3. Carried(p)'  BY <1>4, <1>6, <2>1, <2>2, Numbers DEF Carried, Idle
  <2>4. lane[p].stat # 0 /\ FailureCount(p, lane[p].stat) < MaxFailures
    BY <1>0 DEF Sound, Budgeted
  <2> QED BY <1>3, <2>1, <2>2, <2>3, <2>4, MovesStep
<1> QED BY <1>5, <1>6 DEF LaneSend

\* A worker's answer, and the looks at the file before the result is stored.
LEMMA LooksStep ==
    ASSUME TypeOK, TypeOK', RInv, WalkAlone, NEW p \in Paths,
           LaneAnswered(p) \/ LaneRecheck(p) \/ LaneEmpty(p)
    PROVE  Step(p)
<1>0. Sound(p) /\ ~Idle(p) /\ lane[p].pc \in {"remote", "recheck", "empty"}
  BY DEF RInv, LaneAnswered, LaneRecheck, LaneEmpty, Idle
<1>1. UNCHANGED <<rest, results, failed, bounds, outages>>
  BY DEF LaneAnswered, LaneRecheck, LaneEmpty, bounds
<1>2. lane \in [Paths -> [pc : LaneSteps, v : Versions, stat : Versions, bytes : Versions]]
  BY DEF TypeOK
<1>3. InBudget(p) /\ p \in deferred  BY <1>0, Counted
<1>4. CASE LaneEnds(p) /\ DeferPath(p, 0)
  BY <1>0, <1>1, <1>4, BackStep, Numbers
<1>5. ASSUME NEW step \in {"recheck", "empty", "commit", "emptyCommit"}, LaneTo(p, step),
             UNCHANGED queue,
             step \in {"recheck", "empty"} => lane[p].pc = "remote",
             step \in {"commit", "emptyCommit"} => file[p] = lane[p].v,
             step = "emptyCommit" => lane[p].pc = "empty"
      PROVE  Step(p)
  <2>1. /\ lane'[p].pc = step /\ lane'[p].v = lane[p].v /\ lane'[p].bytes = lane[p].bytes
        /\ OthersRest(p)
    BY <1>2, <1>5 DEF OthersRest, LaneTo
  <2>2. OnLane(p) /\ UNCHANGED <<doc, empty, attempts, failed, file, made, deferred>>
    BY <1>0, <1>1, <1>5, <2>1, OnlyLane DEF rest, disk, queue
  <2>3. Carried(p)'
    <3>1. /\ lane[p].v # 0 /\ lane[p].v <= lane[p].bytes
          /\ lane[p].v <= made /\ lane[p].bytes <= made /\ doc[p].v <= lane[p].v
          /\ file[p] # 0 => lane[p].v <= file[p] /\ lane[p].bytes <= file[p]
      BY <1>0 DEF Sound, Carried
    <3> QED BY <1>5, <2>1, <2>2, <3>1, Numbers DEF Carried, Idle
  <2>4. p \in Images \/ step \notin {"empty", "emptyCommit"}
    BY <1>0, <1>5 DEF Sound, Budgeted
  <2> QED BY <1>3, <2>1, <2>2, <2>3, <2>4, MovesStep
<1>6. CASE LaneAnswered(p)
  BY <1>5, <1>6 DEF LaneAnswered
<1>7. CASE LaneRecheck(p)
  BY <1>4, <1>5, <1>7 DEF LaneRecheck
<1>8. CASE LaneEmpty(p)
  BY <1>4, <1>5, <1>8 DEF LaneEmpty
<1> QED BY <1>6, <1>7, <1>8

\* Lanes that find no worker, lose their answer or panic.
LEMMA LostStep ==
    ASSUME TypeOK, TypeOK', RInv, WalkAlone, NEW p \in Paths, LaneOutage(p) \/ LaneLost(p)
    PROVE  Step(p)
<1>1. /\ ~Idle(p) /\ LaneEnds(p) /\ UNCHANGED <<rest, results, failed>> /\ outages' = outages + 1
  BY DEF LaneOutage, LaneLost, Idle
<1>2. faults \in Nat /\ outages \in Nat  BY Numbers
<1>3. CASE LaneOutage(p)
  BY <1>1, <1>2, <1>3, BackStep DEF LaneOutage
<1>4. CASE LaneLost(p)
  BY <1>1, <1>2, <1>4, BackStep DEF LaneLost, queue
<1> QED BY <1>3, <1>4

\* The input is gone: so is its document.
LEMMA GoneStep ==
    ASSUME TypeOK, TypeOK', RInv, WalkAlone, NEW p \in Paths, LaneGone(p)
    PROVE  Step(p)
<1>0. Sound(p) /\ ~Idle(p) /\ lane[p].pc = "claimed" /\ file[p] = 0
  BY DEF RInv, LaneGone, Idle
<1>1. UNCHANGED <<rest, failed, bounds, outages, deferred>>  BY DEF LaneGone, bounds
<1>2. CASE Removed(p) /\ Settled(p) /\ LaneTo(p, "forget") /\ UNCHANGED faults
  <2>1. /\ lane'[p].pc = "forget" /\ lane'[p].v = lane[p].v /\ lane'[p].bytes = lane[p].bytes
        /\ OthersRest(p)
    BY <1>2 DEF OthersRest, LaneTo, TypeOK
  <2>2. /\ doc'[p] = None /\ UNCHANGED <<empty, attempts>> /\ pendingOcr' \subseteq pendingOcr
        /\ \A q \in Paths \ {p} : doc'[q] = doc[q]
        /\ \A q \in Paths \ {p} : q \in pendingOcr' => q \in pendingOcr
    BY <1>2 DEF Removed, Settled, TypeOK
  <2>3. OnLane(p)
    BY <1>0, <1>1, <1>2, <2>1, <2>2, Numbers DEF OnLane, WalkAlone, rest, disk, thread, bounds
  <2>4. /\ Apart(p) /\ made <= made' /\ Forgotten \in Nat /\ Forgotten' \in Nat
        /\ Forgotten <= Forgotten'
    BY <2>3, LaneApart
  <2>5. file' = file /\ made' = made /\ failed' = failed  BY <1>1 DEF rest, disk
  <2>6. failed[p] = 0 /\ p \in deferred  BY <1>0 DEF Sound, Budgeted
  <2>7. Recorded(p)'  BY <1>0, <2>2, <2>5, Numbers DEF Sound, Recorded, None
  <2>8. Carried(p)'  BY <1>0, <2>1, <2>2, <2>5, Numbers DEF Sound, Carried, None, Idle
  <2>9. Budgeted(p)'
    <3>1. FailureCount(p, file[p])' = FailureCount(p, file[p])
      BY <2>2, <2>5 DEF FailureCount
    <3>2. InBudget(p)'  BY <2>4, <2>5, <2>6, <3>1, Numbers DEF InBudget
    <3> QED BY <1>0, <1>1, <2>1, <2>5, <2>6, <3>2 DEF Sound, Budgeted
  <2>10. Forward(p)  BY <2>2 DEF Forward, None
  <2> QED BY <2>4, <2>7, <2>8, <2>9, <2>10 DEF Step, Sound
<1>3. CASE faults' = faults + 1 /\ LaneEnds(p) /\ UNCHANGED <<results, pendingOcr>>
  BY <1>0, <1>1, <1>3, BackStep, Numbers
<1> QED BY <1>2, <1>3 DEF LaneGone

\* A failed recognition of the version that is there costs one attempt, which is
\* recorded unless SQLite rejects it.
LEMMA FailedStep ==
    ASSUME TypeOK, TypeOK', RInv, WalkAlone, NEW p \in Paths, LaneFailed(p)
    PROVE  Step(p)
<1> DEFINE v == lane[p].stat
           total == RecordedFailures(p, v, 1)
<1>0. Sound(p) /\ QueueTyped /\ ~Idle(p) /\ lane[p].pc = "remote"
  BY TypeParts DEF RInv, LaneFailed, Idle
<1>1. UNCHANGED <<rest, doc, empty, bounds, outages, restarts>>  BY DEF LaneFailed, bounds
<1>2. InBudget(p) /\ p \in deferred /\ p \in Images /\ v # 0 /\ FailureCount(p, v) < MaxFailures
  BY <1>0, Counted DEF Sound, Budgeted
<1>3. total = FailureCount(p, v) + 1  BY <1>2, Numbers DEF RecordedFailures
<1>4. /\ faults <= faults' /\ deferred \subseteq deferred' /\ deferred' \subseteq deferred \cup {p}
      /\ pendingOcr' \subseteq pendingOcr \cup {p}
  <2>1. CASE DeferPath(p, 0)  BY <1>0, <2>1, DeferReach, Numbers
  <2>2. CASE UNCHANGED <<deferred, pendingOcr>> /\ (faults' = faults \/ faults' = faults + 1)
    BY <2>2, Numbers
  <2> QED BY <2>1, <2>2 DEF LaneFailed, queue
<1>5. /\ LaneEnds(p) \/ (LaneTo(p, "empty") /\ total >= MaxFailures)
      /\ OthersRest(p)
  <2>1. LaneEnds(p) \/ (LaneTo(p, "empty") /\ total >= MaxFailures)  BY DEF LaneFailed
  <2> QED BY <2>1 DEF LaneEnds, LaneTo, OthersRest, TypeOK
<1>6. CASE file[p] # v
  <2>1. LaneEnds(p) /\ DeferPath(p, 0) /\ UNCHANGED <<attempts, failed>>
    BY <1>6 DEF LaneFailed
  <2> QED BY <1>0, <1>1, <2>1, BackStep, Numbers DEF results, bounds
<1>7. CASE file[p] = v
  <2>1. /\ failed' = [failed EXCEPT ![p] = @ + 1]
        /\ \/ attempts' = [attempts EXCEPT ![p] = [v |-> v, n |-> total]]
           \/ attempts' = attempts /\ faults' = faults + 1
    BY <1>2, <1>7 DEF LaneFailed
  <2>2. failed'[p] = failed[p] + 1 /\ \A q \in Paths \ {p} : failed'[q] = failed[q]
    BY <2>1 DEF TypeOK
  <2>3. \A q \in Paths \ {p} : attempts'[q] = attempts[q]  BY <2>1 DEF TypeOK
  <2>4. OnLane(p)
    BY <1>0, <1>1, <1>4, <1>5, <2>2, <2>3, Numbers DEF OnLane, WalkAlone, rest, disk, thread, bounds
  <2>5. /\ Apart(p) /\ made <= made' /\ Forgotten \in Nat /\ Forgotten' \in Nat
        /\ Forgotten <= Forgotten'
        /\ faults < faults' => Forgotten + MaxFailures <= Forgotten'
    BY <2>4, LaneApart
  <2>6. file' = file /\ made' = made /\ doc' = doc /\ empty' = empty  BY <1>1 DEF rest, disk
  <2>7. Recorded(p)'  BY <1>0, <2>6 DEF Sound, Recorded
  <2>8. lane'[p] = IdleLane
        \/ /\ lane'[p].pc = "empty" /\ lane'[p].v = lane[p].v /\ lane'[p].bytes = lane[p].bytes
    BY <1>5 DEF LaneEnds, LaneTo, TypeOK
  <2>9. Carried(p)'
    <3>1. CASE lane'[p] = IdleLane
      BY <2>6, <3>1, Numbers DEF Carried, IdleLane, Idle
    <3>2. CASE lane'[p].pc = "empty" /\ lane'[p].v = lane[p].v /\ lane'[p].bytes = lane[p].bytes
      BY <1>0, <2>6, <3>2 DEF Sound, Carried, Idle
    <3> QED BY <2>8, <3>1, <3>2
  <2>10. InBudget(p)'
    <3>1. CASE attempts' = [attempts EXCEPT ![p] = [v |-> v, n |-> total]]
      <4>1. attempts'[p] = [v |-> v, n |-> total]  BY <3>1 DEF TypeOK
      <4>2. FailureCount(p, file[p])' = total  BY <1>7, <2>6, <4>1 DEF FailureCount
      <4> HIDE DEF total
      <4> QED BY <1>2, <1>3, <1>7, <2>2, <2>5, <4>2, Numbers DEF InBudget
    <3>2. CASE attempts' = attempts /\ faults' = faults + 1
      <4>1. FailureCount(p, file[p])' = FailureCount(p, file[p])
        BY <2>6, <3>2 DEF FailureCount
      <4>2. Forgotten + MaxFailures <= Forgotten'  BY <2>5, <3>2, Numbers
      <4> QED BY <1>2, <2>2, <2>5, <4>1, <4>2, Numbers DEF InBudget
    <3> QED BY <2>1, <3>1, <3>2
  <2>11. Budgeted(p)'
    BY <1>2, <1>4, <1>7, <2>6, <2>8, <2>10 DEF Budgeted, IdleLane, Idle
  <2>12. Forward(p)  BY <2>6, Numbers DEF Forward
  <2> QED BY <2>5, <2>7, <2>9, <2>11, <2>12 DEF Step, Sound
<1> QED BY <1>6, <1>7

\* The result is stored under the version the lane started from, which it still was
\* when the lane looked again.
LEMMA CommitStep ==
    ASSUME TypeOK, TypeOK', RInv, WalkAlone, NEW p \in Paths, LaneCommit(p)
    PROVE  Step(p)
<1>0. Sound(p) /\ QueueTyped /\ ~Idle(p) /\ lane[p].pc = "commit"
  BY TypeParts DEF RInv, LaneCommit, Idle
<1>1. UNCHANGED <<rest, failed, bounds, outages>>  BY DEF LaneCommit, bounds
<1>2. file' = file /\ made' = made /\ failed' = failed  BY <1>1 DEF rest, disk
<1>3. /\ InBudget(p) /\ p \in deferred
      /\ lane[p].v <= made /\ (file[p] # 0 => lane[p].v <= file[p]) /\ doc[p].v <= lane[p].v
      /\ p \in Images => lane[p].bytes = lane[p].v
  BY <1>0, Counted DEF Sound, Carried, Idle
<1>4. CASE DeferPath(p, 1) /\ LaneEnds(p) /\ UNCHANGED results
  BY <1>0, <1>1, <1>4, BackStep, Numbers
<1>5. CASE /\ p \in MetadataOnly /\ MetadataReplaced(p, lane[p].v) /\ LaneEnds(p)
           /\ UNCHANGED <<deferred, undurable, flags, faults>>
  <2>1. lane'[p] = IdleLane /\ OthersRest(p)  BY <1>5 DEF LaneEnds, OthersRest, TypeOK
  <2>2. /\ doc'[p].v = lane[p].v /\ pendingOcr' \subseteq pendingOcr
        /\ \A q \in Paths \ {p} :
              doc'[q] = doc[q] /\ empty'[q] = empty[q] /\ attempts'[q] = attempts[q]
    BY <1>5 DEF MetadataReplaced, Replaced, TypeOK, Fingerprint
  <2>3. OnLane(p)
    BY <1>0, <1>1, <1>5, <2>1, <2>2, Numbers DEF OnLane, WalkAlone, rest, disk, thread, bounds
  <2>4. /\ Apart(p) /\ made <= made' /\ Forgotten \in Nat /\ Forgotten' \in Nat
        /\ Forgotten <= Forgotten'
    BY <2>3, LaneApart
  <2>5. p \notin Images /\ failed[p] = 0
    BY <1>0, <1>5, PathsAssumption DEF Sound, Budgeted
  <2>6. Recorded(p)'  BY <1>0, <1>2, <1>3, <2>2, <2>5 DEF Sound, Recorded
  <2>7. Carried(p)'  BY <1>2, <2>1, Numbers DEF Carried, IdleLane, Idle
  <2>8. Budgeted(p)'
    <3>1. FailureCount(p, file[p])' \in Nat
      <4>1. attempts'[p].n \in 0 .. MaxFailures  BY DEF TypeOK
      <4> QED BY <4>1, OcrBoundsAssumption DEF FailureCount
    <3>2. InBudget(p)'  BY <1>2, <2>4, <2>5, <3>1 DEF InBudget
    <3> QED BY <1>2, <2>1, <2>5, <3>2 DEF Budgeted, IdleLane, Idle
  <2>9. Forward(p)  BY <1>3, <2>2, Numbers DEF Forward
  <2> QED BY <2>4, <2>6, <2>7, <2>8, <2>9 DEF Step, Sound
<1>6. CASE /\ Replaced(p, lane[p].v, lane[p].bytes) /\ Settled(p) /\ LaneTo(p, "forget")
           /\ UNCHANGED <<deferred, undurable, flags, faults>>
  <2>1. /\ lane'[p].pc = "forget" /\ lane'[p].v = lane[p].v /\ lane'[p].bytes = lane[p].bytes
        /\ OthersRest(p)
    BY <1>6 DEF OthersRest, LaneTo, TypeOK
  <2>2. /\ doc'[p] = [v |-> lane[p].v, bytes |-> lane[p].bytes]
        /\ empty'[p] = empty[p] \/ empty'[p] = None
        /\ attempts'[p] = (IF attempts[p].v = lane[p].v THEN NoAttempts ELSE attempts[p])
        /\ pendingOcr' = pendingOcr \ {p}
        /\ \A q \in Paths \ {p} :
              doc'[q] = doc[q] /\ empty'[q] = empty[q] /\ attempts'[q] = attempts[q]
    BY <1>6 DEF Replaced, Settled, TypeOK
  <2>3. OnLane(p)
    BY <1>0, <1>1, <1>6, <2>1, <2>2, Numbers DEF OnLane, WalkAlone, rest, disk, thread, bounds
  <2>4. /\ Apart(p) /\ made <= made' /\ Forgotten \in Nat /\ Forgotten' \in Nat
        /\ Forgotten <= Forgotten'
    BY <2>3, LaneApart
  <2>5. Recorded(p)'
    <3>1. doc'[p].v = lane[p].v /\ doc'[p].bytes = lane[p].bytes  BY <2>2
    <3>2. p \in Images => empty'[p].v = empty'[p].bytes
      BY <1>0, <2>2 DEF Sound, Recorded, None
    <3>3. file[p] <= made  BY <1>0 DEF Sound, Recorded
    <3> QED BY <1>2, <1>3, <3>1, <3>2, <3>3 DEF Recorded
  <2>6. Carried(p)'
    <3>1. doc'[p].v = lane'[p].v  BY <2>1, <2>2
    <3> QED BY <1>0, <1>2, <2>1, <3>1, Numbers DEF Sound, Carried, Idle
  <2>7. InBudget(p)' \/ Finished(p)'
    <3>1. CASE file[p] = lane[p].v
      <4>1. failed[p] <= MaxFailures + Forgotten  BY <1>3, <2>4, Numbers DEF InBudget
      <4>2. failed'[p] <= MaxFailures + Forgotten'  BY <1>2, <2>4, <4>1, Numbers
      <4> QED BY <1>2, <2>1, <2>2, <3>1, <4>2 DEF Finished
    <3>2. CASE file[p] # lane[p].v
      <4>1. FailureCount(p, file[p])' = FailureCount(p, file[p]) \/ FailureCount(p, file[p]) = 0
        BY <1>2, <2>2, <3>2 DEF FailureCount
      <4>2. FailureCount(p, file[p])' \in Nat
        <5>1. attempts'[p].n \in 0 .. MaxFailures  BY DEF TypeOK
        <5> QED BY <5>1, OcrBoundsAssumption DEF FailureCount
      <4> QED BY <1>2, <1>3, <2>4, <4>1, <4>2, Numbers DEF InBudget
    <3> QED BY <3>1, <3>2
  <2>8. Budgeted(p)'  BY <1>0, <1>2, <1>3, <1>6, <2>1, <2>7 DEF Sound, Budgeted
  <2>9. Forward(p)  BY <1>3, <2>2, Numbers DEF Forward
  <2> QED BY <2>4, <2>5, <2>6, <2>8, <2>9 DEF Step, Sound
<1> QED BY <1>4, <1>5, <1>6 DEF LaneCommit

\* An empty result is recorded for the version that was looked at.
LEMMA EmptyCommitStep ==
    ASSUME TypeOK, TypeOK', RInv, WalkAlone, NEW p \in Paths, LaneEmptyCommit(p)
    PROVE  Step(p)
<1>0. Sound(p) /\ ~Idle(p) /\ lane[p].pc = "emptyCommit"
  BY DEF RInv, LaneEmptyCommit, Idle
<1>1. UNCHANGED <<rest, failed, bounds, outages>>  BY DEF LaneEmptyCommit, bounds
<1>2. file' = file /\ made' = made /\ failed' = failed  BY <1>1 DEF rest, disk
<1>3. InBudget(p) /\ p \in deferred /\ p \in Images /\ lane[p].bytes = lane[p].v
  BY <1>0, Counted DEF Sound, Budgeted, Carried
<1>4. CASE DeferPath(p, 1) /\ LaneEnds(p) /\ UNCHANGED results
  BY <1>0, <1>1, <1>4, BackStep, Numbers
<1>5. CASE /\ RemovedEmpty(p, lane[p].v, lane[p].bytes) /\ Settled(p) /\ LaneTo(p, "forget")
           /\ UNCHANGED <<deferred, undurable, flags, faults>>
  <2>1. /\ lane'[p].pc = "forget" /\ lane'[p].v = lane[p].v /\ lane'[p].bytes = lane[p].bytes
        /\ OthersRest(p)
    BY <1>5 DEF OthersRest, LaneTo, TypeOK
  <2>2. /\ doc'[p] = None /\ attempts' = attempts /\ pendingOcr' \subseteq pendingOcr
        /\ empty'[p] = empty[p] \/ empty'[p] = [v |-> lane[p].v, bytes |-> lane[p].bytes]
        /\ \A q \in Paths \ {p} : doc'[q] = doc[q] /\ empty'[q] = empty[q]
    BY <1>5 DEF RemovedEmpty, Settled, TypeOK
  <2>3. OnLane(p)
    BY <1>0, <1>1, <1>5, <2>1, <2>2, Numbers DEF OnLane, WalkAlone, rest, disk, thread, bounds
  <2>4. /\ Apart(p) /\ made <= made' /\ Forgotten \in Nat /\ Forgotten' \in Nat
        /\ Forgotten <= Forgotten'
    BY <2>3, LaneApart
  <2>5. Recorded(p)'
    <3>1. empty'[p].v = empty'[p].bytes  BY <1>0, <1>3, <2>2 DEF Sound, Recorded
    <3> QED BY <1>0, <1>2, <2>2, <3>1, Numbers DEF Sound, Recorded, None
  <2>6. Carried(p)'  BY <1>0, <1>2, <2>1, <2>2, Numbers DEF Sound, Carried, None, Idle
  <2>7. FailureCount(p, file[p])' = FailureCount(p, file[p])  BY <1>2, <2>2 DEF FailureCount
  <2>8. InBudget(p)'  BY <1>2, <1>3, <2>4, <2>7, Numbers DEF InBudget
  <2>9. Budgeted(p)'  BY <1>0, <1>2, <1>3, <1>5, <2>1, <2>8 DEF Sound, Budgeted
  <2>10. Forward(p)  BY <2>2 DEF Forward, None
  <2> QED BY <2>4, <2>5, <2>6, <2>9, <2>10 DEF Step, Sound
<1> QED BY <1>4, <1>5 DEF LaneEmptyCommit

\* A stored result leaves the queue, or one more fault keeps it there.
LEMMA ForgetStep ==
    ASSUME TypeOK, TypeOK', RInv, WalkAlone, NEW p \in Paths, LaneForget(p)
    PROVE  Step(p)
<1>0. Sound(p) /\ QueueTyped /\ ~Idle(p) /\ lane[p].pc = "forget"
  BY TypeParts DEF RInv, LaneForget, Idle
<1>1. UNCHANGED <<file, made, pc, todo, seen, doc, empty, attempts, failed, outages>>
  BY DEF LaneForget, rest, disk, thread, results, bounds
<1>2. lane'[p] = IdleLane /\ OthersRest(p)  BY DEF LaneForget, LaneEnds, OthersRest, TypeOK
<1>3. /\ deferred' \subseteq deferred /\ deferred \subseteq deferred' \cup {p}
      /\ faults <= faults' /\ (p \in deferred' => faults < faults')
      /\ pendingOcr' \subseteq pendingOcr
  BY <1>0, ForgetReach DEF LaneForget, ForgetDeferred
<1>4. OnLane(p)  BY <1>0, <1>1, <1>2, <1>3, Numbers DEF OnLane, WalkAlone
<1>5. /\ Apart(p) /\ made <= made' /\ Forgotten \in Nat /\ Forgotten' \in Nat
      /\ Forgotten <= Forgotten'
      /\ faults < faults' => Forgotten + MaxFailures <= Forgotten'
  BY <1>4, LaneApart
<1>6. Recorded(p)'  BY <1>0, <1>1 DEF Sound, Recorded
<1>7. Carried(p)'  BY <1>1, <1>2, Numbers DEF Carried, IdleLane, Idle
<1>8. InBudget(p)' \/ Finished(p)'
  <2>1. FailureCount(p, file[p])' = FailureCount(p, file[p])  BY <1>1 DEF FailureCount
  <2>2. CASE InBudget(p)  BY <1>1, <1>5, <2>1, <2>2, Numbers DEF InBudget
  <2>3. CASE Finished(p) /\ p \in deferred'
    BY <1>1, <1>3, <1>5, <2>1, <2>3, Numbers DEF InBudget, Finished
  <2>4. CASE Finished(p) /\ p \notin deferred'
    <3>1. failed'[p] <= MaxFailures + Forgotten'  BY <1>1, <1>5, <2>4, Numbers DEF Finished
    <3>2. pc' # "walk"  BY <1>0, <1>1 DEF WalkAlone
    <3> QED BY <1>1, <1>3, <2>4, <3>1, <3>2 DEF Finished
  <2> QED BY <1>0, <2>2, <2>3, <2>4 DEF Sound, Budgeted
<1>9. Budgeted(p)'  BY <1>0, <1>1, <1>2, <1>8 DEF Sound, Budgeted, IdleLane, Idle
<1>10. Forward(p)  BY <1>1, Numbers DEF Forward
<1> QED BY <1>5, <1>6, <1>7, <1>9, <1>10 DEF Step, Sound

-----------------------------------------------------------------------------
\* The whole thread: batches are taken or dropped, a walk starts or ends, a latch is
\* cleared, the process restarts.
LEMMA ThreadSteps ==
    ASSUME IInv, TypeOK', RInv,
           ThreadStep \/ BatchDropped \/ RebuildFallsDue \/ Restart
    PROVE  RInv' /\ \A p \in Paths : Forward(p)
<1> SUFFICES ASSUME NEW p \in Paths PROVE Sound(p)' /\ Forward(p)
  BY DEF RInv
<1>0. TypeOK /\ WalkAlone /\ Sound(p)  BY DEF IInv, RInv
<1>1. faults \in Nat /\ outages \in Nat  BY <1>0, Numbers
<1>2. CASE TakeBatch \/ BatchDropped \/ RebuildFallsDue \/ ClearOverflow
  <2>1. /\ UNCHANGED <<disk, results, failed, lane, deferred, pendingOcr, outages>>
        /\ faults <= faults'
        /\ pc' # "walk" \/ UNCHANGED <<pc, todo, seen>>
    BY <1>1, <1>2
       DEF TakeBatch, BatchDropped, RebuildFallsDue, ClearOverflow, queue, bounds, thread
  <2> QED BY <1>0, <1>1, <2>1, OtherStep DEF results
<1>3. CASE RebuildStart
  <2>1. /\ UNCHANGED <<disk, results, failed, lane, deferred, pendingOcr, outages, faults>>
        /\ p \in todo'
    BY <1>3 DEF RebuildStart, queue, bounds
  <2> QED BY <1>0, <1>1, <2>1, OtherStep DEF results
<1>4. CASE WalkDone
  <2>1. /\ UNCHANGED <<disk, empty, attempts, failed, lane, deferred, pendingOcr, outages>>
        /\ pc = "walk" /\ todo = {} /\ pc' = "loop" /\ Idle(p)'
    BY <1>0, <1>4 DEF WalkDone, bounds, WalkAlone, Idle
  <2>2. faults <= faults'
    <3>1. PICK pruned \in BOOLEAN, marked \in BOOLEAN :
            faults' = faults + Fault(pruned)
                      + (IF pruned /\ Drained /\ ~loadFailed THEN Fault(marked) ELSE 0)
      BY <1>4 DEF WalkDone
    <3>2. Fault(pruned) \in Nat /\ Fault(marked) \in Nat  BY DEF Fault
    <3> QED BY <1>1, <3>1, <3>2
  <2>3. doc' = doc \/ doc' = [q \in Paths |-> IF q \in seen THEN doc[q] ELSE None]
    BY <1>4 DEF WalkDone
  <2>4. p \notin seen => InBudget(p)
    <3>1. p \notin seen => ~Finished(p)
      BY <1>0, <2>1 DEF Finished, WalkAlone, Idle
    <3> QED BY <1>0, <3>1 DEF Sound, Budgeted
  <2>5. doc' = doc \/ doc'[p] = doc[p] \/ (doc'[p] = None /\ Idle(p)' /\ InBudget(p))
    BY <2>1, <2>3, <2>4
  <2>6. outages <= outages'  BY <1>1, <2>1
  <2> QED BY <1>0, <2>1, <2>2, <2>5, <2>6, OtherStep
<1>5. CASE Restart
  <2>1. UNCHANGED <<disk, doc, empty, attempts, failed, pendingOcr, outages>>
    BY <1>5 DEF Restart, results
  <2>2. faults' = faults \/ faults' = faults + 1  BY <1>5, Zenon DEF Restart
  <2>3. faults <= faults' /\ outages <= outages'  BY <1>1, <2>1, <2>2
  <2>4. lane'[p] = IdleLane /\ deferred' \subseteq pendingOcr /\ (pc' # "walk" \/ p \in todo')
    BY <1>5 DEF Restart, Begins
  <2> QED BY <1>0, <1>1, <2>1, <2>3, <2>4, OtherStep
<1> QED BY <1>2, <1>3, <1>4, <1>5 DEF ThreadStep

\* Every step keeps what is known of each path, and takes no document back.
LEMMA RecordsKeep ==
    ASSUME IInv, IInv', RInv, [Next]_vars
    PROVE  RInv' /\ \A p \in Paths : Forward(p)
<1>0. TypeOK /\ TypeOK' /\ WalkAlone  BY DEF IInv
<1>1. CASE ThreadStep \/ BatchDropped \/ RebuildFallsDue \/ Restart
  BY <1>0, <1>1, ThreadSteps
<1>2. ASSUME NEW p \in Paths,
             PathStep(p) \/ LaneStep(p) \/ LaneOutage(p) \/ LaneLost(p) \/ FileWrite(p) \/ FileDelete(p)
      PROVE  RInv' /\ \A q \in Paths : Forward(q)
  <2>1. CASE ReconcilePath(p)
    <3>1. CASE Idle(p)  BY <1>0, <2>1, <3>1, ReconcileStep, StepKeeps
    <3>2. CASE ~Idle(p)
      <4>1. /\ UNCHANGED <<disk, results, failed, lane, deferred, pendingOcr, outages, faults>>
            /\ pc' # "walk"
        BY <2>1, <3>2
           DEF ReconcilePath, ReconcileInFlight, ReconcileGone, ReconcileDocument,
               ReconcileEmpty, ReconcileOversize, ReconcileRecognise, ReconcileRejected,
               BatchStep, queue, bounds
      <4>2. faults <= faults' /\ outages <= outages'
        BY <1>0, <4>1, OcrBoundsAssumption DEF TypeOK
      <4>3. ASSUME NEW q \in Paths PROVE Sound(q)' /\ Forward(q)
        BY <1>0, <4>1, <4>2, OtherStep DEF results
      <4> QED BY <4>3 DEF RInv
    <3> QED BY <3>1, <3>2
  <2>2. CASE WalkPath(p) \/ WalkFails(p)
    <3>1. Idle(p)
      BY <1>0, <2>2 DEF WalkPath, WalkGone, WalkDocument, WalkEmpty, WalkOversize,
                       WalkRecognise, WalkFails, WalkStep, WalkAlone
    <3> QED BY <1>0, <2>2, <3>1, WalkPathStep, StepKeeps
  <2>3. CASE Dispatch(p)  BY <1>0, <2>3, DispatchStep, StepKeeps
  <2>4. CASE Cleanup(p)  BY <1>0, <2>4, CleanupStep, StepKeeps
  <2>5. CASE LaneStep(p)
    BY <1>0, <2>5, GoneStep, StatStep, ExtractStep, SendStep, LooksStep, FailedStep, CommitStep,
       EmptyCommitStep, ForgetStep, StepKeeps DEF LaneStep
  <2>6. CASE LaneOutage(p) \/ LaneLost(p)  BY <1>0, <2>6, LostStep, StepKeeps
  <2>7. CASE FileWrite(p) \/ FileDelete(p)  BY <1>0, <2>7, FileStep, StepKeeps
  <2> QED BY <1>2, <2>1, <2>2, <2>3, <2>4, <2>5, <2>6, <2>7 DEF PathStep
<1>3. CASE UNCHANGED vars
  <2>1. /\ UNCHANGED <<disk, results, failed, lane, deferred, pendingOcr, outages, faults>>
        /\ UNCHANGED <<pc, todo, seen>>
    BY <1>3 DEF vars, thread, queue, bounds
  <2>2. faults <= faults' /\ outages <= outages'
    BY <1>0, <2>1, OcrBoundsAssumption DEF TypeOK
  <2>3. ASSUME NEW q \in Paths PROVE Sound(q)' /\ Forward(q)
    BY <1>0, <2>1, <2>2, OtherStep DEF results
  <2> QED BY <2>3 DEF RInv
<1> QED BY <1>1, <1>2, <1>3 DEF Next

LEMMA RecordsBegin ==
    ASSUME Init
    PROVE  RInv
<1> SUFFICES ASSUME NEW p \in Paths PROVE Sound(p)
  BY DEF RInv
<1>1. /\ file[p] \in {0, 1} /\ made = 1 /\ doc[p] = None /\ empty[p] = None
      /\ lane[p] = IdleLane /\ failed[p] = 0 /\ attempts[p] = NoAttempts
      /\ faults = 0 /\ outages = 0
  BY DEF Init
<1>2. Recorded(p) /\ Carried(p)  BY <1>1 DEF Recorded, Carried, None, IdleLane, Idle
<1>3. FailureCount(p, file[p]) = 0  BY <1>1 DEF FailureCount, NoAttempts
<1>4. Forgotten = 0  BY <1>1, OcrBoundsAssumption DEF Forgotten
<1>5. Budgeted(p)  BY <1>1, <1>3, <1>4 DEF Budgeted, InBudget, IdleLane, Idle
<1> QED BY <1>2, <1>5 DEF Sound

LEMMA RecordsHold == Spec => [](IInv /\ RInv)
<1>1. Init => RInv  BY RecordsBegin
<1>2. IInv /\ IInv' /\ RInv /\ [Next]_vars => RInv'  BY RecordsKeep
<1> QED BY <1>1, <1>2, OcrInvariance, PTL DEF Spec

\* retry_ocr_path reads the fingerprint before the bytes and once more after the
\* recognition: what is stored for a version, a document or an empty result, was
\* computed from the bytes of that version, however the file changes meanwhile.
THEOREM ResultIsOfItsVersionHolds == Spec => []ResultIsOfItsVersion
<1>1. RInv => ResultIsOfItsVersion
  BY DEF RInv, Sound, Recorded, ResultIsOfItsVersion, Paths
<1> QED BY <1>1, RecordsHold, PTL

\* extract_remote gives up a version after MaxFailures failed recognitions, across
\* restarts, queue overflows and walks; only a rejected SQLite operation or a lane
\* that is lost between its commit and its acknowledgement can renew the budget.
THEOREM RecognitionBudgetHolds == Spec => []RecognitionBudget
<1>1. TypeOK /\ RInv => RecognitionBudget
  <2> SUFFICES ASSUME TypeOK, RInv, NEW p \in Paths
               PROVE  failed[p] <= MaxFailures * (1 + faults + outages)
    BY DEF RecognitionBudget
  <2>1. faults \in Nat /\ outages \in Nat /\ MaxFailures \in Nat /\ failed[p] \in Nat
    BY Numbers
  <2>2. \A f, o \in Nat : MaxFailures * (1 + f + o) = MaxFailures + MaxFailures * (f + o)
    BY <2>1
  <2>3. Forgotten \in Nat
    <3>1. faults + outages \in Nat  BY <2>1
    <3> QED BY <2>1, <3>1, Times DEF Forgotten
  <2>4. failed[p] <= MaxFailures + Forgotten
    BY <2>1, <2>3, Numbers DEF RInv, Sound, Budgeted, InBudget, Finished
  <2> QED BY <2>1, <2>2, <2>4 DEF Forgotten
<1>2. IInv => TypeOK  BY DEF IInv
<1> QED BY <1>1, <1>2, RecordsHold, PTL

\* Batches, walks and lanes interleave, and a lane may commit long after it read its
\* file: still the document of a path is only ever replaced by one that is not older,
\* or removed.
THEOREM NoRegressionHolds == Spec => NoRegression
<1>1. IInv /\ IInv' /\ RInv /\ [Next]_vars
        => [\A p \in Paths : doc'[p].v = 0 \/ doc'[p].v >= doc[p].v]_doc
  BY RecordsKeep DEF Forward
<1> QED BY <1>1, RecordsHold, PTL DEF Spec, NoRegression
=============================================================================
