--------------------------- MODULE ComputeWorker ---------------------------
(***************************************************************************)
(* The OCR worker of a host (src/src/compute.rs) behind its HTTP intake    *)
(* (src/src/server.rs).  A host runs one native inference at a time: a     *)
(* request takes the host's only permit, prepares its input, is admitted   *)
(* by the load of the host and the state of the GPU, and hands the permit  *)
(* to a blocking native job that outlives a waiter that went away.  The    *)
(* text of a job is retained for a retry of the same content.              *)
(*                                                                         *)
(* The module has no next-state relation: its actions are the worker's     *)
(* side of a call, joined with the client's side in MeshOcr.  Replied says *)
(* what the waiter of a call is told, which is nothing when it has gone.   *)
(***************************************************************************)
EXTENDS Integers, FiniteSets, SequencesExt, FiniteSetsExt

CONSTANTS
    Workers,       \* hosts with compute.enabled
    Cuda,          \* the workers whose execution_provider is "cuda", the others' is "cpu"
    Inputs,        \* contents that are to be recognised
    Large,         \* the inputs whose request body exceeds 2 MiB
    Slow,          \* the inputs whose inference outlives every waiter
    Calls,         \* names of requests that a worker is handling
    NoCall,
    RetainedCount, \* RETAINED_RESULT_COUNT
    RetainedBytes, \* RETAINED_RESULT_BYTES
    Weight         \* the size of the result of each input

Steps == {"prepare", "load", "observe", "probe", "probing", "queued", "native"}
Requests == [w : Workers, input : Inputs, dev : {"cpu", "cuda"}, step : Steps, waiting : BOOLEAN]

ASSUME WorkerAssumption ==
    /\ Cuda \subseteq Workers /\ Large \subseteq Inputs /\ Slow \subseteq Inputs
    /\ NoCall \notin Requests
    /\ RetainedCount \in Nat \ {0} /\ RetainedBytes \in Nat
    /\ Weight \in [Inputs -> Nat]

VARIABLES
    call,      \* the requests that are being handled, and the native jobs
    permits,   \* ComputeWorker.slots
    intake,    \* ComputeWorker.intake_slots
    loadLock,  \* who holds ComputeWorker.load: "free", "poll" or "job"
    probeLock, \* who holds ComputeWorker.probe_lock, likewise
    retained,  \* RetainedResults.rows, oldest first: input and device
    bytes      \* RetainedResults.bytes

worker == <<call, permits, intake, loadLock, probeLock, retained, bytes>>

Devices(w) == IF w \in Cuda THEN {"cpu", "cuda"} ELSE {"cpu"}
Keys == Inputs \X {"cpu", "cuda"}    \* device_content_key

OnWorker(w) == {k \in Calls : call[k] # NoCall /\ call[k].w = w}
AtStep(k, step) == call[k] # NoCall /\ call[k].step = step
Key(k) == <<call[k].input, call[k].dev>>

WorkerInit ==
    /\ call = [k \in Calls |-> NoCall]
    /\ permits = [w \in Workers |-> 1] /\ intake = [w \in Workers |-> 1]
    /\ loadLock = [w \in Workers |-> "free"] /\ probeLock = [w \in Workers |-> "free"]
    /\ retained = [w \in Workers |-> <<>>] /\ bytes = [w \in Workers |-> 0]

-----------------------------------------------------------------------------
(* RetainedResults.                                                        *)

\* The size of the rows, each of which has a key of its own, counted byte by byte.
Total(rows) == Cardinality(UNION {{row} \X (1 .. Weight[row[1]]) : row \in Range(rows)})

\* A result of that size has room once the m oldest rows are gone.
Fits(rows, size, new, m) ==
    /\ Len(rows) - m < RetainedCount
    /\ size - Total(SubSeq(rows, 1, m)) + new <= RetainedBytes

\* The number of rows that insert pops from the front to make room.
Evictions(rows, size, new) == Min({m \in 0 .. Len(rows) : Fits(rows, size, new, m)})

\* RetainedResults::insert; an oversized result is not kept.
Inserted(rows, size, key) ==
    LET new == Weight[key[1]]
        kept == RemoveFirst(rows, key)
        left == IF Contains(rows, key) THEN size - new ELSE size
        n == Evictions(kept, left, new)
    IN IF new > RetainedBytes THEN [rows |-> rows, bytes |-> size]
       ELSE [rows |-> Append(SubSeq(kept, n + 1, Len(kept)), key),
             bytes |-> left - Total(SubSeq(kept, 1, n)) + new]

\* RetainedResults::prune, when the oldest row has reached its age.
RetainedExpires(w) ==
    /\ retained[w] # <<>>
    /\ bytes' = [bytes EXCEPT ![w] = @ - Weight[Head(retained[w])[1]]]
    /\ retained' = [retained EXCEPT ![w] = Tail(@)]
    /\ UNCHANGED <<call, permits, intake, loadLock, probeLock>>

-----------------------------------------------------------------------------
(* The life of a request.                                                  *)

\* guard_request_intake and the slot of extract.
IntakeBusy(w, i) == i \in Large /\ intake[w] = 0
Accepts(w, i) == ~IntakeBusy(w, i) /\ permits[w] > 0

Accept(k, w, i, d) ==
    /\ call[k] = NoCall /\ Accepts(w, i)
    /\ permits' = [permits EXCEPT ![w] = @ - 1]
    /\ intake' = [intake EXCEPT ![w] = IF i \in Large THEN @ - 1 ELSE @]
    /\ call' = [call EXCEPT ![k] = [w |-> w, input |-> i, dev |-> d, step |-> "prepare",
                                    waiting |-> TRUE]]
    /\ UNCHANGED <<loadLock, probeLock, retained, bytes>>

\* The handler of k returns, or is dropped: a waiter's intake permit goes with it.
IntakeFreed(k) ==
    intake' = [intake EXCEPT ![call[k].w] =
                  IF call[k].waiting /\ call[k].input \in Large THEN @ + 1 ELSE @]

\* The request is over, and with it its hold on the slot.
Finished(k) ==
    /\ call' = [call EXCEPT ![k] = NoCall]
    /\ permits' = [permits EXCEPT ![call[k].w] = @ + 1]
    /\ IntakeFreed(k)

StepTo(k, step) ==
    /\ call' = [call EXCEPT ![k].step = step]
    /\ UNCHANGED <<permits, intake>>

LoadLockTo(k, holder) == loadLock' = [loadLock EXCEPT ![call[k].w] = holder]
ProbeLockTo(k, holder) == probeLock' = [probeLock EXCEPT ![call[k].w] = holder]

\* The blocking preparation ends.  It owns the permit although its waiter may
\* have gone; a retained result answers before any admission.
PreparedHit(k) ==
    /\ AtStep(k, "prepare") /\ call[k].waiting
    /\ Contains(retained[call[k].w], Key(k))
    /\ Finished(k)
    /\ UNCHANGED <<loadLock, probeLock, retained, bytes>>

\* Mutant: the retained results are not consulted.
MutPreparedMiss(k) ==
    /\ AtStep(k, "prepare") /\ call[k].waiting
    /\ StepTo(k, "load")
    /\ UNCHANGED <<loadLock, probeLock, retained, bytes>>

PreparedMiss(k) ==
    /\ AtStep(k, "prepare") /\ call[k].waiting
    /\ ~Contains(retained[call[k].w], Key(k))
    /\ StepTo(k, "load")
    /\ UNCHANGED <<loadLock, probeLock, retained, bytes>>

\* Mutant: the permit of a preparation that nobody waits for is not returned.
MutPreparedForNobody(k) ==
    /\ AtStep(k, "prepare") /\ ~call[k].waiting
    /\ call' = [call EXCEPT ![k] = NoCall]
    /\ UNCHANGED <<permits, intake, loadLock, probeLock, retained, bytes>>

PreparedForNobody(k) ==
    /\ AtStep(k, "prepare") /\ ~call[k].waiting
    /\ Finished(k)
    /\ UNCHANGED <<loadLock, probeLock, retained, bytes>>

\* host_load: the observation of another request is not waited for.
LoadLocked(k) ==
    /\ AtStep(k, "load") /\ loadLock[call[k].w] # "free"
    /\ Finished(k)
    /\ UNCHANGED <<loadLock, probeLock, retained, bytes>>

ObserveLoad(k) ==
    /\ AtStep(k, "load") /\ loadLock[call[k].w] = "free"
    /\ LoadLockTo(k, "job")
    /\ StepTo(k, "observe")
    /\ UNCHANGED <<probeLock, retained, bytes>>

\* Where an admitted request goes next.
Admitted(k) == StepTo(k, IF call[k].dev = "cuda" THEN "probe" ELSE "queued")

LoadObserved(k) ==
    /\ AtStep(k, "observe")
    /\ LoadLockTo(k, "free")
    /\ Admitted(k)
    /\ UNCHANGED <<probeLock, retained, bytes>>

\* The host is busy, or its load could not be observed.
LoadRejects(k) ==
    /\ AtStep(k, "observe")
    /\ LoadLockTo(k, "free")
    /\ Finished(k)
    /\ UNCHANGED <<probeLock, retained, bytes>>

\* probe_gpu(true) waits for a status poll, for three seconds.
ProbeGpu(k) ==
    /\ AtStep(k, "probe") /\ probeLock[call[k].w] = "free"
    /\ ProbeLockTo(k, "job")
    /\ StepTo(k, "probing")
    /\ UNCHANGED <<loadLock, retained, bytes>>

GpuProbed(k) ==
    /\ AtStep(k, "probing")
    /\ ProbeLockTo(k, "free")
    /\ StepTo(k, "queued")
    /\ UNCHANGED <<loadLock, retained, bytes>>

\* gpu_admission is not "available", or the probe failed.
GpuRejects(k) ==
    /\ AtStep(k, "probing")
    /\ ProbeLockTo(k, "free")
    /\ Finished(k)
    /\ UNCHANGED <<loadLock, retained, bytes>>

\* The blocking job starts, and its budget may be over by then.
NativeStarts(k) ==
    /\ AtStep(k, "queued")
    /\ StepTo(k, "native")
    /\ UNCHANGED <<loadLock, probeLock, retained, bytes>>

NativeTooLate(k) ==
    /\ AtStep(k, "queued")
    /\ Finished(k)
    /\ UNCHANGED <<loadLock, probeLock, retained, bytes>>

\* A slow inference ends after its last waiter has gone, and with text.
NativeEnds(k) ==
    /\ AtStep(k, "native")
    /\ call[k].input \in Slow => ~call[k].waiting
    /\ Finished(k)
    /\ UNCHANGED <<loadLock, probeLock>>

\* Mutant: the text is retained only for a waiter.
MutNativeText(k) ==
    /\ NativeEnds(k)
    /\ LET w == call[k].w
           cache == Inserted(retained[w], bytes[w], Key(k))
       IN /\ retained' = [retained EXCEPT ![w] = IF call[k].waiting THEN cache.rows ELSE @]
          /\ bytes' = [bytes EXCEPT ![w] = IF call[k].waiting THEN cache.bytes ELSE @]

\* The text is retained whether or not somebody still waits for it.
NativeText(k) ==
    /\ NativeEnds(k)
    /\ LET w == call[k].w
           cache == Inserted(retained[w], bytes[w], Key(k))
       IN /\ retained' = [retained EXCEPT ![w] = cache.rows]
          /\ bytes' = [bytes EXCEPT ![w] = cache.bytes]

NativeFails(k) == NativeEnds(k) /\ call[k].input \notin Slow /\ UNCHANGED <<retained, bytes>>

\* Mutant: the permit belongs to the waiting request.
MutWaiterGoes(k) ==
    /\ call[k] # NoCall /\ call[k].waiting
    /\ IntakeFreed(k)
    /\ call' = [call EXCEPT ![k].waiting = FALSE]
    /\ permits' = [permits EXCEPT ![call[k].w] = @ + 1]
    /\ UNCHANGED <<loadLock, probeLock, retained, bytes>>

\* The waiter disconnects or its time is over.  What runs in the handler is
\* dropped with its locks and its permit; a blocking task goes on and keeps it.
WaiterGoes(k) ==
    /\ call[k] # NoCall /\ call[k].waiting
    /\ IF call[k].step \in {"prepare", "queued", "native"}
       THEN /\ call' = [call EXCEPT ![k].waiting = FALSE]
            /\ IntakeFreed(k)
            /\ UNCHANGED <<permits, loadLock, probeLock>>
       ELSE /\ Finished(k)
            /\ IF call[k].step = "observe" THEN LoadLockTo(k, "free") ELSE UNCHANGED loadLock
            /\ IF call[k].step = "probing" THEN ProbeLockTo(k, "free") ELSE UNCHANGED probeLock
    /\ UNCHANGED <<retained, bytes>>

\* compute_status holds each lock while it looks, and never waits for one.
PollLoad(w) ==
    /\ loadLock[w] = "free"
    /\ loadLock' = [loadLock EXCEPT ![w] = "poll"]
    /\ UNCHANGED <<call, permits, intake, probeLock, retained, bytes>>
PollLoadEnds(w) ==
    /\ loadLock[w] = "poll"
    /\ loadLock' = [loadLock EXCEPT ![w] = "free"]
    /\ UNCHANGED <<call, permits, intake, probeLock, retained, bytes>>
PollProbe(w) ==
    /\ w \in Cuda /\ probeLock[w] = "free"
    /\ probeLock' = [probeLock EXCEPT ![w] = "poll"]
    /\ UNCHANGED <<call, permits, intake, loadLock, retained, bytes>>
PollProbeEnds(w) ==
    /\ probeLock[w] = "poll"
    /\ probeLock' = [probeLock EXCEPT ![w] = "free"]
    /\ UNCHANGED <<call, permits, intake, loadLock, retained, bytes>>

-----------------------------------------------------------------------------
(* Properties.                                                             *)

SlotTypes ==
    /\ call \in [Calls -> {NoCall} \cup Requests]
    /\ permits \in [Workers -> 0 .. 1] /\ intake \in [Workers -> 0 .. 1]
    /\ loadLock \in [Workers -> {"free", "poll", "job"}]
    /\ probeLock \in [Workers -> {"free", "poll", "job"}]

\* The worker's part of the type invariant; both semaphores have one permit.
WorkerTypeOK ==
    /\ SlotTypes
    /\ \A w \in Workers : retained[w] \in Seq(Keys)
    /\ bytes \in [Workers -> Nat]

\* "One inference per worker": also while jobs whose waiters have gone still run.
OneInference ==
    \A j, k \in Calls :
        AtStep(j, "native") /\ AtStep(k, "native") /\ call[j].w = call[k].w => j = k

\* However a request ends (an answer, a rejection, a timeout, a waiter that goes
\* away at any of its steps, a restart), it leaves nothing behind: each slot and each
\* lock is taken exactly while the one request or job it belongs to is alive.
SlotsAt(w) ==
    /\ \A j, k \in OnWorker(w) : j = k
    /\ permits[w] = IF OnWorker(w) = {} THEN 1 ELSE 0
    /\ intake[w] = IF \E k \in OnWorker(w) : call[k].waiting /\ call[k].input \in Large
                   THEN 0 ELSE 1
    /\ loadLock[w] = "job" <=> \E k \in OnWorker(w) : call[k].step = "observe"
    /\ probeLock[w] = "job" <=> \E k \in OnWorker(w) : call[k].step = "probing"
SlotsExact == \A w \in Workers : SlotsAt(w)

\* No content is recognised again on a device of a worker that still retains its text.
NoRepeatedInference ==
    \A k \in Calls : AtStep(k, "native") => ~Contains(retained[call[k].w], Key(k))

\* The cache accounts for its bytes and keeps within both of its limits.
RetainedWithinBudget ==
    \A w \in Workers :
        /\ bytes[w] = Total(retained[w]) /\ bytes[w] <= RetainedBytes
        /\ Len(retained[w]) <= RetainedCount /\ IsInjective(retained[w])
=============================================================================
