--------------------------- MODULE MeshOcrProofs ---------------------------
(***************************************************************************)
(* Proofs about MeshOcr.  The slots and locks of a worker are settled by   *)
(* the worker's own actions: every step of the system either leaves the    *)
(* worker alone or is one of them, so the invariant speaks of no client    *)
(* state.  It is inductive together with the types of the slots.  The      *)
(* claims of the clients are, in the same way, settled by their own steps. *)
(* What a worker retains rests on its slots: with one request at a time,   *)
(* nobody else is past the look into the retained results when a text is   *)
(* added to them.                                                          *)
(***************************************************************************)
EXTENDS MeshOcr, FiniteSetTheorems, WellFoundedInduction, TLAPS

SlotsInv == SlotTypes /\ SlotsExact

\* How a request ends: it gives back its slot, its intake permit and the lock that
\* its step holds.
Leaves(k) ==
    /\ Finished(k)
    /\ loadLock' = IF call[k].step = "observe" THEN [loadLock EXCEPT ![call[k].w] = "free"]
                   ELSE loadLock
    /\ probeLock' = IF call[k].step = "probing" THEN [probeLock EXCEPT ![call[k].w] = "free"]
                    ELSE probeLock

\* Whoever ends a request that way keeps the invariant.
LEMMA LeavesKeeps ==
    ASSUME SlotsInv, NEW k \in Calls, call[k] # NoCall, Leaves(k)
    PROVE  SlotsInv'
<1> DEFINE v == call[k].w
<1>1. /\ v \in Workers /\ k \in OnWorker(v)
      /\ permits[v] = 0
      /\ \A j \in OnWorker(v) : j = k
      BY WorkerAssumption DEF SlotsInv, SlotTypes, SlotsExact, SlotsAt, OnWorker, Requests
<1>2. /\ intake[v] = IF call[k].waiting /\ call[k].input \in Large THEN 0 ELSE 1
      BY <1>1 DEF SlotsInv, SlotsExact, SlotsAt
<1>3. SlotTypes'
      BY <1>1, <1>2 DEF SlotsInv, SlotTypes, Leaves, Finished, IntakeFreed
<1>4. ASSUME NEW w \in Workers PROVE SlotsAt(w)'
  <2>1. CASE w = v
    <3>1. OnWorker(w)' = {}
          BY <1>1, <2>1 DEF OnWorker, Leaves, Finished, SlotsInv, SlotTypes
    <3>2. permits'[w] = 1 /\ intake'[w] = 1
          BY <1>1, <1>2, <2>1 DEF Leaves, Finished, IntakeFreed, SlotsInv, SlotTypes
    <3>3. loadLock'[w] # "job" /\ probeLock'[w] # "job"
          BY <1>1, <2>1 DEF Leaves, SlotsInv, SlotTypes, SlotsExact, SlotsAt
    <3>4. QED BY <3>1, <3>2, <3>3 DEF SlotsAt
  <2>2. CASE w # v
    <3>1. /\ OnWorker(w)' = OnWorker(w)
          /\ \A j \in OnWorker(w) : call'[j] = call[j]
          BY <1>1, <2>2 DEF OnWorker, Leaves, Finished, SlotsInv, SlotTypes
    <3>2. /\ permits'[w] = permits[w] /\ intake'[w] = intake[w]
          /\ loadLock'[w] = loadLock[w] /\ probeLock'[w] = probeLock[w]
          BY <1>1, <2>2 DEF Leaves, Finished, IntakeFreed, SlotsInv, SlotTypes
    <3>3. SlotsAt(w) BY DEF SlotsInv, SlotsExact
    <3>4. QED BY <3>1, <3>2, <3>3 DEF SlotsAt
  <2>3. QED BY <2>1, <2>2
<1>5. QED BY <1>3, <1>4 DEF SlotsInv, SlotsExact

\* How a request goes on: it takes the lock of its new step and leaves that of the old.
Advances(k, step) ==
    /\ StepTo(k, step)
    /\ loadLock' = IF step = "observe" THEN [loadLock EXCEPT ![call[k].w] = "job"]
                   ELSE IF call[k].step = "observe" THEN [loadLock EXCEPT ![call[k].w] = "free"]
                   ELSE loadLock
    /\ probeLock' = IF step = "probing" THEN [probeLock EXCEPT ![call[k].w] = "job"]
                    ELSE IF call[k].step = "probing" THEN [probeLock EXCEPT ![call[k].w] = "free"]
                    ELSE probeLock

\* A request that goes on keeps the invariant.
LEMMA AdvancesKeeps ==
    ASSUME SlotsInv, NEW k \in Calls, call[k] # NoCall, NEW step \in Steps, Advances(k, step)
    PROVE  SlotsInv'
<1> DEFINE v == call[k].w
<1>1. /\ v \in Workers /\ k \in OnWorker(v)
      /\ \A j \in OnWorker(v) : j = k
      BY DEF SlotsInv, SlotTypes, SlotsExact, SlotsAt, OnWorker, Requests
<1>2. /\ call' = [call EXCEPT ![k].step = step]
      /\ call[k] \in Requests
      BY DEF SlotsInv, SlotTypes, Advances, StepTo
<1>3. call'[k] \in Requests /\ \A j \in Calls : j # k => call'[j] = call[j]
      BY <1>2 DEF SlotsInv, SlotTypes, Requests
<1>4. /\ call'[k].w = v /\ call'[k].step = step /\ call'[k] # NoCall
      /\ call'[k].waiting = call[k].waiting /\ call'[k].input = call[k].input
      BY <1>2, <1>3, WorkerAssumption DEF SlotsInv, SlotTypes, Requests
<1>5. SlotTypes'
  <2>1. call' \in [Calls -> {NoCall} \cup Requests]
        BY <1>2, <1>3 DEF SlotsInv, SlotTypes
  <2>2. QED BY <1>1, <2>1 DEF SlotsInv, SlotTypes, Advances, StepTo
<1>6. ASSUME NEW w \in Workers PROVE SlotsAt(w)'
  <2>1. OnWorker(w)' = OnWorker(w)
        BY <1>3, <1>4 DEF OnWorker
  <2>2. /\ permits'[w] = permits[w] /\ intake'[w] = intake[w]
        BY DEF Advances, StepTo
  <2>3. SlotsAt(w) BY DEF SlotsInv, SlotsExact
  <2>4. CASE w = v
    <3>1. /\ loadLock'[w] = "job" <=> step = "observe"
          /\ probeLock'[w] = "job" <=> step = "probing"
          BY <1>1, <2>3, <2>4 DEF Advances, SlotsInv, SlotTypes, SlotsAt
    <3>2. OnWorker(w) = {k} BY <1>1, <2>4
    <3>3. QED BY <1>4, <2>1, <2>2, <2>3, <3>1, <3>2 DEF SlotsAt
  <2>5. CASE w # v
    <3>1. loadLock'[w] = loadLock[w] /\ probeLock'[w] = probeLock[w]
          BY <1>1, <2>5 DEF Advances, SlotsInv, SlotTypes
    <3>2. \A j \in OnWorker(w) : call'[j] = call[j]
          BY <1>3, <2>5 DEF OnWorker
    <3>3. QED BY <2>1, <2>2, <2>3, <3>1, <3>2 DEF SlotsAt
  <2>6. QED BY <2>4, <2>5
<1>7. QED BY <1>5, <1>6 DEF SlotsInv, SlotsExact

\* A request that a worker accepts keeps the invariant: its slot and, for a large
\* body, the intake were free.
LEMMA AcceptKeeps ==
    ASSUME SlotsInv, NEW k \in Calls, NEW v \in Workers, NEW i \in Inputs, NEW d \in {"cpu", "cuda"},
           Accept(k, v, i, d)
    PROVE  SlotsInv'
<1> DEFINE req == [w |-> v, input |-> i, dev |-> d, step |-> "prepare", waiting |-> TRUE]
<1>1. /\ OnWorker(v) = {} /\ permits[v] = 1 /\ intake[v] = 1
  <2>1. permits[v] > 0 /\ SlotsAt(v) BY DEF SlotsInv, SlotsExact, Accept, Accepts
  <2>2. permits[v] = 1 /\ OnWorker(v) = {} BY <2>1 DEF SlotsAt
  <2>3. QED BY <2>1, <2>2 DEF SlotsAt
<1>2. /\ req \in Requests /\ req # NoCall
      /\ call[k] = NoCall /\ call' = [call EXCEPT ![k] = req]
  <2>1. req \in Requests BY DEF Requests, Steps
  <2>2. NoCall \notin Requests BY WorkerAssumption
  <2>3. QED BY <2>1, <2>2 DEF Accept
<1>3. SlotTypes'
      BY <1>1, <1>2 DEF SlotsInv, SlotTypes, Accept
<1>4. ASSUME NEW w \in Workers PROVE SlotsAt(w)'
  <2>1. SlotsAt(w) BY DEF SlotsInv, SlotsExact
  <2>2. CASE w = v
    <3>1. OnWorker(w)' = {k} /\ call'[k] = req
          BY <1>1, <1>2, <2>2 DEF OnWorker, SlotsInv, SlotTypes
    <3>2. /\ permits'[w] = 0 /\ intake'[w] = IF i \in Large THEN 0 ELSE 1
          /\ loadLock'[w] = loadLock[w] /\ probeLock'[w] = probeLock[w]
          BY <1>1, <2>2 DEF Accept, SlotsInv, SlotTypes
    <3>3. loadLock[w] # "job" /\ probeLock[w] # "job"
          BY <1>1, <2>1, <2>2 DEF SlotsAt
    <3>4. QED BY <3>1, <3>2, <3>3 DEF SlotsAt
  <2>3. CASE w # v
    <3>1. /\ OnWorker(w)' = OnWorker(w)
          /\ \A j \in OnWorker(w) : call'[j] = call[j]
          BY <1>2, <2>3 DEF OnWorker, SlotsInv, SlotTypes
    <3>2. /\ permits'[w] = permits[w] /\ intake'[w] = intake[w]
          /\ loadLock'[w] = loadLock[w] /\ probeLock'[w] = probeLock[w]
          BY <2>3 DEF Accept, SlotsInv, SlotTypes
    <3>3. QED BY <2>1, <3>1, <3>2 DEF SlotsAt
  <2>4. QED BY <2>2, <2>3
<1>5. QED BY <1>3, <1>4 DEF SlotsInv, SlotsExact
\* A waiter that goes away keeps the invariant: a blocking task keeps the slot, and
\* anything else ends.
LEMMA WaiterGoesKeeps ==
    ASSUME SlotsInv, NEW k \in Calls, WaiterGoes(k)
    PROVE  SlotsInv'
<1> DEFINE v == call[k].w
<1>1. call[k] # NoCall /\ call[k] \in Requests
      BY DEF SlotsInv, SlotTypes, WaiterGoes
<1>2. CASE call[k].step \notin {"prepare", "queued", "native"}
  <2>1. Leaves(k) BY <1>2 DEF WaiterGoes, Leaves, LoadLockTo, ProbeLockTo
  <2>2. QED BY <1>1, <2>1, LeavesKeeps
<1>3. CASE call[k].step \in {"prepare", "queued", "native"}
  <2>1. /\ v \in Workers /\ k \in OnWorker(v)
        /\ \A j \in OnWorker(v) : j = k
        BY <1>1 DEF SlotsInv, SlotTypes, SlotsExact, SlotsAt, OnWorker, Requests
  <2>2. /\ call' = [call EXCEPT ![k].waiting = FALSE]
        /\ call[k].waiting
        /\ permits' = permits /\ loadLock' = loadLock /\ probeLock' = probeLock
        /\ IntakeFreed(k)
        BY <1>3 DEF WaiterGoes
  <2>3. call'[k] \in Requests /\ \A j \in Calls : j # k => call'[j] = call[j]
        BY <1>1, <2>2 DEF SlotsInv, SlotTypes, Requests
  <2>4. NoCall \notin Requests BY WorkerAssumption
  <2>5. /\ call'[k].w = v /\ call'[k].step = call[k].step /\ call'[k] # NoCall
        /\ ~call'[k].waiting
        BY <1>1, <2>2, <2>3, <2>4 DEF SlotsInv, SlotTypes, Requests
  <2>6. intake[v] = IF call[k].input \in Large THEN 0 ELSE 1
        BY <2>1, <2>2 DEF SlotsInv, SlotsExact, SlotsAt
  <2>7. intake \in [Workers -> 0 .. 1] /\ intake' \in [Workers -> 0 .. 1] /\ intake'[v] = 1
        BY <2>1, <2>2, <2>6 DEF IntakeFreed, SlotsInv, SlotTypes
  <2>8. SlotTypes'
    <3>1. call' \in [Calls -> {NoCall} \cup Requests]
          BY <2>2, <2>3 DEF SlotsInv, SlotTypes
    <3>2. QED BY <3>1, <2>2, <2>7 DEF SlotsInv, SlotTypes
  <2>9. ASSUME NEW w \in Workers PROVE SlotsAt(w)'
    <3>1. OnWorker(w)' = OnWorker(w)
          BY <2>3, <2>5, <1>1 DEF OnWorker
    <3>2. SlotsAt(w) BY DEF SlotsInv, SlotsExact
    <3>3. CASE w = v
      <4>1. OnWorker(w) = {k} BY <2>1, <3>3
      <4>2. QED BY <2>2, <2>5, <2>7, <3>1, <3>2, <3>3, <4>1 DEF SlotsAt
    <3>4. CASE w # v
      <4>1. \A j \in OnWorker(w) : call'[j] = call[j]
            BY <2>3, <3>4 DEF OnWorker
      <4>2. intake'[w] = intake[w]
            BY <2>1, <2>2, <2>7, <3>4 DEF IntakeFreed
      <4>3. QED BY <2>2, <3>1, <3>2, <4>1, <4>2 DEF SlotsAt
    <3>5. QED BY <3>3, <3>4
  <2>10. QED BY <2>8, <2>9 DEF SlotsInv, SlotsExact
<1>4. QED BY <1>2, <1>3

\* A status poll takes a lock only when it is free and gives it back.
LEMMA PollKeeps ==
    ASSUME SlotsInv, NEW v \in Workers,
           PollLoad(v) \/ PollProbe(v) \/ PollLoadEnds(v) \/ PollProbeEnds(v)
    PROVE  SlotsInv'
<1>1. SlotTypes'
      BY DEF SlotsInv, SlotTypes, PollLoad, PollProbe, PollLoadEnds, PollProbeEnds
<1>2. ASSUME NEW w \in Workers PROVE SlotsAt(w)'
  <2>1. SlotsAt(w) BY DEF SlotsInv, SlotsExact
  <2>2. /\ call' = call /\ permits' = permits /\ intake' = intake
        /\ loadLock'[w] = "job" <=> loadLock[w] = "job"
        /\ probeLock'[w] = "job" <=> probeLock[w] = "job"
        BY DEF SlotsInv, SlotTypes, PollLoad, PollProbe, PollLoadEnds, PollProbeEnds
  <2>3. OnWorker(w)' = OnWorker(w) BY <2>2 DEF OnWorker
  <2>4. QED BY <2>1, <2>2, <2>3 DEF SlotsAt
<1>3. QED BY <1>1, <1>2 DEF SlotsInv, SlotsExact

\* A restart frees everything of one worker and touches no other.
LEMMA RestartKeeps ==
    ASSUME SlotsInv, NEW v \in Workers, WorkerRestart(v)
    PROVE  SlotsInv'
<1>1. call' = [k \in Calls |-> IF k \in OnWorker(v) THEN NoCall ELSE call[k]]
      BY DEF WorkerRestart
<1>2. SlotTypes'
  <2>1. call' \in [Calls -> {NoCall} \cup Requests]
        BY <1>1 DEF SlotsInv, SlotTypes
  <2>2. QED BY <2>1 DEF SlotsInv, SlotTypes, WorkerRestart
<1>3. ASSUME NEW w \in Workers PROVE SlotsAt(w)'
  <2>1. SlotsAt(w) BY DEF SlotsInv, SlotsExact
  <2>2. CASE w = v
    <3>1. OnWorker(w)' = {} BY <1>1, <2>2 DEF OnWorker
    <3>2. /\ permits'[w] = 1 /\ intake'[w] = 1
          /\ loadLock'[w] = "free" /\ probeLock'[w] = "free"
          BY <2>2 DEF WorkerRestart, SlotsInv, SlotTypes
    <3>3. QED BY <3>1, <3>2 DEF SlotsAt
  <2>3. CASE w # v
    <3>1. \A k \in OnWorker(w) : call'[k] = call[k]
          BY <1>1, <2>3 DEF OnWorker
    <3>2. OnWorker(w)' = OnWorker(w)
          BY <1>1, <2>3 DEF OnWorker
    <3>3. /\ permits'[w] = permits[w] /\ intake'[w] = intake[w]
          /\ loadLock'[w] = loadLock[w] /\ probeLock'[w] = probeLock[w]
          BY <2>3 DEF WorkerRestart, SlotsInv, SlotTypes
    <3>4. QED BY <2>1, <3>1, <3>2, <3>3 DEF SlotsAt
  <2>4. QED BY <2>2, <2>3
<1>4. QED BY <1>2, <1>3 DEF SlotsInv, SlotsExact
\* Nothing else of the state matters.
LEMMA SlotsDepend ==
    ASSUME SlotsInv, UNCHANGED <<call, permits, intake, loadLock, probeLock>>
    PROVE  SlotsInv'
BY DEF SlotsInv, SlotTypes, SlotsExact, SlotsAt, OnWorker

\* The steps of a request.
LEMMA WorkerStepKeeps ==
    ASSUME SlotsInv, NEW k \in Calls, WorkerStep(k)
    PROVE  SlotsInv'
<1> USE DEF AtStep
<1>1. CASE Proceed(k)
  <2>1. CASE PreparedForNobody(k)
    <3>1. call[k] # NoCall /\ Leaves(k) BY <2>1 DEF PreparedForNobody, Leaves
    <3>2. QED BY <3>1, LeavesKeeps
  <2>2. CASE \/ PreparedMiss(k) \/ ObserveLoad(k) \/ LoadObserved(k)
             \/ ProbeGpu(k) \/ GpuProbed(k) \/ NativeStarts(k)
    <3>1. call[k] # NoCall
          BY <2>2 DEF PreparedMiss, ObserveLoad, LoadObserved, ProbeGpu, GpuProbed, NativeStarts
    <3>2. \E step \in Steps : Advances(k, step)
      <4> USE DEF Advances, Steps
      <4>1. CASE PreparedMiss(k)
            BY <4>1 DEF PreparedMiss
      <4>2. CASE ObserveLoad(k)
            BY <4>2 DEF ObserveLoad, LoadLockTo
      <4>3. CASE LoadObserved(k)
            BY <4>3 DEF LoadObserved, Admitted, LoadLockTo
      <4>4. CASE ProbeGpu(k)
            BY <4>4 DEF ProbeGpu, ProbeLockTo
      <4>5. CASE GpuProbed(k)
            BY <4>5 DEF GpuProbed, ProbeLockTo
      <4>6. CASE NativeStarts(k)
            BY <4>6 DEF NativeStarts
      <4>7. QED BY <2>2, <4>1, <4>2, <4>3, <4>4, <4>5, <4>6
    <3>3. QED BY <3>1, <3>2, AdvancesKeeps
  <2>3. QED BY <1>1, <2>1, <2>2 DEF Proceed
<1>2. CASE Answer(k)
  <2>1. \/ PreparedHit(k) \/ LoadLocked(k) \/ LoadRejects(k) \/ GpuRejects(k)
        \/ NativeTooLate(k) \/ NativeText(k) \/ NativeFails(k)
        BY <1>2 DEF Answer
  <2>2. call[k] # NoCall /\ Leaves(k)
        BY <2>1 DEF Leaves, PreparedHit, LoadLocked, LoadRejects, GpuRejects, NativeTooLate,
                    NativeText, NativeFails, NativeEnds, LoadLockTo, ProbeLockTo
  <2>3. QED BY <2>2, LeavesKeeps
<1>3. QED BY <1>1, <1>2 DEF WorkerStep

\* The steps of a client reach the worker only through Accept and a waiter that goes.
LEMMA ClientKeeps ==
    ASSUME SlotsInv, NEW c \in Clients,
           ClientStep(c) \/ ClientDeadline(c) \/ ConnectionBreaks(c)
    PROVE  SlotsInv'
<1>1. CASE ClientStep(c)
  <2>1. PICK w \in Workers : Scan(c, w) \/ \E d \in Devices(w) : Try(c, w, d) \/ Send(c, w, d)
        BY <1>1 DEF ClientStep
  <2>2. CASE Scan(c, w)
        BY <2>2, SlotsDepend DEF Scan, worker
  <2>3. CASE \E d \in Devices(w) : Try(c, w, d) \/ Send(c, w, d)
    <3>1. PICK d \in Devices(w) : Try(c, w, d) \/ Send(c, w, d) BY <2>3
    <3>2. d \in {"cpu", "cuda"} BY DEF Devices
    <3>3. UNCHANGED worker \/ \E i \in Inputs, k \in Calls : Accept(k, w, i, d)
          BY <3>1 DEF Try, Send
    <3>4. QED BY <3>2, <3>3, AcceptKeeps, SlotsDepend DEF worker
  <2>4. QED BY <2>1, <2>2, <2>3
<1>2. CASE ClientDeadline(c) \/ ConnectionBreaks(c)
  <2>1. UNCHANGED worker \/ \E k \in Calls : WaiterGoes(k)
        BY <1>2 DEF ClientDeadline, ConnectionBreaks, Abandoned
  <2>2. QED BY <2>1, WaiterGoesKeeps, SlotsDepend DEF worker
<1>3. QED BY <1>1, <1>2

\* The inductive invariant holds in every reachable state: it holds initially and
\* each action of Next keeps it.
LEMMA SlotsInvariance == Spec => []SlotsInv
<1>1. Init => SlotsInv
  <2> SUFFICES ASSUME Init PROVE SlotsInv OBVIOUS
  <2>1. WorkerInit BY DEF Init
  <2>2. SlotTypes BY <2>1 DEF WorkerInit, SlotTypes
  <2>3. ASSUME NEW w \in Workers PROVE SlotsAt(w)
    <3>1. OnWorker(w) = {} BY <2>1 DEF WorkerInit, OnWorker
    <3>2. QED BY <2>1, <3>1 DEF WorkerInit, SlotsAt
  <2>4. QED BY <2>2, <2>3 DEF SlotsInv, SlotsExact
<1>2. SlotsInv /\ [Next]_vars => SlotsInv'
  <2> SUFFICES ASSUME SlotsInv, [Next]_vars PROVE SlotsInv' OBVIOUS
  <2>1. ASSUME NEW c \in Clients, NEW i \in Inputs, Retry(c, i) PROVE SlotsInv'
        BY <2>1, SlotsDepend DEF Retry, worker
  <2>2. ASSUME NEW c \in Clients, ClientStep(c) \/ ClientDeadline(c) \/ ConnectionBreaks(c)
        PROVE SlotsInv'
        BY <2>2, ClientKeeps
  <2>3. ASSUME NEW c \in Clients, NEW w \in Workers, TimePasses(c, w) PROVE SlotsInv'
        BY <2>3, SlotsDepend DEF TimePasses, worker
  <2>4. ASSUME NEW k \in Calls, WorkerStep(k) PROVE SlotsInv'
        BY <2>4, WorkerStepKeeps
  <2>5. ASSUME NEW k \in Calls, ProbeTimeout(k) PROVE SlotsInv'
    <3>1. call[k] # NoCall /\ Leaves(k) BY <2>5 DEF ProbeTimeout, AtStep, Leaves
    <3>2. QED BY <3>1, LeavesKeeps
  <2>6. ASSUME NEW k \in Calls, WorkerDeadline(k) PROVE SlotsInv'
        BY <2>6, WaiterGoesKeeps DEF WorkerDeadline
  <2>7. ASSUME NEW w \in Workers, Poll(w) \/ PollEnds(w) PROVE SlotsInv'
        BY <2>7, PollKeeps DEF Poll, PollEnds
  <2>8. ASSUME NEW w \in Workers, RetentionEnds(w) PROVE SlotsInv'
        BY <2>8, SlotsDepend DEF RetentionEnds, RetainedExpires
  <2>9. ASSUME NEW w \in Workers, WorkerRestart(w) PROVE SlotsInv'
        BY <2>9, RestartKeeps
  <2>10. CASE UNCHANGED vars
        BY <2>10, SlotsDepend DEF vars, worker
  <2>11. QED BY <2>1, <2>2, <2>3, <2>4, <2>5, <2>6, <2>7, <2>8, <2>9, <2>10 DEF Next
<1>3. QED BY <1>1, <1>2, PTL DEF Spec

\* The slots and the locks of every worker are exact in every reachable state, for
\* any number of workers, clients and inputs, and however requests end (extract,
\* host_load and probe_gpu of src/src/compute.rs, the intake of src/src/server.rs).
THEOREM SlotsHold == Spec => []SlotsExact
<1>1. SlotsInv => SlotsExact BY DEF SlotsInv
<1>2. QED BY <1>1, SlotsInvariance, PTL

\* A worker never runs two native inferences at once, although a job outlives the
\* waiter that asked for it (the permit that extract moves into the job).
THEOREM OneInferenceHolds == Spec => []OneInference
<1>1. SlotsInv => OneInference
  <2> SUFFICES ASSUME SlotsInv,
                      NEW j \in Calls, NEW k \in Calls,
                      AtStep(j, "native"), AtStep(k, "native"), call[j].w = call[k].w
               PROVE  j = k
      BY DEF OneInference
  <2>1. j \in OnWorker(call[k].w) /\ k \in OnWorker(call[k].w) BY DEF OnWorker, AtStep
  <2>2. call[k].w \in Workers BY DEF SlotsInv, SlotTypes, AtStep, Requests
  <2>3. QED BY <2>1, <2>2 DEF SlotsInv, SlotsExact, SlotsAt
<1>2. QED BY <1>1, SlotsInvariance, PTL

-----------------------------------------------------------------------------
(* The claims of the index processes.  A step of a lane stays without a    *)
(* worker, takes one, keeps it or gives it up; the invariant says point by *)
(* point what ClaimsExact says with sets.                                  *)

LaneTypes ==
    [pc : {"idle", "scan", "try", "send", "call"}, input : SUBSET Inputs,
     todo : SUBSET Peers, cands : SUBSET (Peers \X {"cpu", "cuda"}),
     at : SUBSET (Peers \X (Calls \cup {"cpu", "cuda"}))]
ClientTyped ==
    /\ owner \in [Clients -> Indexes]
    /\ claimed \in [Indexes -> SUBSET Peers]
    /\ lane \in [Clients -> LaneTypes]

Holds(c) == lane[c].pc \in {"send", "call"}

\* ClaimsExact point by point: each lane that holds a worker has its claim, and each
\* claim has its lane.
Claims ==
    /\ \A c \in Clients : Holds(c) => lane[c].at # {} /\ PeerOf(c) \in claimed[owner[c]]
    /\ \A ix \in Indexes : \A w \in claimed[ix] :
          \E c \in Clients : owner[c] = ix /\ Holds(c) /\ PeerOf(c) = w
    /\ \A c, d \in Clients :
          Holds(c) /\ Holds(d) /\ owner[c] = owner[d] /\ PeerOf(c) = PeerOf(d) => c = d
ClaimsInv == ClientTyped /\ Claims

\* A step of lane c: it stays without a worker, takes one, keeps it or gives it up.
StaysFree(c) == ~Holds(c) /\ ~Holds(c)' /\ UNCHANGED claimed
Takes(c, w) ==
    /\ ~Holds(c) /\ Holds(c)' /\ lane'[c].at # {} /\ PeerOf(c)' = w
    /\ w \notin claimed[owner[c]]
    /\ claimed' = [claimed EXCEPT ![owner[c]] = @ \cup {w}]
KeepsIt(c) ==
    /\ Holds(c) /\ Holds(c)' /\ lane'[c].at # {} /\ PeerOf(c)' = PeerOf(c)
    /\ UNCHANGED claimed
GivesUp(c) == Holds(c) /\ ~Holds(c)' /\ Released(c)
LaneStep(c) ==
    /\ owner' = owner
    /\ \A d \in Clients : d # c => lane'[d] = lane[d]
    /\ StaysFree(c) \/ (\E w \in Peers : Takes(c, w)) \/ KeepsIt(c) \/ GivesUp(c)

\* Whatever a lane does is one of these, and keeps the claims exact.
LEMMA LaneStepKeeps ==
    ASSUME Claims, ClientTyped, ClientTyped', NEW c \in Clients, LaneStep(c)
    PROVE  Claims'
<1>1. /\ owner' = owner
      /\ \A d \in Clients : d # c => /\ Holds(d)' = Holds(d) /\ PeerOf(d)' = PeerOf(d)
                                     /\ lane'[d].at = lane[d].at
      BY DEF LaneStep, Holds, PeerOf
<1>2. /\ owner[c] \in Indexes /\ \A d \in Clients : owner[d] \in Indexes
      /\ claimed \in [Indexes -> SUBSET Peers]
      BY DEF ClientTyped
<1> USE DEF Claims
<1>3. CASE StaysFree(c)
      BY <1>1, <1>2, <1>3 DEF StaysFree
<1>4. ASSUME NEW w \in Peers, Takes(c, w) PROVE Claims'
      BY <1>1, <1>2, <1>4 DEF Takes
<1>5. CASE KeepsIt(c)
      BY <1>1, <1>2, <1>5 DEF KeepsIt
<1>6. CASE GivesUp(c)
      BY <1>1, <1>2, <1>6 DEF GivesUp, Released
<1>7. QED BY <1>3, <1>4, <1>5, <1>6 DEF LaneStep

\* The point by point form implies the one with sets.
LEMMA ClaimsForm == ASSUME ClientTyped PROVE Claims => ClaimsExact
  BY DEF Claims, ClaimsExact, Holds, ClientTyped

\* The worker that a lane has a request on its way to, or at.
LEMMA PeerIs ==
    ASSUME NEW c, NEW w, NEW x, lane[c].at = {<<w, x>>}
    PROVE  PeerOf(c) = w
<1>1. (CHOOSE y \in lane[c].at : TRUE) \in lane[c].at BY Zenon
<1>2. QED BY <1>1 DEF PeerOf

\* The same in the next state.
LEMMA PeerIsNext ==
    ASSUME NEW c, NEW w, NEW x, lane'[c].at = {<<w, x>>}
    PROVE  PeerOf(c)' = w
<1>1. (CHOOSE y \in lane'[c].at : TRUE) \in lane'[c].at BY Zenon
<1>2. QED BY <1>1 DEF PeerOf

\* What the actions of a client do to its lane and its claims.
LEMMA NextOfFacts ==
    ASSUME ClientTyped, NEW c \in Clients, NEW cands \in SUBSET (Peers \X {"cpu", "cuda"}),
           NextOf(c, cands)
    PROVE  /\ lane' \in [Clients -> LaneTypes] /\ ~Holds(c)'
           /\ \A d \in Clients : d # c => lane'[d] = lane[d]
<1> DEFINE next == IF cands = {} THEN IdleLane
                   ELSE [lane[c] EXCEPT !.pc = "try", !.cands = cands, !.at = {}]
<1>1. lane[c] \in LaneTypes BY DEF ClientTyped
<1>2. next \in LaneTypes /\ next.pc \in {"idle", "try"}
      BY <1>1 DEF LaneTypes, IdleLane
<1>3. lane' = [lane EXCEPT ![c] = next] BY DEF NextOf
<1>4. QED
  <2> HIDE DEF next
  <2>1. QED BY <1>2, <1>3 DEF ClientTyped, Holds

\* The end of an extraction leaves its lane idle.
LEMMA OverFacts ==
    ASSUME ClientTyped, NEW c \in Clients, Over(c)
    PROVE  /\ lane' \in [Clients -> LaneTypes] /\ ~Holds(c)'
           /\ \A d \in Clients : d # c => lane'[d] = lane[d]
<1>1. IdleLane \in LaneTypes /\ IdleLane.pc = "idle" BY DEF LaneTypes, IdleLane
<1>2. QED BY <1>1 DEF Over, ClientTyped, Holds

\* Dropping a lease keeps the claims well typed.
LEMMA ReleasedTyped ==
    ASSUME ClientTyped, NEW c \in Clients, Released(c)
    PROVE  claimed' \in [Indexes -> SUBSET Peers]
BY DEF Released, ClientTyped

\* A lane begins an extraction (extract_with_budget).
LEMMA BeginKeeps ==
    ASSUME ClaimsInv, NEW c \in Clients, NEW i \in Inputs, Begin(c, i)
    PROVE  ClaimsInv'
<1> DEFINE next == [IdleLane EXCEPT !.pc = "scan", !.input = {i}, !.todo = Peers]
<1>1. next \in LaneTypes /\ next.pc = "scan" BY DEF LaneTypes, IdleLane
<1>2. /\ lane' = [lane EXCEPT ![c] = next] /\ lane[c].pc = "idle"
      /\ owner' = owner /\ claimed' = claimed
      BY DEF Begin
<1>3. ClientTyped' /\ LaneStep(c)
  <2> HIDE DEF next
  <2>1. QED BY <1>1, <1>2 DEF ClaimsInv, ClientTyped, LaneStep, StaysFree, Holds
<1>4. QED BY <1>3, LaneStepKeeps DEF ClaimsInv

\* A peer is scanned, whatever it offers.
LEMMA ScanKeeps ==
    ASSUME ClaimsInv, NEW c \in Clients, NEW w \in Peers,
           NEW devices \in SUBSET {"cpu", "cuda"},
           ScanAt(c, w), Scanned(c, w, devices), owner' = owner, claimed' = claimed
    PROVE  ClaimsInv'
<1> USE DEF ClaimsInv
<1> DEFINE todo == lane[c].todo \ {w}
           cands == lane[c].cands \cup ({w} \X devices)
           next == IF todo = {} /\ cands = {} THEN IdleLane
                   ELSE [lane[c] EXCEPT !.todo = todo, !.cands = cands,
                                        !.pc = IF todo = {} THEN "try" ELSE "scan"]
<1>1. todo \in SUBSET Peers BY DEF ClientTyped, LaneTypes
<1>2. cands \in SUBSET (Peers \X {"cpu", "cuda"})
  <2>1. {w} \X devices \in SUBSET (Peers \X {"cpu", "cuda"}) OBVIOUS
  <2>2. QED BY <2>1 DEF ClientTyped, LaneTypes
<1>3. lane[c] \in LaneTypes /\ lane' = [lane EXCEPT ![c] = next]
      BY DEF ClientTyped, Scanned
<1>4. next \in LaneTypes /\ next.pc \in {"idle", "try", "scan"}
  <2> HIDE DEF todo, cands
  <2>1. QED BY <1>1, <1>2, <1>3 DEF LaneTypes, IdleLane
<1>5. ClientTyped' /\ LaneStep(c)
  <2> HIDE DEF next
  <2>1. QED BY <1>3, <1>4 DEF ScanAt, ClientTyped, LaneStep, StaysFree, Holds
<1>6. QED BY <1>5, LaneStepKeeps

\* A candidate is dropped or claimed (claim_worker).
LEMMA TryKeeps ==
    ASSUME ClaimsInv, NEW c \in Clients, NEW w \in Peers, NEW d \in {"cpu", "cuda"},
           RefreshFails(c, w, d) \/ ClaimLost(c, w, d) \/ ClaimWorker(c, w, d)
    PROVE  ClaimsInv'
<1> USE DEF ClaimsInv
<1>1. CASE RefreshFails(c, w, d) \/ ClaimLost(c, w, d)
  <2>1. /\ lane[c].pc = "try" /\ NextOf(c, lane[c].cands \ {<<w, d>>})
        /\ owner' = owner /\ claimed' = claimed
        BY <1>1 DEF RefreshFails, ClaimLost, DropCandidate, Candidate
  <2>2. lane[c].cands \ {<<w, d>>} \in SUBSET (Peers \X {"cpu", "cuda"})
        BY DEF ClientTyped, LaneTypes
  <2>3. ClientTyped' /\ LaneStep(c)
        BY <2>1, <2>2, NextOfFacts DEF ClientTyped, LaneStep, StaysFree, Holds
  <2>4. QED BY <2>3, LaneStepKeeps
<1>2. CASE ClaimWorker(c, w, d)
  <2>1. /\ lane' = [lane EXCEPT ![c].pc = "send", ![c].cands = @ \ {<<w, d>>}, ![c].at = {<<w, d>>}]
        /\ claimed' = [claimed EXCEPT ![owner[c]] = @ \cup {w}]
        /\ lane[c].pc = "try" /\ w \notin claimed[owner[c]] /\ owner' = owner
        BY <1>2 DEF ClaimWorker, MayClaim, Candidate, ClaimedHere
  <2>2. ClientTyped'
    <3>1. {<<w, d>>} \in SUBSET (Peers \X (Calls \cup {"cpu", "cuda"})) OBVIOUS
    <3>2. lane[c] \in LaneTypes BY DEF ClientTyped
    <3>3. [lane[c] EXCEPT !.pc = "send", !.cands = @ \ {<<w, d>>}, !.at = {<<w, d>>}] \in LaneTypes
          BY <3>1, <3>2 DEF LaneTypes
    <3>4. lane' \in [Clients -> LaneTypes]
          BY <2>1, <3>3 DEF ClientTyped
    <3>5. QED BY <2>1, <3>4 DEF ClientTyped
  <2>3. lane'[c].pc = "send" /\ lane'[c].at = {<<w, d>>}
        BY <2>1 DEF ClientTyped, LaneTypes
  <2>4. PeerOf(c)' = w BY <2>3, PeerIsNext
  <2>5. LaneStep(c)
        BY <2>1, <2>3, <2>4 DEF LaneStep, Takes, Holds, ClientTyped
  <2>6. QED BY <2>2, <2>5, LaneStepKeeps
<1>3. QED BY <1>1, <1>2

\* The request is taken by the worker; the claim stays.
LEMMA ArrivesKeeps ==
    ASSUME ClaimsInv, NEW c \in Clients, NEW w \in Peers, NEW d \in {"cpu", "cuda"},
           NEW k \in Calls, Arrives(c, w, d, k)
    PROVE  ClaimsInv'
<1> USE DEF ClaimsInv
<1>1. /\ lane' = [lane EXCEPT ![c].pc = "call", ![c].at = {<<w, k>>}]
      /\ lane[c].pc = "send" /\ lane[c].at = {<<w, d>>} /\ owner' = owner /\ claimed' = claimed
      BY DEF Arrives, OnItsWay
<1>2. ClientTyped'
  <2>1. {<<w, k>>} \in SUBSET (Peers \X (Calls \cup {"cpu", "cuda"})) OBVIOUS
  <2>2. lane[c] \in LaneTypes BY DEF ClientTyped
  <2>3. [lane[c] EXCEPT !.pc = "call", !.at = {<<w, k>>}] \in LaneTypes
        BY <2>1, <2>2 DEF LaneTypes
  <2>4. lane' \in [Clients -> LaneTypes] BY <1>1, <2>3 DEF ClientTyped
  <2>5. QED BY <1>1, <2>4 DEF ClientTyped
<1>3. lane'[c].pc = "call" /\ lane'[c].at = {<<w, k>>} BY <1>1 DEF ClientTyped, LaneTypes
<1>4. PeerOf(c)' = w /\ PeerOf(c) = w
  <2>1. lane[c].at = {<<w, d>>} BY <1>1
  <2>2. PeerOf(c) = w BY <2>1, PeerIs
  <2>3. lane'[c].at = {<<w, k>>} BY <1>3
  <2>4. PeerOf(c)' = w BY <2>3, PeerIsNext
  <2>5. QED BY <2>2, <2>4
<1>5. LaneStep(c) BY <1>1, <1>3, <1>4 DEF LaneStep, KeepsIt, Holds, ClientTyped
<1>6. QED BY <1>2, <1>5, LaneStepKeeps

\* A request ends in any way; the lease goes with it (WorkerLease::drop).
LEMMA EndsKeeps ==
    ASSUME ClaimsInv, NEW c \in Clients,
           \/ \E w \in Peers, d \in {"cpu", "cuda"}, reply \in {"busy", "error"} : Refused(c, w, d, reply)
           \/ \E reply \in {"text", "invalid", "failure", "busy", "error"} : Receives(c, reply)
           \/ Expires(c)
    PROVE  ClaimsInv'
<1> USE DEF ClaimsInv
<1>1. /\ Holds(c) /\ Released(c) /\ owner' = owner
      /\ Over(c) \/ NextOf(c, lane[c].cands)
      BY DEF Refused, Receives, Expires, OnItsWay, Holds
<1>2. lane[c].cands \in SUBSET (Peers \X {"cpu", "cuda"}) BY DEF ClientTyped, LaneTypes
<1>3. /\ lane' \in [Clients -> LaneTypes] /\ ~Holds(c)'
      /\ \A d \in Clients : d # c => lane'[d] = lane[d]
      BY <1>1, <1>2, NextOfFacts, OverFacts
<1>4. ClientTyped' BY <1>1, <1>3, ReleasedTyped DEF ClientTyped
<1>5. LaneStep(c) BY <1>1, <1>3 DEF LaneStep, GivesUp
<1>6. QED BY <1>4, <1>5, LaneStepKeeps

\* The deadline passes before any worker is claimed.
LEMMA EarlyKeeps ==
    ASSUME ClaimsInv, NEW c \in Clients, ExpiresEarly(c)
    PROVE  ClaimsInv'
<1>1. ClientTyped' /\ LaneStep(c)
      BY OverFacts DEF ExpiresEarly, ClaimsInv, ClientTyped, LaneStep, StaysFree, Holds
<1>2. QED BY <1>1, LaneStepKeeps DEF ClaimsInv

\* Steps that do not touch owners, lanes and claims.
LEMMA ClaimsDepend ==
    ASSUME ClaimsInv, owner' = owner, lane' = lane, claimed' = claimed
    PROVE  ClaimsInv'
BY DEF ClaimsInv, ClientTyped, Claims, Holds, PeerOf

\* An answer reaches the lane that waits for it, if one does.
LEMMA RepliedKeeps ==
    ASSUME ClaimsInv, NEW k \in Calls, NEW reply \in {"text", "invalid", "failure", "busy", "error"},
           Replied(k, reply)
    PROVE  ClaimsInv'
<1>1. CASE UNCHANGED client BY <1>1, ClaimsDepend DEF client
<1>2. CASE \E c \in Waiters(k) : Receives(c, reply)
      BY <1>2, EndsKeeps DEF Waiters
<1>3. QED BY <1>1, <1>2 DEF Replied

\* The inductive invariant holds initially and every action of Next keeps it.
LEMMA ClaimsInvariance == Spec => []ClaimsInv
<1>1. Init => ClaimsInv
  <2>1. IdleLane \in LaneTypes /\ IdleLane.pc = "idle" BY DEF LaneTypes, IdleLane
  <2>2. QED BY <2>1 DEF Init, ClientInit, ClaimsInv, ClientTyped, Claims, Holds
<1>2. ClaimsInv /\ [Next]_vars => ClaimsInv'
  <2> SUFFICES ASSUME ClaimsInv, [Next]_vars PROVE ClaimsInv' OBVIOUS
  <2>1. ASSUME NEW c \in Clients, NEW i \in Inputs, Retry(c, i) PROVE ClaimsInv'
        BY <2>1, BeginKeeps DEF Retry
  <2>2. ASSUME NEW c \in Clients, NEW w \in Workers, Scan(c, w) PROVE ClaimsInv'
    <3>1. PICK devices \in SUBSET {"cpu", "cuda"} :
             ScanAt(c, w) /\ Scanned(c, w, devices) /\ owner' = owner /\ claimed' = claimed
          BY <2>2 DEF Scan, ScanSkip, ScanStatus, ScanFails, Devices
    <3>2. w \in Peers BY MeshAssumption
    <3>3. QED BY <3>1, <3>2, ScanKeeps
  <2>3. ASSUME NEW c \in Clients, NEW w \in Workers, NEW d \in Devices(w), Try(c, w, d)
        PROVE  ClaimsInv'
        BY <2>3, TryKeeps, MeshAssumption DEF Try, Devices
  <2>4. ASSUME NEW c \in Clients, NEW w \in Workers, NEW d \in Devices(w), Send(c, w, d)
        PROVE  ClaimsInv'
    <3>1. w \in Peers /\ d \in {"cpu", "cuda"} BY MeshAssumption DEF Devices
    <3>2. \/ \E k \in Calls : Arrives(c, w, d, k)
          \/ \E reply \in {"busy", "error"} : Refused(c, w, d, reply)
          BY <2>4 DEF Send
    <3>3. QED BY <3>1, <3>2, ArrivesKeeps, EndsKeeps
  <2>5. ASSUME NEW c \in Clients, ClientStep(c) PROVE ClaimsInv'
        BY <2>5, <2>2, <2>3, <2>4 DEF ClientStep
  <2>6. ASSUME NEW c \in Clients, ClientDeadline(c) \/ ConnectionBreaks(c) PROVE ClaimsInv'
    <3>1. Expires(c) \/ ExpiresEarly(c) \/ Receives(c, "error")
          BY <2>6 DEF ClientDeadline, ConnectionBreaks
    <3>2. QED BY <3>1, EndsKeeps, EarlyKeeps
  <2>7. ASSUME NEW c \in Clients, NEW w \in Workers, TimePasses(c, w) PROVE ClaimsInv'
        BY <2>7, ClaimsDepend DEF TimePasses, CooldownEnds
  <2>8. ASSUME NEW k \in Calls, WorkerStep(k) PROVE ClaimsInv'
    <3>1. CASE Proceed(k) BY <3>1, ClaimsDepend DEF Proceed, client
    <3>2. CASE Answer(k)
      <4>1. \E reply \in {"text", "invalid", "failure", "busy", "error"} : Replied(k, reply)
            BY <3>2 DEF Answer
      <4>2. QED BY <4>1, RepliedKeeps
    <3>3. QED BY <2>8, <3>1, <3>2 DEF WorkerStep
  <2>9. ASSUME NEW k \in Calls, ProbeTimeout(k) \/ WorkerDeadline(k) PROVE ClaimsInv'
        BY <2>9, RepliedKeeps DEF ProbeTimeout, WorkerDeadline
  <2>10. ASSUME NEW w \in Workers,
                Poll(w) \/ PollEnds(w) \/ RetentionEnds(w) \/ WorkerRestart(w)
         PROVE  ClaimsInv'
         BY <2>10, ClaimsDepend DEF Poll, PollEnds, RetentionEnds, WorkerRestart, client
  <2>11. CASE UNCHANGED vars BY <2>11, ClaimsDepend DEF vars, client
  <2>12. QED BY <2>1, <2>5, <2>6, <2>7, <2>8, <2>9, <2>10, <2>11 DEF Next
<1>3. QED BY <1>1, <1>2, PTL DEF Spec

\* For any number of processes, lanes and workers: a worker is claimed by an index
\* process exactly while one of its lanes has a request there, and by that lane only
\* (claim_worker and WorkerLease of src/src/compute_client.rs).
THEOREM ClaimsHold == Spec => []ClaimsExact
<1>1. ClaimsInv => ClaimsExact BY ClaimsForm DEF ClaimsInv
<1>2. QED BY <1>1, ClaimsInvariance, PTL

-----------------------------------------------------------------------------
(* The retained results of a worker.                                       *)

Units(S) == UNION {{row} \X (1 .. Weight[row[1]]) : row \in S}

\* A finite set of rows has finitely many bytes.
LEMMA UnitsFinite ==
    ASSUME NEW S \in SUBSET Keys, IsFiniteSet(S)
    PROVE  IsFiniteSet(Units(S)) /\ Cardinality(Units(S)) \in Nat
<1> DEFINE f == [row \in S |-> {row} \X (1 .. Weight[row[1]])]
           U == {{row} \X (1 .. Weight[row[1]]) : row \in S}
<1>1. \A row \in S : IsFiniteSet({row} \X (1 .. Weight[row[1]]))
  <2> SUFFICES ASSUME NEW row \in S PROVE IsFiniteSet({row} \X (1 .. Weight[row[1]]))
    OBVIOUS
  <2>1. Weight[row[1]] \in Nat  BY WorkerAssumption DEF Keys
  <2>2. IsFiniteSet(1 .. Weight[row[1]])  BY <2>1, FS_Interval
  <2> QED BY <2>2, FS_Singleton, FS_Product
<1>2. f \in Surjection(S, U)  BY Zenon DEF Surjection
<1>3. IsFiniteSet(U)
  <2> HIDE DEF f, U
  <2> QED BY <1>2, FS_Surjection
<1>4. \A t \in U : IsFiniteSet(t)  BY <1>1
<1>5. IsFiniteSet(UNION U)
  <2> HIDE DEF U
  <2> QED BY <1>3, <1>4, FS_UNION
<1> QED BY <1>5, FS_CardinalityType DEF Units

\* Rows that go take their bytes with them, and no others.
LEMMA UnitsWithout ==
    ASSUME NEW S \in SUBSET Keys, IsFiniteSet(S), NEW T \in SUBSET S
    PROVE  Cardinality(Units(S \ T)) = Cardinality(Units(S)) - Cardinality(Units(T))
<1>1. Units(S \ T) = Units(S) \ Units(T)
  <2>1. \A row, other \in S : ({row} \X (1 .. Weight[row[1]])) \cap ({other} \X (1 .. Weight[other[1]])) # {}
           => row = other
    OBVIOUS
  <2>2. \A S1 : \A u : u \in Units(S1) <=> \E row \in S1 : u \in {row} \X (1 .. Weight[row[1]])
    BY Zenon DEF Units
  <2> QED BY <2>1, <2>2
<1>2. Units(S) \cap Units(T) = Units(T)  BY DEF Units
<1> QED BY <1>1, <1>2, UnitsFinite, FS_Difference, ZenonT(30)

\* A row has the bytes of its result.
LEMMA UnitsOfOne ==
    ASSUME NEW row \in Keys
    PROVE  Cardinality(Units({row})) = Weight[row[1]]
<1> DEFINE n == Weight[row[1]]
<1>1. n \in Nat  BY WorkerAssumption DEF Keys
<1>2. Units({row}) = {row} \X (1 .. n)  BY DEF Units
<1>3. IsFiniteSet(1 .. n) /\ Cardinality(1 .. n) = n  BY <1>1, FS_Interval, SMTT(30)
<1>4. IsFiniteSet({row}) /\ Cardinality({row}) = 1  BY FS_Singleton
<1>5. Cardinality({row} \X (1 .. n)) = 1 * n
  <2> HIDE DEF n
  <2>1. Cardinality({row} \X (1 .. n)) = Cardinality({row}) * Cardinality(1 .. n)
    BY <1>3, <1>4, FS_Product
  <2> QED BY <1>3, <1>4, <2>1
<1>6. Cardinality({row} \X (1 .. n)) = n
  <2> HIDE DEF n
  <2> QED BY <1>1, <1>5
<1> QED BY <1>2, <1>6

\* A new row adds the bytes of its result.
LEMMA UnitsWith ==
    ASSUME NEW S \in SUBSET Keys, IsFiniteSet(S), NEW row \in Keys, row \notin S
    PROVE  Cardinality(Units(S \cup {row})) = Cardinality(Units(S)) + Weight[row[1]]
<1> DEFINE R == S \cup {row}
<1>1. R \in SUBSET Keys /\ IsFiniteSet(R) /\ {row} \in SUBSET R /\ R \ {row} = S
  BY FS_AddElement
<1>2. Cardinality(Units(S)) = Cardinality(Units(R)) - Cardinality(Units({row}))
  <2> HIDE DEF R
  <2> QED BY <1>1, UnitsWithout
<1>3. Cardinality(Units(R)) \in Nat  BY <1>1, UnitsFinite
<1>4. Weight[row[1]] \in Nat  BY WorkerAssumption DEF Keys
<1> QED BY <1>2, <1>3, <1>4, UnitsOfOne

\* The rows of a sequence are finitely many.
LEMMA RowsFinite ==
    ASSUME NEW rows \in Seq(Keys)
    PROVE  /\ Range(rows) \in SUBSET Keys /\ IsFiniteSet(Range(rows))
           /\ Total(rows) = Cardinality(Units(Range(rows))) /\ Total(rows) \in Nat
<1>1. IsFiniteSet(1 .. Len(rows))  BY FS_Interval
<1>2. DOMAIN rows = 1 .. Len(rows) /\ \A j \in 1 .. Len(rows) : rows[j] \in Keys  OBVIOUS
<1>3. rows \in Surjection(1 .. Len(rows), Range(rows))  BY DEF Surjection, Range
<1>4. Range(rows) \in SUBSET Keys /\ IsFiniteSet(Range(rows))
  BY <1>1, <1>2, <1>3, FS_Surjection DEF Range
<1> QED BY <1>4, UnitsFinite DEF Total, Units

\* The oldest rows and the others: what one part has the other has not.
LEMMA Parts ==
    ASSUME NEW rows \in Seq(Keys), IsInjective(rows), NEW n \in 0 .. Len(rows)
    PROVE  /\ SubSeq(rows, 1, n) \in Seq(Keys)
           /\ SubSeq(rows, n + 1, Len(rows)) \in Seq(Keys)
           /\ Len(SubSeq(rows, n + 1, Len(rows))) = Len(rows) - n
           /\ IsInjective(SubSeq(rows, n + 1, Len(rows)))
           /\ Range(SubSeq(rows, n + 1, Len(rows))) \subseteq Range(rows)
           /\ Total(SubSeq(rows, n + 1, Len(rows))) = Total(rows) - Total(SubSeq(rows, 1, n))
<1> DEFINE old == SubSeq(rows, 1, n)
           new == SubSeq(rows, n + 1, Len(rows))
<1>1. /\ old \in Seq(Keys) /\ Len(old) = n /\ \A j \in 1 .. n : old[j] = rows[j]
      /\ new \in Seq(Keys) /\ Len(new) = Len(rows) - n
      /\ \A j \in 1 .. Len(rows) - n : new[j] = rows[n + j]
  OBVIOUS
<1> HIDE DEF old, new
<1>2. /\ DOMAIN rows = 1 .. Len(rows) /\ DOMAIN old = 1 .. n
      /\ DOMAIN new = 1 .. Len(rows) - n
  BY <1>1
<1>3. IsInjective(new)
  <2> SUFFICES ASSUME NEW a \in 1 .. Len(rows) - n, NEW b \in 1 .. Len(rows) - n, new[a] = new[b]
               PROVE  a = b
    BY <1>2 DEF IsInjective
  <2>1. rows[n + a] = rows[n + b] /\ n + a \in DOMAIN rows /\ n + b \in DOMAIN rows
    BY <1>1, <1>2
  <2>2. n + a = n + b  BY <2>1 DEF IsInjective
  <2> QED BY <2>2
<1>4. Range(old) \subseteq Range(rows)  BY <1>1, <1>2 DEF Range
<1>5. Range(new) = Range(rows) \ Range(old)
  <2>1. ASSUME NEW a \in 1 .. Len(rows) - n PROVE new[a] \in Range(rows) /\ new[a] \notin Range(old)
    <3>1. n + a \in DOMAIN rows /\ new[a] = rows[n + a]  BY <1>1, <1>2
    <3>2. \A b \in 1 .. n : b \in DOMAIN rows /\ b # n + a  BY <1>2
    <3>3. \A b \in 1 .. n : rows[b] # rows[n + a]  BY <3>1, <3>2 DEF IsInjective
    <3>4. new[a] \in Range(rows)  BY <3>1 DEF Range
    <3>5. \A b \in 1 .. n : old[b] # new[a]  BY <1>1, <3>1, <3>3
    <3>6. new[a] \notin Range(old)  BY <1>2, <3>5 DEF Range
    <3> QED BY <3>4, <3>6
  <2>2. ASSUME NEW a \in 1 .. Len(rows), rows[a] \notin Range(old) PROVE rows[a] \in Range(new)
    <3>1. ~(a <= n)  BY <1>1, <1>2, <2>2, SMTT(30) DEF Range
    <3>2. a - n \in 1 .. Len(rows) - n /\ n + (a - n) = a  BY <3>1
    <3>3. new[a - n] = rows[a]  BY <1>1, <3>2
    <3> QED BY <1>2, <3>2, <3>3 DEF Range
  <2> QED BY <1>2, <2>1, <2>2 DEF Range
<1>6. Total(new) = Total(rows) - Total(old)
  <2>1. /\ Range(rows) \in SUBSET Keys /\ IsFiniteSet(Range(rows)) /\ Range(old) \in SUBSET Range(rows)
    BY <1>4, RowsFinite
  <2>2. Cardinality(Units(Range(new))) = Cardinality(Units(Range(rows))) - Cardinality(Units(Range(old)))
    BY <1>5, <2>1, UnitsWithout
  <2> QED BY <1>1, <2>2, RowsFinite
<1>7. Range(new) \subseteq Range(rows)  BY <1>5
<1> QED BY <1>1, <1>3, <1>6, <1>7 DEF old, new

\* A row that is replaced goes, wherever it is.
LEMMA Replaced ==
    ASSUME NEW rows \in Seq(Keys), IsInjective(rows), NEW key \in Keys
    PROVE  /\ RemoveFirst(rows, key) \in Seq(Keys) /\ IsInjective(RemoveFirst(rows, key))
           /\ key \notin Range(RemoveFirst(rows, key))
           /\ Total(RemoveFirst(rows, key)) = IF Contains(rows, key) THEN Total(rows) - Weight[key[1]]
                                             ELSE Total(rows)
<1>1. CASE ~Contains(rows, key)
  <2>1. RemoveFirst(rows, key) = rows  BY <1>1 DEF RemoveFirst, Contains
  <2>2. key \notin Range(rows)  BY <1>1 DEF Contains, Range
  <2> QED BY <1>1, <2>1, <2>2
<1>2. CASE Contains(rows, key)
  <2>1. PICK i \in 1 .. Len(rows) : rows[i] = key  BY <1>2 DEF Contains
  <2>2. \A j \in 1 .. Len(rows) : rows[j] = key <=> j = i  BY <2>1 DEF IsInjective
  <2>3. {j \in 1 .. Len(rows) : rows[j] = key} = {i}  BY <2>2
  <2>4. Min({i}) = i  BY DEF Min
  <2>5. SelectInSeq(rows, LAMBDA v : v = key) = i  BY <2>3, <2>4 DEF SelectInSeq
  <2>6. RemoveFirst(rows, key) = RemoveAt(rows, i)  BY <2>1, <2>5 DEF RemoveFirst
  <2> DEFINE kept == RemoveAt(rows, i)
             from(j) == IF j < i THEN j ELSE j + 1
  <2>7. /\ kept \in Seq(Keys) /\ Len(kept) = Len(rows) - 1
        /\ \A j \in 1 .. Len(rows) - 1 : kept[j] = rows[from(j)]
    <3> DEFINE old == SubSeq(rows, 1, i - 1)
               new == SubSeq(rows, i + 1, Len(rows))
    <3>1. /\ old \in Seq(Keys) /\ Len(old) = i - 1 /\ \A j \in 1 .. i - 1 : old[j] = rows[j]
          /\ new \in Seq(Keys) /\ Len(new) = Len(rows) - i
          /\ \A j \in 1 .. Len(rows) - i : new[j] = rows[i + j]
      OBVIOUS
    <3>2. kept = old \o new  BY DEF RemoveAt
    <3> HIDE DEF old, new, kept
    <3>3. /\ kept \in Seq(Keys) /\ Len(kept) = Len(rows) - 1
          /\ \A j \in 1 .. i - 1 : kept[j] = old[j]
          /\ \A j \in i .. Len(rows) - 1 : kept[j] = new[j - (i - 1)]
      <4>1. old \in Seq(Keys) /\ new \in Seq(Keys)  BY <3>1
      <4>2. kept \in Seq(Keys) /\ Len(kept) = Len(old) + Len(new)  BY <4>1, <3>2
      <4>3. \A j \in 1 .. Len(old) + Len(new) :
               kept[j] = IF j <= Len(old) THEN old[j] ELSE new[j - Len(old)]
        BY <3>1, <3>2
      <4>4. Len(kept) = Len(rows) - 1  BY <3>1, <4>2
      <4>5. \A j \in 1 .. i - 1 : kept[j] = old[j]  BY <3>1, <4>3
      <4>6. \A j \in i .. Len(rows) - 1 : kept[j] = new[j - (i - 1)]  BY <3>1, <4>3
      <4> QED BY <4>2, <4>4, <4>5, <4>6
    <3>4. ASSUME NEW j \in i .. Len(rows) - 1 PROVE kept[j] = rows[j + 1]
      <4>1. j - (i - 1) \in 1 .. Len(rows) - i /\ i + (j - (i - 1)) = j + 1  OBVIOUS
      <4> QED BY <3>1, <3>3, <4>1
    <3>5. \A j \in 1 .. i - 1 : kept[j] = rows[j]  BY <3>1, <3>3
    <3>6. \A j \in 1 .. Len(rows) - 1 : kept[j] = rows[from(j)]  BY <3>4, <3>5
    <3> QED BY <3>3, <3>6
  <2> HIDE DEF kept
  <2>8. DOMAIN rows = 1 .. Len(rows) /\ DOMAIN kept = 1 .. Len(rows) - 1  BY <2>7
  <2>9. \A j \in 1 .. Len(rows) - 1 : from(j) \in 1 .. Len(rows) /\ from(j) # i  OBVIOUS
  <2>10. \A a, b \in 1 .. Len(rows) - 1 : from(a) = from(b) => a = b  OBVIOUS
  <2>11. \A a \in 1 .. Len(rows) : a # i => \E j \in 1 .. Len(rows) - 1 : from(j) = a
    <3> SUFFICES ASSUME NEW a \in 1 .. Len(rows), a # i
                 PROVE  \E j \in 1 .. Len(rows) - 1 : from(j) = a
      OBVIOUS
    <3>1. CASE a < i
      <4>1. a \in 1 .. Len(rows) - 1 /\ from(a) = a  BY <3>1
      <4> QED BY <4>1
    <3>2. CASE a > i
      <4>1. a - 1 \in 1 .. Len(rows) - 1 /\ from(a - 1) = a  BY <3>2
      <4> QED BY <4>1
    <3> QED BY <3>1, <3>2
  <2> HIDE DEF from
  <2>12. IsInjective(kept)
    <3> SUFFICES ASSUME NEW a \in 1 .. Len(rows) - 1, NEW b \in 1 .. Len(rows) - 1, kept[a] = kept[b]
                 PROVE  a = b
      BY <2>8 DEF IsInjective
    <3>1. from(a) = from(b)  BY <2>7, <2>8, <2>9 DEF IsInjective
    <3> QED BY <2>10, <3>1
  <2>13. Range(kept) = Range(rows) \ {key}
    <3>1. \A j \in 1 .. Len(rows) - 1 : kept[j] \in Range(rows) /\ kept[j] # key
      BY <2>2, <2>7, <2>8, <2>9 DEF Range
    <3>2. \A a \in 1 .. Len(rows) : rows[a] # key => rows[a] \in Range(kept)
      BY <2>2, <2>7, <2>8, <2>11, ZenonT(30) DEF Range
    <3> QED BY <2>8, <3>1, <3>2 DEF Range
  <2>14. Total(kept) = Total(rows) - Weight[key[1]]
    <3>1. /\ Range(rows) \in SUBSET Keys /\ IsFiniteSet(Range(rows)) /\ {key} \in SUBSET Range(rows)
      BY <2>1, <2>8, RowsFinite DEF Range
    <3>2. Cardinality(Units(Range(kept))) = Cardinality(Units(Range(rows))) - Cardinality(Units({key}))
      BY <2>13, <3>1, UnitsWithout
    <3> QED BY <2>7, <3>2, RowsFinite, UnitsOfOne
  <2> QED BY <1>2, <2>6, <2>7, <2>12, <2>13, <2>14 DEF kept
<1> QED BY <1>1, <1>2

\* A finite set of naturals has a least element: the one with the fewest below it.
LEMMA Least ==
    ASSUME NEW S \in SUBSET Nat, IsFiniteSet(S), S # {}
    PROVE  Min(S) \in S
<1> DEFINE Below(i) == {j \in S : j < i}
           T == {Below(i) : i \in S}
<1>1. T \subseteq FiniteSubsetsOf(S) /\ T # {}
  <2>1. ASSUME NEW i \in S PROVE Below(i) \in FiniteSubsetsOf(S)
    <3>1. Below(i) \in SUBSET S  OBVIOUS
    <3> HIDE DEF Below
    <3> QED BY <3>1, FS_Subset DEF FiniteSubsetsOf
  <2> HIDE DEF Below
  <2> QED BY <2>1
<1>2. PICK least \in T : \A t \in T : ~(<<t, least>> \in StrictSubsetOrdering(S))
  <2> HIDE DEF T
  <2> QED BY <1>1, FS_StrictSubsetOrderingWellFounded, WFMin, Zenon
<1>3. PICK x \in S : least = Below(x)  OBVIOUS
<1>4. ASSUME NEW y \in S, y < x PROVE FALSE
  <2>1. y \in Below(x) /\ y \notin Below(y)  BY <1>4
  <2>2. \A j \in Below(y) : j \in Below(x)  BY <1>4
  <2>3. <<Below(y), Below(x)>> \in StrictSubsetOrdering(S)
    BY <2>1, <2>2 DEF StrictSubsetOrdering
  <2> QED BY <1>2, <1>3, <2>3
<1>5. \A y \in S : x <= y  BY <1>4
<1> QED BY <1>5 DEF Min

\* What a worker retains, row by row.
RowsSound(rows, size) ==
    /\ rows \in Seq(Keys) /\ IsInjective(rows)
    /\ size = Total(rows) /\ size <= RetainedBytes /\ Len(rows) <= RetainedCount

\* The oldest row goes, and the others stay accounted for.
LEMMA Popped ==
    ASSUME NEW rows, NEW size, RowsSound(rows, size), rows # <<>>
    PROVE  RowsSound(Tail(rows), size - Weight[Head(rows)[1]])
<1>1. rows \in Seq(Keys) /\ Len(rows) \in Nat /\ 1 \in 0 .. Len(rows)  BY DEF RowsSound
<1>2. /\ Tail(rows) = SubSeq(rows, 2, Len(rows)) /\ Head(rows) = rows[1] /\ rows[1] \in Keys
  BY <1>1
<1> DEFINE old == SubSeq(rows, 1, 1)
<1>3. Range(old) = {rows[1]} /\ old \in Seq(Keys)
  <2>1. old \in Seq(Keys) /\ Len(old) = 1 /\ old[1] = rows[1]  BY <1>1
  <2> HIDE DEF old
  <2>2. DOMAIN old = {1}  BY <2>1
  <2> QED BY <2>1, <2>2 DEF Range
<1>4. Total(old) = Weight[rows[1][1]] /\ Total(old) \in Nat /\ Total(rows) \in Nat
  <2> HIDE DEF old
  <2> QED BY <1>1, <1>2, <1>3, RowsFinite, UnitsOfOne
<1> DEFINE new == SubSeq(rows, 2, Len(rows))
<1>5. /\ new \in Seq(Keys) /\ Len(new) = Len(rows) - 1 /\ IsInjective(new)
      /\ Total(new) = Total(rows) - Total(old)
  <2>1. SubSeq(rows, 1 + 1, Len(rows)) = new  OBVIOUS
  <2> QED BY <1>1, <2>1, Parts DEF RowsSound
<1>6. Len(new) <= RetainedCount  BY <1>1, <1>5, WorkerAssumption DEF RowsSound
<1>7. /\ size - Weight[rows[1][1]] = Total(new)
      /\ size - Weight[rows[1][1]] <= RetainedBytes
  <2> HIDE DEF old, new
  <2> QED BY <1>4, <1>5, WorkerAssumption DEF RowsSound
<1> QED BY <1>2, <1>5, <1>6, <1>7 DEF RowsSound

\* Whatever room a result needs is made, and the rows that stay are the newest.
LEMMA MakesRoom ==
    ASSUME NEW rows \in Seq(Keys), IsInjective(rows), NEW new \in Nat, new <= RetainedBytes
    PROVE  /\ Evictions(rows, Total(rows), new) \in 0 .. Len(rows)
           /\ Fits(rows, Total(rows), new, Evictions(rows, Total(rows), new))
<1> DEFINE S == {m \in 0 .. Len(rows) : Fits(rows, Total(rows), new, m)}
<1>1. Len(rows) \in Nat /\ Total(rows) \in Nat  BY RowsFinite
<1>2. IsFiniteSet(S) /\ S \in SUBSET Nat
  <2>1. IsFiniteSet(0 .. Len(rows)) /\ S \in SUBSET (0 .. Len(rows))  BY <1>1, FS_Interval
  <2>2. S \in SUBSET Nat  BY <1>1
  <2> HIDE DEF S
  <2> QED BY <2>1, <2>2, FS_Subset
<1>3. Len(rows) \in S
  <2>1. SubSeq(rows, 1, Len(rows)) = rows  OBVIOUS
  <2>2. Len(rows) - Len(rows) < RetainedCount  BY <1>1, WorkerAssumption
  <2>3. Total(rows) - Total(rows) + new <= RetainedBytes  BY <1>1, WorkerAssumption
  <2>4. Fits(rows, Total(rows), new, Len(rows))  BY <2>1, <2>2, <2>3 DEF Fits
  <2> QED BY <1>1, <2>4
<1>4. Min(S) \in S
  <2> HIDE DEF S
  <2> QED BY <1>2, <1>3, Least
<1>5. Evictions(rows, Total(rows), new) = Min(S)  BY DEF Evictions
<1> HIDE DEF Evictions
<1> QED BY <1>4, <1>5

\* RetainedResults::insert keeps the rows sound, whatever was there before.
LEMMA InsertedSound ==
    ASSUME NEW rows, NEW size, RowsSound(rows, size), NEW key \in Keys
    PROVE  RowsSound(Inserted(rows, size, key).rows, Inserted(rows, size, key).bytes)
<1> DEFINE new == Weight[key[1]]
           kept == RemoveFirst(rows, key)
           left == IF Contains(rows, key) THEN size - new ELSE size
           n == Evictions(kept, left, new)
           rest == SubSeq(kept, n + 1, Len(kept))
           popped == SubSeq(kept, 1, n)
<1>1. new \in Nat  BY WorkerAssumption DEF Keys
<1>2. rows \in Seq(Keys) /\ IsInjective(rows) /\ size = Total(rows)  BY DEF RowsSound
<1>3. kept \in Seq(Keys) /\ IsInjective(kept) /\ key \notin Range(kept) /\ left = Total(kept)
  BY <1>2, Replaced
<1>4. CASE new > RetainedBytes
  BY <1>4 DEF Inserted
<1>5. CASE ~(new > RetainedBytes)
  <2>1. Inserted(rows, size, key) = [rows |-> Append(rest, key), bytes |-> left - Total(popped) + new]
    BY <1>5 DEF Inserted
  <2> HIDE DEF kept, left
  <2>2. new <= RetainedBytes  BY <1>1, <1>5, WorkerAssumption
  <2>3. n \in 0 .. Len(kept) /\ Fits(kept, left, new, n)
    <3> HIDE DEF new
    <3> QED BY <1>1, <1>3, <2>2, MakesRoom
  <2> HIDE DEF n, new
  <2>4. /\ rest \in Seq(Keys) /\ popped \in Seq(Keys) /\ IsInjective(rest)
        /\ Range(rest) \subseteq Range(kept) /\ Len(rest) = Len(kept) - n
        /\ Total(rest) = left - Total(popped)
    BY <1>3, <2>3, Parts
  <2>5. /\ Len(kept) - n < RetainedCount /\ left - Total(popped) + new <= RetainedBytes
    BY <2>3 DEF Fits
  <2> HIDE DEF rest, popped
  <2> DEFINE added == Append(rest, key)
  <2>6. /\ added \in Seq(Keys) /\ Len(added) = Len(rest) + 1 /\ added[Len(rest) + 1] = key
        /\ \A j \in 1 .. Len(rest) : added[j] = rest[j]
    BY <2>4
  <2>7. key \notin Range(rest) /\ DOMAIN rest = 1 .. Len(rest) /\ Len(rest) \in Nat
    BY <1>3, <2>4
  <2> HIDE DEF added
  <2>8. DOMAIN added = 1 .. Len(rest) + 1  BY <2>6, <2>7
  <2>9. \A j \in 1 .. Len(rest) : rest[j] # key  BY <2>7 DEF Range
  <2>10. IsInjective(added)
    <3> SUFFICES ASSUME NEW a \in 1 .. Len(rest) + 1, NEW b \in 1 .. Len(rest) + 1,
                        added[a] = added[b]
                 PROVE  a = b
      BY <2>8 DEF IsInjective
    <3>1. CASE a = Len(rest) + 1 \/ b = Len(rest) + 1
      BY <2>6, <2>7, <2>9, <3>1
    <3>2. CASE a # Len(rest) + 1 /\ b # Len(rest) + 1
      <4>1. a \in 1 .. Len(rest) /\ b \in 1 .. Len(rest)  BY <2>7, <3>2
      <4>2. rest[a] = rest[b]  BY <2>6, <4>1
      <4> QED BY <2>4, <2>7, <4>1, <4>2 DEF IsInjective
    <3> QED BY <3>1, <3>2
  <2>11. Range(added) = Range(rest) \cup {key}
    <3>1. \A j \in 1 .. Len(rest) + 1 : j \in 1 .. Len(rest) \/ j = Len(rest) + 1  BY <2>7
    <3>2. \A j \in 1 .. Len(rest) : j \in 1 .. Len(rest) + 1  BY <2>7
    <3>3. Len(rest) + 1 \in 1 .. Len(rest) + 1  BY <2>7
    <3>4. Range(added) \subseteq Range(rest) \cup {key}
      BY <2>6, <2>7, <2>8, <3>1 DEF Range
    <3>5. Range(rest) \subseteq Range(added)
      BY <2>6, <2>7, <2>8, <3>2 DEF Range
    <3>6. key \in Range(added)  BY <2>6, <2>8, <3>3 DEF Range
    <3> QED BY <3>4, <3>5, <3>6
  <2>12. Total(added) = Total(rest) + new
    <3>1. Range(rest) \in SUBSET Keys /\ IsFiniteSet(Range(rest))  BY <2>4, RowsFinite
    <3>2. Cardinality(Units(Range(added))) = Cardinality(Units(Range(rest))) + Weight[key[1]]
      BY <2>7, <2>11, <3>1, UnitsWith
    <3> QED BY <2>4, <2>6, <3>2, RowsFinite DEF new
  <2>13. Len(added) <= RetainedCount
    BY <2>4, <2>5, <2>6, <2>7, WorkerAssumption
  <2>14. RowsSound(added, left - Total(popped) + new)
    BY <2>4, <2>5, <2>6, <2>10, <2>12, <2>13 DEF RowsSound
  <2> QED BY <2>1, <2>14 DEF added
<1> QED BY <1>4, <1>5

\* The inductive invariant about what is retained: the rows are sound, and the text of
\* a request that is past its preparation is not among them.
Kept ==
    /\ retained \in [Workers -> Seq(Keys)] /\ bytes \in [Workers -> Nat]
    /\ \A w \in Workers : RowsSound(retained[w], bytes[w])
Fresh ==
    \A k \in Calls : call[k] # NoCall /\ call[k].step # "prepare"
                        => ~Contains(retained[call[k].w], Key(k))
CacheInv == Kept /\ Fresh

\* A request that goes on or ends: it was past its preparation already, or has just
\* looked for its text.
Aged(j) ==
    \/ call'[j] = NoCall
    \/ call'[j].step = "prepare"
    \/ /\ call[j] # NoCall /\ call'[j].w = call[j].w
       /\ call'[j].input = call[j].input /\ call'[j].dev = call[j].dev
       /\ call[j].step # "prepare" \/ ~Contains(retained[call[j].w], Key(j))

\* Such steps keep the invariant as long as the rows stay as they are.
LEMMA AgedKeeps ==
    ASSUME CacheInv, UNCHANGED <<retained, bytes>>, \A j \in Calls : Aged(j)
    PROVE  CacheInv'
<1>1. Kept'  BY DEF CacheInv, Kept
<1>2. ASSUME NEW j \in Calls, call'[j] # NoCall, call'[j].step # "prepare"
      PROVE  ~Contains(retained'[call'[j].w], Key(j)')
  <2>1. /\ call[j] # NoCall /\ call'[j].w = call[j].w /\ Key(j)' = Key(j)
        /\ call[j].step # "prepare" \/ ~Contains(retained[call[j].w], Key(j))
    BY <1>2 DEF Aged, Key
  <2>2. ~Contains(retained[call[j].w], Key(j))  BY <2>1 DEF CacheInv, Fresh
  <2> QED BY <2>1, <2>2
<1> QED BY <1>1, <1>2 DEF CacheInv, Fresh

\* A request that is gone leaves the others as they were.
LEMMA FinishedAges ==
    ASSUME SlotTypes, NEW k \in Calls, Finished(k)
    PROVE  \A j \in Calls : Aged(j)
<1> SUFFICES ASSUME NEW j \in Calls PROVE Aged(j)  OBVIOUS
<1>1. call' = [call EXCEPT ![k] = NoCall] /\ call \in [Calls -> {NoCall} \cup Requests]
  BY DEF Finished, SlotTypes
<1>2. CASE j = k  BY <1>1, <1>2 DEF Aged
<1>3. CASE j # k
  <2>1. call'[j] = call[j]  BY <1>1, <1>3
  <2> QED BY <2>1 DEF Aged
<1> QED BY <1>2, <1>3

\* A request that goes to its next step: from its preparation only with nothing found.
LEMMA StepAges ==
    ASSUME SlotTypes, NEW k \in Calls, call[k] # NoCall, NEW step, StepTo(k, step),
           call[k].step # "prepare" \/ ~Contains(retained[call[k].w], Key(k))
    PROVE  \A j \in Calls : Aged(j)
<1> SUFFICES ASSUME NEW j \in Calls PROVE Aged(j)  OBVIOUS
<1>1. /\ call' = [call EXCEPT ![k].step = step] /\ call \in [Calls -> {NoCall} \cup Requests]
      /\ call[k] \in Requests
  BY DEF StepTo, SlotTypes
<1>2. CASE j = k
  <2>1. /\ call'[k].w = call[k].w /\ call'[k].input = call[k].input
        /\ call'[k].dev = call[k].dev
    BY <1>1 DEF Requests
  <2> QED BY <1>2, <2>1 DEF Aged
<1>3. CASE j # k
  <2>1. call'[j] = call[j]  BY <1>1, <1>3
  <2> QED BY <2>1 DEF Aged
<1> QED BY <1>2, <1>3

\* A waiter that goes takes its request along or leaves a blocking task behind.
LEMMA WaiterAges ==
    ASSUME SlotTypes, NEW k \in Calls, WaiterGoes(k)
    PROVE  UNCHANGED <<retained, bytes>> /\ \A j \in Calls : Aged(j)
<1>1. UNCHANGED <<retained, bytes>>  BY DEF WaiterGoes
<1>2. CASE Finished(k)  BY <1>1, <1>2, FinishedAges
<1>3. CASE call' = [call EXCEPT ![k].waiting = FALSE]
  <2> SUFFICES ASSUME NEW j \in Calls PROVE Aged(j)  BY <1>1
  <2>1. /\ call \in [Calls -> {NoCall} \cup Requests] /\ call[k] # NoCall /\ call[k] \in Requests
    BY DEF WaiterGoes, SlotTypes
  <2>2. CASE j = k
    <3>1. /\ call'[k].w = call[k].w /\ call'[k].input = call[k].input
          /\ call'[k].dev = call[k].dev /\ call'[k].step = call[k].step
      BY <1>3, <2>1 DEF Requests
    <3> QED BY <2>1, <2>2, <3>1 DEF Aged
  <2>3. CASE j # k
    <3>1. call'[j] = call[j]  BY <1>3, <2>1, <2>3
    <3> QED BY <3>1 DEF Aged
  <2> QED BY <2>2, <2>3
<1> QED BY <1>1, <1>2, <1>3 DEF WaiterGoes

\* A request that is taken has yet to be prepared.
LEMMA AcceptAges ==
    ASSUME SlotTypes, NEW k \in Calls, NEW w \in Workers, NEW i \in Inputs, NEW d, Accept(k, w, i, d)
    PROVE  UNCHANGED <<retained, bytes>> /\ \A j \in Calls : Aged(j)
<1>1. UNCHANGED <<retained, bytes>>  BY DEF Accept
<1> SUFFICES ASSUME NEW j \in Calls PROVE Aged(j)  BY <1>1
<1>2. /\ call' = [call EXCEPT ![k] = [w |-> w, input |-> i, dev |-> d, step |-> "prepare",
                                      waiting |-> TRUE]]
      /\ call \in [Calls -> {NoCall} \cup Requests]
  BY DEF Accept, SlotTypes
<1>3. CASE j = k  BY <1>2, <1>3 DEF Aged
<1>4. CASE j # k
  <2>1. call'[j] = call[j]  BY <1>2, <1>4
  <2> QED BY <2>1 DEF Aged
<1> QED BY <1>3, <1>4

\* Nothing retained is sound.
LEMMA NoneRetained == RowsSound(<<>>, 0)
<1>1. <<>> \in Seq(Keys) /\ Len(<<>>) = 0 /\ DOMAIN <<>> = {}  OBVIOUS
<1>2. IsInjective(<<>>) /\ Range(<<>>) = {}  BY <1>1 DEF IsInjective, Range
<1>3. Total(<<>>) = 0
  <2>1. Units({}) = {}  BY DEF Units
  <2> QED BY <1>1, <1>2, <2>1, RowsFinite, FS_EmptySet
<1> QED BY <1>1, <1>2, <1>3, WorkerAssumption DEF RowsSound

\* The text of a job is retained for its own worker, where nobody else is.
LEMMA TextKeeps ==
    ASSUME SlotsInv, CacheInv, NEW k \in Calls, NativeText(k)
    PROVE  CacheInv'
<1> DEFINE v == call[k].w
           cache == Inserted(retained[v], bytes[v], Key(k))
<1>1. call[k] # NoCall /\ call[k] \in Requests /\ Finished(k) /\ SlotTypes
  BY DEF NativeText, NativeEnds, AtStep, SlotsInv, SlotTypes
<1>2. v \in Workers /\ Key(k) \in Keys /\ \A j \in Calls : call[j] # NoCall /\ call[j].w = v => j = k
  BY <1>1 DEF Requests, Key, Keys, SlotsInv, SlotsExact, SlotsAt, OnWorker
<1>3. retained' = [retained EXCEPT ![v] = cache.rows] /\ bytes' = [bytes EXCEPT ![v] = cache.bytes]
  BY DEF NativeText
<1>4. RowsSound(cache.rows, cache.bytes)
  BY <1>2, InsertedSound DEF CacheInv, Kept
<1> HIDE DEF cache
<1>5. Kept'
  <2>1. cache.rows \in Seq(Keys) /\ cache.bytes \in Nat  BY <1>4, RowsFinite DEF RowsSound
  <2>2. retained' \in [Workers -> Seq(Keys)] /\ bytes' \in [Workers -> Nat]
    BY <1>3, <2>1 DEF CacheInv, Kept
  <2>3. \A w \in Workers : RowsSound(retained'[w], bytes'[w])
    BY <1>2, <1>3, <1>4 DEF CacheInv, Kept
  <2> QED BY <2>2, <2>3 DEF Kept
<1>6. ASSUME NEW j \in Calls, call'[j] # NoCall, call'[j].step # "prepare"
      PROVE  ~Contains(retained'[call'[j].w], Key(j)')
  <2>1. j # k /\ call'[j] = call[j]  BY <1>1, <1>6 DEF Finished, SlotTypes
  <2>2. call[j].w # v /\ call[j].w \in Workers
    BY <1>1, <1>2, <1>6, <2>1 DEF SlotTypes, Requests
  <2>3. retained'[call[j].w] = retained[call[j].w]  BY <1>3, <2>2 DEF CacheInv, Kept
  <2>4. ~Contains(retained[call[j].w], Key(j))  BY <1>6, <2>1 DEF CacheInv, Fresh
  <2> QED BY <2>1, <2>3, <2>4 DEF Key
<1> QED BY <1>5, <1>6 DEF CacheInv, Fresh

\* The oldest row reaches its age.
LEMMA ExpiryKeeps ==
    ASSUME SlotTypes, CacheInv, NEW v \in Workers, RetainedExpires(v)
    PROVE  CacheInv'
<1>1. /\ retained[v] # <<>> /\ call' = call
      /\ bytes' = [bytes EXCEPT ![v] = bytes[v] - Weight[Head(retained[v])[1]]]
      /\ retained' = [retained EXCEPT ![v] = Tail(retained[v])]
  BY DEF RetainedExpires
<1>2. RowsSound(Tail(retained[v]), bytes[v] - Weight[Head(retained[v])[1]])
  BY <1>1, Popped DEF CacheInv, Kept
<1>3. Kept'
  <2>1. /\ Tail(retained[v]) \in Seq(Keys) /\ bytes[v] - Weight[Head(retained[v])[1]] \in Nat
    BY <1>2, RowsFinite DEF RowsSound
  <2>2. retained' \in [Workers -> Seq(Keys)] /\ bytes' \in [Workers -> Nat]
    BY <1>1, <2>1 DEF CacheInv, Kept
  <2>3. \A w \in Workers : RowsSound(retained'[w], bytes'[w])
    BY <1>1, <1>2 DEF CacheInv, Kept
  <2> QED BY <2>2, <2>3 DEF Kept
<1>4. ASSUME NEW j \in Calls, call[j] # NoCall, call[j].step # "prepare"
      PROVE  ~Contains(retained'[call[j].w], Key(j))
  <2>1. ~Contains(retained[call[j].w], Key(j)) /\ call[j].w \in Workers
    BY <1>4 DEF CacheInv, Fresh, SlotTypes, Requests
  <2>2. CASE call[j].w # v
    BY <1>1, <2>1, <2>2 DEF CacheInv, Kept
  <2>3. CASE call[j].w = v
    <3>1. retained[v] \in Seq(Keys) /\ retained'[v] = Tail(retained[v])  BY <1>1 DEF CacheInv, Kept
    <3>2. /\ Len(Tail(retained[v])) = Len(retained[v]) - 1
          /\ \A m \in 1 .. Len(retained[v]) - 1 : Tail(retained[v])[m] = retained[v][m + 1]
      BY <1>1, <3>1
    <3>3. \A m \in 1 .. Len(retained[v]) - 1 : m + 1 \in 1 .. Len(retained[v])  BY <3>1
    <3> QED BY <2>1, <2>3, <3>1, <3>2, <3>3 DEF Contains
  <2> QED BY <2>2, <2>3
<1> QED BY <1>1, <1>3, <1>4 DEF CacheInv, Fresh, Key

\* A restart forgets what its worker retained, and ends what it still worked on.
LEMMA ForgottenKeeps ==
    ASSUME SlotTypes, CacheInv, NEW v \in Workers, WorkerRestart(v)
    PROVE  CacheInv'
<1>1. /\ retained' = [retained EXCEPT ![v] = <<>>] /\ bytes' = [bytes EXCEPT ![v] = 0]
      /\ call' = [j \in Calls |-> IF j \in OnWorker(v) THEN NoCall ELSE call[j]]
  BY DEF WorkerRestart
<1>2. Kept'
  <2>1. retained' \in [Workers -> Seq(Keys)] /\ bytes' \in [Workers -> Nat]
    BY <1>1 DEF CacheInv, Kept
  <2>2. \A w \in Workers : RowsSound(retained'[w], bytes'[w])
    BY <1>1, NoneRetained DEF CacheInv, Kept
  <2> QED BY <2>1, <2>2 DEF Kept
<1>3. ASSUME NEW j \in Calls, call'[j] # NoCall, call'[j].step # "prepare"
      PROVE  ~Contains(retained'[call'[j].w], Key(j)')
  <2>1. j \notin OnWorker(v) /\ call'[j] = call[j]  BY <1>1, <1>3
  <2>2. call[j].w # v /\ call[j].w \in Workers
    BY <1>3, <2>1 DEF OnWorker, SlotTypes, Requests
  <2>3. retained'[call[j].w] = retained[call[j].w]  BY <1>1, <2>2 DEF CacheInv, Kept
  <2>4. ~Contains(retained[call[j].w], Key(j))  BY <1>3, <2>1 DEF CacheInv, Fresh
  <2> QED BY <2>1, <2>3, <2>4 DEF Key
<1> QED BY <1>2, <1>3 DEF CacheInv, Fresh

\* Nothing else of the state matters.
LEMMA CacheDepend ==
    ASSUME CacheInv, UNCHANGED <<call, retained, bytes>>
    PROVE  CacheInv'
BY DEF CacheInv, Kept, Fresh, Key

\* The steps of a request.
LEMMA WorkerStepCaches ==
    ASSUME SlotsInv, CacheInv, NEW k \in Calls, WorkerStep(k)
    PROVE  CacheInv'
<1>1. SlotTypes  BY DEF SlotsInv
<1>2. CASE Proceed(k)
  <2>1. UNCHANGED <<retained, bytes>>
    BY <1>2 DEF Proceed, PreparedMiss, PreparedForNobody, ObserveLoad, LoadObserved, ProbeGpu,
                GpuProbed, NativeStarts
  <2>2. CASE PreparedForNobody(k)
    <3>1. Finished(k)  BY <2>2 DEF PreparedForNobody
    <3> QED BY <1>1, <2>1, <3>1, FinishedAges, AgedKeeps
  <2>3. CASE PreparedMiss(k)
    <3>1. /\ call[k] # NoCall /\ StepTo(k, "load")
          /\ ~Contains(retained[call[k].w], Key(k))
      BY <2>3 DEF PreparedMiss, AtStep
    <3> QED BY <1>1, <2>1, <3>1, StepAges, AgedKeeps
  <2>4. CASE ObserveLoad(k) \/ LoadObserved(k) \/ ProbeGpu(k) \/ GpuProbed(k) \/ NativeStarts(k)
    <3>1. /\ call[k] # NoCall /\ call[k].step # "prepare"
          /\ \E step : StepTo(k, step)
      BY <2>4 DEF ObserveLoad, LoadObserved, ProbeGpu, GpuProbed, NativeStarts, AtStep, Admitted
    <3> QED BY <1>1, <2>1, <3>1, StepAges, AgedKeeps
  <2> QED BY <1>2, <2>2, <2>3, <2>4 DEF Proceed
<1>3. CASE Answer(k)
  <2>1. CASE NativeText(k)  BY <2>1, TextKeeps
  <2>2. CASE \/ PreparedHit(k) \/ LoadLocked(k) \/ LoadRejects(k) \/ GpuRejects(k)
             \/ NativeTooLate(k) \/ NativeFails(k)
    <3>1. Finished(k) /\ UNCHANGED <<retained, bytes>>
      BY <2>2 DEF PreparedHit, LoadLocked, LoadRejects, GpuRejects, NativeTooLate, NativeFails,
                  NativeEnds
    <3> QED BY <1>1, <3>1, FinishedAges, AgedKeeps
  <2> QED BY <1>3, <2>1, <2>2 DEF Answer
<1> QED BY <1>2, <1>3 DEF WorkerStep

\* The steps of a client reach the worker only through Accept and a waiter that goes.
LEMMA ClientCaches ==
    ASSUME SlotTypes, CacheInv, NEW c \in Clients,
           ClientStep(c) \/ ClientDeadline(c) \/ ConnectionBreaks(c)
    PROVE  CacheInv'
<1>1. CASE ClientStep(c)
  <2>1. \/ UNCHANGED worker
        \/ \E k \in Calls, w \in Workers, i \in Inputs : \E d \in Devices(w) : Accept(k, w, i, d)
    BY <1>1 DEF ClientStep, Scan, Try, Send
  <2> QED BY <2>1, AcceptAges, AgedKeeps, CacheDepend DEF worker
<1>2. CASE ClientDeadline(c) \/ ConnectionBreaks(c)
  <2>1. UNCHANGED worker \/ \E k \in Calls : WaiterGoes(k)
    BY <1>2 DEF ClientDeadline, ConnectionBreaks, Abandoned
  <2> QED BY <2>1, WaiterAges, AgedKeeps, CacheDepend DEF worker
<1> QED BY <1>1, <1>2

\* What is retained is sound from the start, and every action of Next keeps it so.
LEMMA CacheInvariance == Spec => []CacheInv
<1>1. Init => CacheInv
  <2> SUFFICES ASSUME Init PROVE CacheInv  OBVIOUS
  <2>1. /\ retained = [w \in Workers |-> <<>>] /\ bytes = [w \in Workers |-> 0]
        /\ \A k \in Calls : call[k] = NoCall
    BY DEF Init, WorkerInit
  <2>2. <<>> \in Seq(Keys)  OBVIOUS
  <2> QED BY <2>1, <2>2, NoneRetained DEF CacheInv, Kept, Fresh
<1>2. SlotsInv /\ CacheInv /\ [Next]_vars => CacheInv'
  <2> SUFFICES ASSUME SlotsInv, CacheInv, [Next]_vars PROVE CacheInv'  OBVIOUS
  <2>1. SlotTypes  BY DEF SlotsInv
  <2>2. ASSUME NEW c \in Clients, NEW i \in Inputs, Retry(c, i) PROVE CacheInv'
    BY <2>2, CacheDepend DEF Retry, worker
  <2>3. ASSUME NEW c \in Clients, ClientStep(c) \/ ClientDeadline(c) \/ ConnectionBreaks(c)
        PROVE  CacheInv'
    BY <2>1, <2>3, ClientCaches
  <2>4. ASSUME NEW c \in Clients, NEW w \in Workers, TimePasses(c, w) PROVE CacheInv'
    BY <2>4, CacheDepend DEF TimePasses, worker
  <2>5. ASSUME NEW k \in Calls, WorkerStep(k) PROVE CacheInv'
    BY <2>5, WorkerStepCaches
  <2>6. ASSUME NEW k \in Calls, ProbeTimeout(k) PROVE CacheInv'
    <3>1. Finished(k) /\ UNCHANGED <<retained, bytes>>  BY <2>6 DEF ProbeTimeout
    <3> QED BY <2>1, <3>1, FinishedAges, AgedKeeps
  <2>7. ASSUME NEW k \in Calls, WorkerDeadline(k) PROVE CacheInv'
    BY <2>1, <2>7, WaiterAges, AgedKeeps DEF WorkerDeadline
  <2>8. ASSUME NEW w \in Workers, Poll(w) \/ PollEnds(w) PROVE CacheInv'
    BY <2>8, CacheDepend DEF Poll, PollEnds, PollLoad, PollProbe, PollLoadEnds, PollProbeEnds
  <2>9. ASSUME NEW w \in Workers, RetentionEnds(w) PROVE CacheInv'
    BY <2>1, <2>9, ExpiryKeeps DEF RetentionEnds
  <2>10. ASSUME NEW w \in Workers, WorkerRestart(w) PROVE CacheInv'
    BY <2>1, <2>10, ForgottenKeeps
  <2>11. CASE UNCHANGED vars  BY <2>11, CacheDepend DEF vars, worker
  <2> QED BY <2>2, <2>3, <2>4, <2>5, <2>6, <2>7, <2>8, <2>9, <2>10, <2>11 DEF Next
<1> QED BY <1>1, <1>2, SlotsInvariance, PTL DEF Spec

\* What reached the index processes are inputs, and troubles stay within their bound.
Reported == answered \in [Indexes -> SUBSET Inputs] /\ trouble \in 0 .. MaxTrouble

\* An answer reports what its lane asked for.
LEMMA ReportedKeeps == Spec => []Reported
<1>1. Init => Reported  BY MeshAssumption DEF Init, Reported
<1>2. Reported /\ ClaimsInv /\ [Next]_vars => Reported'
  <2> SUFFICES ASSUME Reported, ClaimsInv, [Next]_vars PROVE Reported'  OBVIOUS
  <2>1. \A c \in Clients : lane[c].input \in SUBSET Inputs
    BY DEF ClaimsInv, ClientTyped, LaneTypes
  <2>2. trouble' \in 0 .. MaxTrouble
    <3>1. Trouble => trouble' \in 0 .. MaxTrouble  BY MeshAssumption DEF Trouble, Reported
    <3>2. UNCHANGED trouble => trouble' \in 0 .. MaxTrouble  BY DEF Reported
    <3>3. Trouble \/ UNCHANGED trouble
      BY DEF Next, vars, Retry, ClientStep, Scan, Try, Send, ClientDeadline, Late, ConnectionBreaks,
             TimePasses, WorkerStep, Proceed, Answer, ProbeTimeout, WorkerDeadline, Poll, PollEnds,
             RetentionEnds, WorkerRestart
    <3> QED BY <3>1, <3>2, <3>3
  <2>3. answered' \in [Indexes -> SUBSET Inputs]
    <3>1. ASSUME NEW k \in Calls, NEW reply, Replied(k, reply)
          PROVE  answered' \in [Indexes -> SUBSET Inputs]
      BY <2>1, <3>1 DEF Replied, Waiters, Reported
    <3>2. UNCHANGED answered => answered' \in [Indexes -> SUBSET Inputs]  BY DEF Reported
    <3>3. UNCHANGED answered \/ \E k \in Calls : \E reply : Replied(k, reply)
      BY DEF Next, vars, Retry, ClientStep, Scan, Try, Send, ClientDeadline, ConnectionBreaks,
             TimePasses, WorkerStep, Proceed, Answer, ProbeTimeout, WorkerDeadline, Poll, PollEnds,
             RetentionEnds, WorkerRestart
    <3> QED BY <3>1, <3>2, <3>3
  <2> QED BY <2>2, <2>3 DEF Reported
<1> QED BY <1>1, <1>2, ClaimsInvariance, PTL DEF Spec

\* For any number of workers, inputs and retained results: the cache of a worker counts
\* its bytes, keeps within both of its limits and holds no text twice, and no content is
\* recognised again on a device while its text is retained (RetainedResults and extract
\* of src/src/compute.rs).
THEOREM RetainedSoundHolds == Spec => []RetainedSound
<1>1. SlotsInv /\ CacheInv /\ Reported => RetainedSound
  <2> SUFFICES ASSUME SlotsInv, CacheInv, Reported PROVE RetainedSound  OBVIOUS
  <2>1. TypeOK
    BY DEF TypeOK, WorkerTypeOK, SlotsInv, CacheInv, Kept, Reported
  <2>2. RetainedWithinBudget  BY DEF RetainedWithinBudget, CacheInv, Kept, RowsSound
  <2>3. NoRepeatedInference  BY DEF NoRepeatedInference, AtStep, CacheInv, Fresh
  <2> QED BY <2>1, <2>2, <2>3 DEF RetainedSound
<1> QED BY <1>1, SlotsInvariance, CacheInvariance, ReportedKeeps, PTL
=============================================================================
