------------------------------ MODULE MeshOcr ------------------------------
(***************************************************************************)
(* Mesh OCR end to end: clients of index processes (ComputeClient) and the *)
(* workers they call (ComputeWorker), with what goes wrong between them:   *)
(* status polls of others, hosts that are busy, requests and answers that  *)
(* are lost, deadlines that pass and workers that restart.  An input that  *)
(* is not answered stays queued and is tried again (OcrQueue).             *)
(***************************************************************************)
EXTENDS ComputeClient, ComputeWorker

CONSTANTS
    MaxTrouble   \* bound on polls, rejections, losses, failures and restarts together

ASSUME MeshAssumption == MaxTrouble \in Nat /\ Peers = Workers

VARIABLES
    answered, \* the inputs whose text reached each index process
    trouble   \* how often something went wrong so far

vars == <<client, worker, answered, trouble>>

\* A name for the next request.
FreeCall == CHOOSE k \in Calls : call[k] = NoCall \/ \A j \in Calls : call[j] # NoCall
Trouble == trouble < MaxTrouble /\ trouble' = trouble + 1

Init ==
    /\ ClientInit /\ WorkerInit
    /\ answered = [ix \in Indexes |-> {}] /\ trouble = 0

-----------------------------------------------------------------------------
(* The client's steps.                                                     *)

Retry(c, i) ==
    /\ i \notin answered[owner[c]]
    /\ Begin(c, i)
    /\ UNCHANGED <<worker, answered, trouble>>

\* A status offers every device of a worker that was free, unless its load forbade
\* it, and nothing while its slot is taken.
Scan(c, w) ==
    /\ \/ ScanSkip(c, w) /\ UNCHANGED trouble
       \/ ScanStatus(c, w, {}) /\ permits[w] = 0 /\ UNCHANGED trouble
       \/ ScanStatus(c, w, Devices(w)) /\ UNCHANGED trouble
       \/ \E devices \in SUBSET Devices(w) \ {Devices(w)} : ScanStatus(c, w, devices) /\ Trouble
       \/ ScanFails(c, w) /\ Trouble
    /\ UNCHANGED <<worker, answered>>

\* The candidate's turn: refresh and claim.
Try(c, w, d) ==
    /\ \/ RefreshFails(c, w, d) /\ (IF permits[w] = 0 THEN UNCHANGED trouble ELSE Trouble)
       \/ ClaimLost(c, w, d) /\ UNCHANGED trouble
       \/ ClaimWorker(c, w, d) /\ UNCHANGED trouble
    /\ UNCHANGED <<worker, answered>>

\* The request is taken by the worker, refused by it, or lost.
Send(c, w, d) ==
    \/ \E i \in Inputs, k \in Calls :
          /\ lane[c].input = {i} /\ k = FreeCall
          /\ Arrives(c, w, d, k) /\ Accept(k, w, i, d)
          /\ UNCHANGED <<answered, trouble>>
    \/ \E i \in Inputs :
          /\ lane[c].input = {i} /\ ~Accepts(w, i)
          /\ Refused(c, w, d, IF IntakeBusy(w, i) THEN "error" ELSE "busy")
          /\ UNCHANGED <<worker, answered, trouble>>
    \/ /\ Refused(c, w, d, "error") /\ Trouble
       /\ UNCHANGED <<worker, answered>>

-----------------------------------------------------------------------------
(* The worker's steps, and what the waiting client makes of the answer.    *)

\* The clients that still wait for the answer to k.
Waiters(k) == {c \in Clients : lane[c].pc = "call" /\ CallOf(c) = k}

Replied(k, reply) ==
    \/ /\ Waiters(k) = {}
       /\ UNCHANGED <<client, answered>>
    \/ \E c \in Waiters(k) :
          /\ Receives(c, reply)
          /\ answered' = [answered EXCEPT ![owner[c]] =
                            IF reply = "text" THEN @ \cup lane[c].input ELSE @]

\* Steps of a request that answer nobody.
Proceed(k) ==
    /\ \/ PreparedMiss(k) \/ PreparedForNobody(k) \/ ObserveLoad(k) \/ LoadObserved(k)
       \/ ProbeGpu(k) \/ GpuProbed(k) \/ NativeStarts(k)
    /\ UNCHANGED <<client, answered, trouble>>

\* Steps of a request that end it with an answer.
Answer(k) ==
    \/ PreparedHit(k) /\ Replied(k, "text") /\ UNCHANGED trouble
    \/ LoadLocked(k) /\ Replied(k, "error") /\ UNCHANGED trouble
    \/ LoadRejects(k) /\ (Replied(k, "busy") \/ Replied(k, "error")) /\ Trouble
    \/ GpuRejects(k) /\ Replied(k, "error") /\ Trouble
    \/ NativeTooLate(k) /\ Replied(k, "error") /\ Trouble
    \/ NativeText(k) /\ Replied(k, "text") /\ UNCHANGED trouble
    \/ /\ NativeFails(k) /\ Trouble
       /\ \E reply \in {"failure", "invalid", "error"} : Replied(k, reply)

\* The probe lock is not free within three seconds.
ProbeTimeout(k) ==
    /\ AtStep(k, "probe") /\ probeLock[call[k].w] # "free"
    /\ Finished(k) /\ Replied(k, "error")
    /\ UNCHANGED <<loadLock, probeLock, retained, bytes, trouble>>

\* The deadline of a job that is slow passes as a matter of course.
Late(k) == IF AtStep(k, "native") /\ call[k].input \in Slow THEN UNCHANGED trouble ELSE Trouble

\* The worker's own deadline, on the native job.
WorkerDeadline(k) ==
    /\ AtStep(k, "queued") \/ AtStep(k, "native")
    /\ WaiterGoes(k) /\ Replied(k, "error") /\ Late(k)

\* The handler of a request whose client has gone is dropped, or a relay keeps it
\* until it answers.
Abandoned(k) == WaiterGoes(k) \/ UNCHANGED worker

\* The client's deadline, and a connection that breaks before it.
ClientDeadline(c) ==
    \/ \E k \in Calls :
          /\ c \in Waiters(k)
          /\ Expires(c) /\ Abandoned(k) /\ Late(k)
          /\ UNCHANGED answered
    \/ /\ ExpiresEarly(c) \/ (lane[c].pc = "send" /\ Expires(c))
       /\ Trouble /\ UNCHANGED <<worker, answered>>
ConnectionBreaks(c) ==
    \E k \in Calls :
        /\ c \in Waiters(k)
        /\ Receives(c, "error") /\ Abandoned(k) /\ Trouble
        /\ UNCHANGED answered

-----------------------------------------------------------------------------
(* The environment.                                                        *)

Poll(w) ==
    /\ PollLoad(w) \/ PollProbe(w)
    /\ Trouble /\ UNCHANGED <<client, answered>>
PollEnds(w) ==
    /\ PollLoadEnds(w) \/ PollProbeEnds(w)
    /\ UNCHANGED <<client, answered, trouble>>

RetentionEnds(w) == RetainedExpires(w) /\ Trouble /\ UNCHANGED <<client, answered>>

TimePasses(c, w) ==
    /\ CooldownEnds(c, w)
    /\ UNCHANGED <<worker, answered, trouble>>

\* The worker process is restarted with nobody waiting for it; what it retained
\* and what it was still working on is gone.
WorkerRestart(w) ==
    /\ \A k \in OnWorker(w) : Waiters(k) = {}
    /\ call' = [k \in Calls |-> IF k \in OnWorker(w) THEN NoCall ELSE call[k]]
    /\ permits' = [permits EXCEPT ![w] = 1] /\ intake' = [intake EXCEPT ![w] = 1]
    /\ loadLock' = [loadLock EXCEPT ![w] = "free"] /\ probeLock' = [probeLock EXCEPT ![w] = "free"]
    /\ retained' = [retained EXCEPT ![w] = <<>>] /\ bytes' = [bytes EXCEPT ![w] = 0]
    /\ Trouble /\ UNCHANGED <<client, answered>>

ClientStep(c) ==
    \E w \in Workers : Scan(c, w) \/ \E d \in Devices(w) : Try(c, w, d) \/ Send(c, w, d)
WorkerStep(k) == Proceed(k) \/ Answer(k)

Next ==
    \/ \E c \in Clients :
          \/ \E i \in Inputs : Retry(c, i)
          \/ ClientStep(c) \/ ClientDeadline(c) \/ ConnectionBreaks(c)
          \/ \E w \in Workers : TimePasses(c, w)
    \/ \E k \in Calls : WorkerStep(k) \/ ProbeTimeout(k) \/ WorkerDeadline(k)
    \/ \E w \in Workers : Poll(w) \/ PollEnds(w) \/ RetentionEnds(w) \/ WorkerRestart(w)

Spec == Init /\ [][Next]_vars

\* What is bounded by MaxTrouble happens finitely often.  Lanes and blocking jobs
\* run, deadlines and cooldowns pass, and the queue comes
\* back to every slow input it still holds.
FairSpec ==
    /\ Spec
    /\ \A i \in Slow, ix \in Indexes : SF_vars(\E c \in Clients : owner[c] = ix /\ Retry(c, i))
    /\ \A c \in Clients : WF_vars(ClientStep(c) \/ ClientDeadline(c))
    /\ \A c \in Clients, w \in Workers : WF_vars(TimePasses(c, w))
    /\ \A w \in Workers :
          /\ WF_vars(\E k \in OnWorker(w) : WorkerStep(k) \/ WorkerDeadline(k))
          /\ WF_vars(PollEnds(w))

-----------------------------------------------------------------------------
(* Properties; the others are ComputeWorker's and ComputeClient's.         *)

\* Every reachable state has the shape that the declarations describe.
TypeOK ==
    /\ WorkerTypeOK
    /\ answered \in [Indexes -> SUBSET Inputs]
    /\ trouble \in 0 .. MaxTrouble

\* What a worker retains: its rows are well formed and within both limits, and no
\* content is recognised again on a device while its text is among them.
RetainedSound == TypeOK /\ RetainedWithinBudget /\ NoRepeatedInference

\* "Keep its successful output for the same content/type retry, rather than ...
\* losing every result that takes longer than the waiting deadline": an input
\* whose inference outlives every waiter is answered all the same.
SlowAnswered == <>(\A i \in Slow, c \in Clients : i \in answered[owner[c]])
=============================================================================
