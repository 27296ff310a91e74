---------------------------- MODULE SearchJobs ----------------------------
(***************************************************************************)
(* The search job registry of grepmesh (src/src/jobs.rs).                  *)
(*                                                                         *)
(* A search is a job with one task per target host.  Tasks merge what the  *)
(* hosts answer into the job; clients poll the job page by page and follow *)
(* the cursor of each reply.  Every change is written to a JSON artifact,  *)
(* so that a restarted service can still answer for the job.               *)
(*                                                                         *)
(* Every operation holds the registry's mutex from its first to its last   *)
(* access, so an operation is one action; start_internal releases the lock *)
(* between inserting the job and registering its telemetry, so it is two.  *)
(*                                                                         *)
(* Sizes: an artifact costs one unit per result, cursor, host status and   *)
(* hub id (plus one for a durability error).                               *)
(***************************************************************************)
EXTENDS Integers, FiniteSets, Sequences, SequencesExt, FiniteSetsExt, Functions

CONSTANTS
    Jobs,         \* job ids: random handles, ordered as file names are
    Hosts,        \* mesh hosts a search may target
    Keys,         \* what merge_result identifies a hit by
    Answers,      \* [Hosts -> set of answers], an answer is a record of AnswerType
    Handles,      \* cursor handles: random, ordered as strings are
    Limit,        \* job.limit
    PageMax,      \* page sizes a client asks for are 1..PageMax
    MaxJobs,      \* MAX_JOBS
    MaxCursors,   \* MAX_CURSORS_PER_JOB
    MaxBytes,     \* search_job_max_bytes, in the units above
    StoreMaxBytes,\* search_job_store_max_bytes, in the units above
    Ttl,          \* search_job_ttl_ms, in clock ticks
    MaxTelemetry, \* MAX_TELEMETRY_RECORDS
    TelemetryAge, \* TELEMETRY_MAX_AGE_MS, in clock ticks
    IoFaults,     \* whether writes and deletions may fail
    MaxClock,     \* bound on the clock
    MaxRestarts,  \* bound on the number of restarts
    Absent        \* no job in the map, no artifact, no cursor

HostStates == {"ok", "partial", "failed"}
AnswerType == [hits : Seq(Keys), state : HostStates, truncated : BOOLEAN]

ASSUME JobsAssumption == Jobs \subseteq Nat
ASSUME FiniteAssumption == IsFiniteSet(Hosts) /\ IsFiniteSet(Handles) /\ Handles \subseteq Nat
ASSUME BoundsAssumption ==
    /\ Limit \in Nat /\ PageMax \in Nat \ {0}
    /\ MaxJobs \in Nat \ {0} /\ MaxCursors \in Nat
    /\ MaxBytes \in Nat /\ StoreMaxBytes \in Nat
    /\ Ttl \in Nat \ {0} /\ MaxTelemetry \in Nat /\ TelemetryAge \in Nat \ {0}
    /\ MaxClock \in Nat /\ MaxRestarts \in Nat
    /\ IoFaults \in BOOLEAN
ASSUME AnswersAssumption ==
    /\ DOMAIN Answers = Hosts
    /\ \A h \in Hosts : \A a \in Answers[h] :
          /\ a.hits \in Seq(Keys) /\ a.state \in HostStates /\ a.truncated \in BOOLEAN

VARIABLES
    jobs,      \* SearchJobs.inner: [Jobs -> SearchJob or Absent]
    disk,      \* the artifact of each job: [Jobs -> PersistedSearchJob or Absent]
    tasks,     \* the spawned task of each job and host
    phase,     \* how far start_internal got for each job id
    targets,   \* the hosts start_internal resolved
    telPending,\* TelemetryStore.pending: start time, or -1
    records,   \* TelemetryStore.records: finished searches, oldest first
    telDisk,   \* telemetry.json
    clock,     \* now_ms
    restarts,  \* number of restarts so far
    issued,    \* cursor handles ever returned for a job
    follower,  \* per job, a client that polls with the cursor of the last reply
    toldDone   \* jobs some reply called "complete"

vars == <<jobs, disk, tasks, phase, targets, telPending, records, telDisk,
          clock, restarts, issued, follower, toldDone>>

NoOffset == -1
TaskPhases == {"idle", "direct", "hub", "admitted", "doomed"}
StartPhases == {"unused", "starting", "orphan", "returned"}

SearchJob ==
    [created : Nat, pending : SUBSET Hosts, status : [Hosts -> HostStates \cup {"none"}],
     results : Seq(Keys), seen : SUBSET Keys, truncated : BOOLEAN,
     cursors : [Handles -> Nat \cup {NoOffset}], lost : BOOLEAN, durErr : BOOLEAN,
     hub : SUBSET Hosts]

TelemetryRecord ==
    [job : Jobs, finished : Nat, status : {"complete", "partial", "failed"}, count : Nat]

Follower ==
    [state : {"following", "done", "failed", "broken"},
     cursor : Handles \cup {NoOffset}, got : Seq(Keys)]

\* Every reachable state has the shape that the declarations describe.
TypeOK ==
    /\ jobs \in [Jobs -> SearchJob \cup {Absent}]
    /\ disk \in [Jobs -> SearchJob \cup {Absent}]
    /\ tasks \in [Jobs -> [Hosts -> TaskPhases]]
    /\ phase \in [Jobs -> StartPhases]
    /\ targets \in [Jobs -> SUBSET Hosts]
    /\ telPending \in [Jobs -> Nat \cup {-1}]
    /\ records \in Seq(TelemetryRecord)
    /\ telDisk \in Seq(TelemetryRecord)
    /\ clock \in Nat
    /\ restarts \in Nat
    /\ issued \in [Jobs -> SUBSET Handles]
    /\ follower \in [Jobs -> Follower]
    /\ toldDone \in SUBSET Jobs

-----------------------------------------------------------------------------
(* The map and the artifact store. *)

Expired(created) == clock - created >= Ttl

\* The order in which both evictions give up jobs: by age, then by id.
Older(t1, j1, t2, j2) == t1 < t2 \/ (t1 = t2 /\ j1 < j2)

CursorSet(job) == {c \in Handles : job.cursors[c] # NoOffset}

\* Serialized size of a job without its results.
Overhead(job) ==
    Cardinality(CursorSet(job)) + Cardinality({h \in Hosts : job.status[h] # "none"})
      + Cardinality(job.hub) + (IF job.durErr THEN 1 ELSE 0)

Size(job) == Overhead(job) + Len(job.results)

\* What the artifacts of jobs S in store d take up together, counted unit by unit.
StoreBytes(d, S) == Cardinality(UNION {{k} \X (1 .. Size(d[k])) : k \in S})

\* The jobs of map m that prune keeps: not expired, and among the MaxJobs newest.
KeptJobs(m) ==
    LET live == {j \in Jobs : m[j] # Absent /\ ~Expired(m[j].created)}
    IN {j \in live :
          Cardinality({k \in live : Older(m[j].created, j, m[k].created, k)}) < MaxJobs}

DroppedJobs(m) == {j \in Jobs : m[j] # Absent} \ KeptJobs(m)

\* prune: drop expired and surplus jobs with their artifacts, then
\* cleanup_artifacts: delete every artifact that has expired.
Prune(m, d) ==
    [mem  |-> [j \in Jobs |-> IF j \in KeptJobs(m) THEN m[j] ELSE Absent],
     disk |-> [j \in Jobs |->
                 IF j \in DroppedJobs(m) \/ d[j] = Absent THEN Absent
                 ELSE IF Expired(d[j].created) THEN Absent ELSE d[j]]]

\* A bug: only the number of artifacts is limited.
MutSweepCountOnly(d) ==
    LET stored == {j \in Jobs : d[j] # Absent}
        FromOn(j) == {k \in stored : k = j \/ Older(d[j].created, j, d[k].created, k)}
    IN [j \in Jobs |-> IF j \in stored /\ Cardinality(FromOn(j)) <= MaxJobs
                       THEN d[j] ELSE Absent]

\* enforce_store_budget: give up the oldest artifacts until both budgets hold.
EnforceStoreBudget(d) ==
    LET stored == {j \in Jobs : d[j] # Absent}
        FromOn(j) == {k \in stored : k = j \/ Older(d[j].created, j, d[k].created, k)}
    IN [j \in Jobs |->
          IF /\ j \in stored
             /\ Cardinality(FromOn(j)) <= MaxJobs
             /\ StoreBytes(d, FromOn(j)) <= StoreMaxBytes
          THEN d[j] ELSE Absent]

\* A bug: results are given up without saying so.
MutTrimSilently(job) ==
    LET room == IF Overhead(job) <= MaxBytes THEN MaxBytes - Overhead(job) ELSE 0
    IN IF Len(job.results) <= room THEN job
       ELSE [job EXCEPT !.results = SubSeq(@, 1, room)]

\* The loop of persist: pop the last result until the artifact fits.
Trim(job) ==
    LET room == IF Overhead(job) <= MaxBytes THEN MaxBytes - Overhead(job) ELSE 0
    IN IF Len(job.results) <= room THEN job
       ELSE [job EXCEPT !.results = SubSeq(@, 1, room), !.truncated = TRUE]

\* PersistedSearchJob::from_job: everything but the keys already seen.
FromJob(job) == [job EXCEPT !.seen = {}]

\* PersistedSearchJob::into_job: the seen keys are those of the kept results.
IntoJob(artifact) == [artifact EXCEPT !.seen = ToSet(artifact.results)]

\* What persist(j, job) may do to store d: write the trimmed job and sweep the
\* store; fail because even without results the artifact is too large; or, when
\* the file system fails, fail before the rename or while sweeping after it.
Persist(j, job, d) ==
    LET t == Trim(job)
        written == [d EXCEPT ![j] = FromJob(t)]
    IN (IF Size(t) <= MaxBytes
        THEN {[ok |-> TRUE, job |-> t, disk |-> EnforceStoreBudget(written)]}
             \cup IF IoFaults THEN {[ok |-> FALSE, job |-> t, disk |-> written]} ELSE {}
        ELSE {})
       \cup (IF IoFaults \/ Size(t) > MaxBytes
             THEN {[ok |-> FALSE, job |-> t, disk |-> d]} ELSE {})

\* A bug: a restored job keeps waiting for tasks that no longer exist.
MutRestoreRunning(m, d, j) ==
    IF m[j] # Absent \/ d[j] = Absent THEN m ELSE [m EXCEPT ![j] = IntoJob(d[j])]

\* A bug: every job found on disk counts as interrupted.
MutRestoreAlwaysLost(m, d, j) ==
    IF m[j] # Absent \/ d[j] = Absent THEN m
    ELSE [m EXCEPT ![j] = [IntoJob(d[j]) EXCEPT !.lost = TRUE, !.pending = {}]]

\* status_inner's reload: a job that was still running when its artifact was
\* written is lost, and its unanswered hosts count as failed.
Restore(m, d, j) ==
    IF m[j] # Absent \/ d[j] = Absent THEN m
    ELSE LET r == IntoJob(d[j])
         IN [m EXCEPT ![j] =
               IF r.pending = {} THEN r
               ELSE [r EXCEPT !.lost = TRUE, !.pending = {},
                              !.status = [h \in Hosts |->
                                            IF h \in r.pending THEN "failed" ELSE r.status[h]]]]

-----------------------------------------------------------------------------
(* Merging an answer. *)

\* Where key k first occurs in hits.
FirstAt(hits, k) == Min({i \in DOMAIN hits : hits[i] = k})

\* The hits of an answer that merge_result appends: unseen keys, in order of
\* arrival, as many as the limit still admits.
Admitted(job, hits) ==
    LET fresh == ToSet(hits) \ job.seen
        room == IF Len(job.results) < Limit THEN Limit - Len(job.results) ELSE 0
    IN {s \in UNION {[1..n -> fresh] : n \in 0..room} :
          /\ IsInjective(s)
          /\ Len(s) = room \/ ToSet(s) = fresh
          /\ \A i \in DOMAIN s : \A k \in fresh \ {s[n] : n \in 1..i} :
                FirstAt(hits, s[i]) < FirstAt(hits, k)}

\* merge_result: a duplicate or a hit beyond the limit marks the job truncated.
MergeResult(job, h, a) ==
    {[job EXCEPT !.truncated = @ \/ a.truncated \/ Len(s) < Len(a.hits),
                 !.status[h] = a.state,
                 !.results = @ \o s,
                 !.seen = @ \cup ToSet(a.hits)] : s \in Admitted(job, a.hits)}

-----------------------------------------------------------------------------
(* Telemetry. *)

\* trim_telemetry: drop records past their age, then the oldest surplus.  The
\* records are in the order in which they were finished.
TrimTelemetry(recs) ==
    LET n == Len(recs)
        aged == Cardinality({i \in 1..n : clock - recs[i].finished >= TelemetryAge})
    IN SubSeq(recs, (IF n - aged > MaxTelemetry THEN n - MaxTelemetry ELSE aged) + 1, n)

\* A bug: the pending entry survives the record made from it.
MutCompleteTelemetryKeeps(j, complete, status, count) ==
    IF telPending[j] = -1 \/ ~complete
    THEN /\ UNCHANGED <<telPending, records, telDisk>>
    ELSE /\ records' = TrimTelemetry(Append(records,
               [job |-> j, finished |-> clock, status |-> status, count |-> count]))
         /\ telDisk' = records'
         /\ UNCHANGED telPending

\* complete_telemetry: once the last host answered, the pending entry becomes a
\* record; writing telemetry.json may fail, the record in memory stays.
CompleteTelemetry(j, complete, status, count) ==
    IF telPending[j] = -1 \/ ~complete
    THEN /\ UNCHANGED <<telPending, records, telDisk>>
    ELSE /\ telPending' = [telPending EXCEPT ![j] = -1]
         /\ records' = TrimTelemetry(Append(records,
               [job |-> j, finished |-> clock, status |-> status, count |-> count]))
         /\ telDisk' = records' \/ (IoFaults /\ telDisk' = telDisk)

\* The entries start_internal keeps before it adds its own: fewer than MaxJobs.
KeptPending ==
    LET live == {j \in Jobs : telPending[j] # -1 /\ clock - telPending[j] < TelemetryAge}
    IN {j \in live : Cardinality({k \in live :
                        Older(telPending[j], j, telPending[k], k)}) < MaxJobs - 1}

RegisterPending(j) ==
    [k \in Jobs |-> IF k = j THEN clock
                    ELSE IF k \in KeptPending THEN telPending[k] ELSE -1]

AnsweredAllFailed(job) ==
    /\ \E h \in Hosts : job.status[h] # "none"
    /\ \A h \in Hosts : job.status[h] \in {"none", "failed"}

TelemetryStatus(job) ==
    IF job.durErr \/ AnsweredAllFailed(job) THEN "failed"
    ELSE IF \E h \in Hosts : job.status[h] \in {"partial", "failed"} THEN "partial"
    ELSE "complete"

-----------------------------------------------------------------------------
(* start_internal *)

NewJob(hs) ==
    [created |-> clock, pending |-> hs, status |-> [h \in Hosts |-> "none"],
     results |-> <<>>, seen |-> {}, truncated |-> FALSE,
     cursors |-> [c \in Handles |-> NoOffset], lost |-> FALSE, durErr |-> FALSE,
     hub |-> {}]

\* First critical section: prune, insert, persist.  When persist fails the call
\* returns the error: the job stays in the map, but nobody learns its id and no
\* task is ever spawned for it.
StartInsert(j, hs) ==
    /\ phase[j] = "unused"
    /\ LET p == Prune(jobs, disk) IN
       \E r \in Persist(j, NewJob(hs), p.disk) :
          /\ jobs' = [p.mem EXCEPT ![j] = r.job]
          /\ disk' = r.disk
          /\ phase' = [phase EXCEPT ![j] = IF r.ok THEN "starting" ELSE "orphan"]
    /\ targets' = [targets EXCEPT ![j] = hs]
    /\ UNCHANGED <<tasks, telPending, records, telDisk, clock, restarts, issued,
                   follower, toldDone>>

\* Rest of the call: register the search in the telemetry history (a search of
\* no hosts is complete at once, and an error writing its record is returned),
\* spawn one task per target, return the id.
StartSpawn(j, browser) ==
    /\ phase[j] = "starting"
    /\ IF targets[j] # {}
       THEN /\ telPending' = RegisterPending(j)
            /\ phase' = [phase EXCEPT ![j] = "returned"]
            /\ UNCHANGED <<records, telDisk>>
       ELSE /\ telPending' = [RegisterPending(j) EXCEPT ![j] = -1]
            /\ records' = TrimTelemetry(Append(records,
                  [job |-> j, finished |-> clock, status |-> "complete", count |-> 0]))
            /\ \/ telDisk' = records' /\ phase' = [phase EXCEPT ![j] = "returned"]
               \/ IoFaults /\ telDisk' = telDisk /\ phase' = [phase EXCEPT ![j] = "orphan"]
    /\ tasks' = [tasks EXCEPT ![j] =
                   [h \in Hosts |-> IF h \notin targets[j] THEN "idle"
                                    ELSE IF browser THEN "hub" ELSE "direct"]]
    /\ UNCHANGED <<jobs, disk, targets, clock, restarts, issued, follower, toldDone>>

-----------------------------------------------------------------------------
(* The task of one host. *)

\* on_admitted: the hub accepted the task; its id is recorded and persisted.
\* When the job is gone, or persisting fails, the host's call fails.
HubAdmitted(j, h) ==
    /\ tasks[j][h] = "hub"
    /\ IF jobs[j] = Absent
       THEN /\ tasks' = [tasks EXCEPT ![j][h] = "doomed"]
            /\ UNCHANGED <<jobs, disk>>
       ELSE \E r \in Persist(j, [jobs[j] EXCEPT !.hub = @ \cup {h}], disk) :
            /\ jobs' = [jobs EXCEPT ![j] = r.job]
            /\ disk' = r.disk
            /\ tasks' = [tasks EXCEPT ![j][h] = IF r.ok THEN "admitted" ELSE "doomed"]
    /\ UNCHANGED <<phase, targets, telPending, records, telDisk, clock, restarts,
                   issued, follower, toldDone>>

\* A bug: the host is taken off the pending set only when it answered.
MutJobAfterError(job, h) == [job EXCEPT !.status[h] = "failed"]

\* A bug: a host cut off by the deadline gets a state the readers do not know.
MutJobAfterTimeout(job, h) == [job EXCEPT !.pending = @ \ {h}, !.status[h] = "timeout"]

\* The job after host h failed or its deadline passed.
JobAfterError(job, h) == [job EXCEPT !.pending = @ \ {h}, !.status[h] = "failed"]

\* A failed write ends the job: its error is kept and nothing is pending.
DurabilityFailure(job) == [job EXCEPT !.durErr = TRUE, !.pending = {}]

\* The task stores its outcome, one of the jobs in outcomes.
TaskEnd(j, h, outcomes) ==
    /\ tasks' = [tasks EXCEPT ![j][h] = "idle"]
    /\ \E o \in outcomes : \E r \in Persist(j, o, disk) :
         LET job == IF r.ok THEN r.job ELSE DurabilityFailure(r.job)
         IN /\ jobs' = [jobs EXCEPT ![j] = job]
            /\ disk' = r.disk
            /\ CompleteTelemetry(j, job.pending = {}, TelemetryStatus(job), Len(job.results))
    /\ UNCHANGED <<phase, targets, clock, restarts, issued, follower, toldDone>>

TaskAnswered(j, h) ==
    /\ tasks[j][h] \in {"direct", "admitted"}
    /\ jobs[j] # Absent
    /\ \E a \in Answers[h] :
         TaskEnd(j, h, MergeResult([jobs[j] EXCEPT !.pending = @ \ {h}], h, a))

\* The call failed, or the task's deadline passed at any point of it.
TaskFailed(j, h) ==
    /\ tasks[j][h] # "idle"
    /\ jobs[j] # Absent
    /\ TaskEnd(j, h, {JobAfterError(jobs[j], h)})

\* The job was pruned meanwhile: the outcome is dropped, telemetry included.
TaskOrphaned(j, h) ==
    /\ tasks[j][h] # "idle"
    /\ jobs[j] = Absent
    /\ tasks' = [tasks EXCEPT ![j][h] = "idle"]
    /\ UNCHANGED <<jobs, disk, phase, targets, telPending, records, telDisk, clock,
                   restarts, issued, follower, toldDone>>

-----------------------------------------------------------------------------
(* status_inner and its callers. *)

\* The state a reply reports.
ReportedState(job) ==
    IF job.pending # {} THEN "running"
    ELSE IF job.lost THEN "lost"
    ELSE IF job.durErr \/ AnsweredAllFailed(job) THEN "failed"
    ELSE "complete"

\* A bug: the cursor points at the page just sent, not behind it.
MutAddCursor(job, c, end) ==
    LET all == CursorSet(job) \cup {c}
    IN [job EXCEPT !.cursors = [k \in Handles |->
          IF k \notin all THEN NoOffset
          ELSE IF k = c THEN (IF end > 0 THEN end - 1 ELSE 0) ELSE job.cursors[k]]]

\* A cursor at offset end is added under handle c; of too many cursors the ones
\* with the smallest handles go.
AddCursor(job, c, end) ==
    LET all == CursorSet(job) \cup {c}
        kept == {k \in all : Cardinality({n \in all : n > k}) < MaxCursors}
    IN [job EXCEPT !.cursors = [k \in Handles |->
          IF k \notin kept THEN NoOffset
          ELSE IF k = c THEN end ELSE job.cursors[k]]]

\* A bug: a page that reaches the end of the results is taken to be the last.
MutCursorDue(job, end, all) == ~all /\ end < Len(job.results)

\* A reply carries a cursor while the job runs, and while results are left.
CursorDue(job, end, all) == ~all /\ (job.pending # {} \/ end < Len(job.results))

\* A reply to a poll of job j from offset start with n hits per page.  all is
\* snapshot(): every result and no cursor.  A reply whose state cannot be
\* persisted says "failed".
Reply(j, start, n, all, followed) ==
    LET p == Prune(jobs, disk)
        m == Restore(p.mem, p.disk, j)
        job == m[j]
        len == Len(job.results)
        from == IF start < len THEN start ELSE len
        end == IF all \/ from + n > len THEN len ELSE from + n
        page == SubSeq(job.results, from + 1, end)
        more == CursorDue(job, end, all)
    IN /\ job # Absent
       /\ \E c \in IF more THEN Handles \ issued[j] ELSE {NoOffset} :
          \E r \in Persist(j, IF more THEN AddCursor(job, c, end) ELSE job, p.disk) :
             LET told == IF r.ok THEN ReportedState(job) ELSE "failed" IN
             /\ jobs' = [m EXCEPT ![j] = IF r.ok THEN r.job ELSE DurabilityFailure(r.job)]
             /\ disk' = r.disk
             /\ issued' = [issued EXCEPT ![j] = IF more THEN @ \cup {c} ELSE @]
             /\ toldDone' = IF told = "complete" THEN toldDone \cup {j} ELSE toldDone
             /\ follower' = IF ~followed THEN follower ELSE
                  [follower EXCEPT ![j] =
                     [state |-> IF told = "failed" THEN "failed"
                                ELSE IF more THEN "following" ELSE "done",
                      cursor |-> c, got |-> @.got \o page]]
       /\ UNCHANGED <<tasks, phase, targets, telPending, records, telDisk, clock, restarts>>

\* A client that follows the cursors: its first poll has none.
FollowerPoll(j, n) ==
    LET f == follower[j]
        m == Restore(Prune(jobs, disk).mem, Prune(jobs, disk).disk, j)
    IN /\ phase[j] = "returned" /\ f.state = "following" /\ m[j] # Absent
       /\ \/ f.cursor = NoOffset /\ Reply(j, 0, n, FALSE, TRUE)
          \/ /\ f.cursor # NoOffset /\ m[j].cursors[f.cursor] # NoOffset
             /\ Reply(j, m[j].cursors[f.cursor], n, FALSE, TRUE)

\* "invalid cursor": an error, but a reloaded job stays in the map.
FollowerBadCursor(j) ==
    LET p == Prune(jobs, disk)
        m == Restore(p.mem, p.disk, j)
    IN /\ phase[j] = "returned" /\ follower[j].state = "following"
       /\ follower[j].cursor # NoOffset
       /\ m[j] # Absent /\ m[j].cursors[follower[j].cursor] = NoOffset
       /\ jobs' = m
       /\ disk' = p.disk
       /\ follower' = [follower EXCEPT ![j].state = "broken"]
       /\ UNCHANGED <<tasks, phase, targets, telPending, records, telDisk, clock,
                      restarts, issued, toldDone>>

\* Any other client: a poll without a cursor, or the console's snapshot().
OtherPoll(j, n) == phase[j] = "returned" /\ Reply(j, 0, n, FALSE, FALSE)
Snapshot(j) == phase[j] = "returned" /\ Reply(j, 0, 0, TRUE, FALSE)

\* A poll of a job that is neither in the map nor on disk: "expired".
PollExpired(j) ==
    LET p == Prune(jobs, disk)
    IN /\ phase[j] = "returned"
       /\ Restore(p.mem, p.disk, j)[j] = Absent
       /\ jobs' = p.mem
       /\ disk' = p.disk
       /\ follower' = [follower EXCEPT ![j].state = IF @ = "following" THEN "broken" ELSE @]
       /\ UNCHANGED <<tasks, phase, targets, telPending, records, telDisk, clock,
                      restarts, issued, toldDone>>

\* is_verbose only prunes.
IsVerbose ==
    /\ jobs' = Prune(jobs, disk).mem
    /\ disk' = Prune(jobs, disk).disk
    /\ UNCHANGED <<tasks, phase, targets, telPending, records, telDisk, clock,
                   restarts, issued, follower, toldDone>>

\* prune cannot delete the artifact of v: the calling operation ends with the
\* error, v has left the map, the jobs dropped before v are gone altogether.
PruneFails ==
    LET IsExpired(k) == Expired(jobs[k].created)
        Before(k, v) == \/ IsExpired(k) /\ (~IsExpired(v) \/ k < v)
                        \/ /\ ~IsExpired(k) /\ ~IsExpired(v)
                           /\ Older(jobs[k].created, k, jobs[v].created, v)
    IN /\ IoFaults
       /\ \E v \in DroppedJobs(jobs) :
            LET gone == {k \in DroppedJobs(jobs) : Before(k, v)} IN
            /\ disk[v] # Absent
            /\ jobs' = [k \in Jobs |-> IF k \in gone \cup {v} THEN Absent ELSE jobs[k]]
            /\ disk' = [k \in Jobs |-> IF k \in gone THEN Absent ELSE disk[k]]
       /\ UNCHANGED <<tasks, phase, targets, telPending, records, telDisk, clock,
                      restarts, issued, follower, toldDone>>

-----------------------------------------------------------------------------
(* The process and its environment. *)

\* The process ends and persistent() builds a new registry over the same
\* directory; an unreadable telemetry.json only costs the history.
Restart ==
    /\ restarts < MaxRestarts
    /\ restarts' = restarts + 1
    /\ jobs' = [j \in Jobs |-> Absent]
    /\ tasks' = [j \in Jobs |-> [h \in Hosts |-> "idle"]]
    /\ phase' = [j \in Jobs |-> IF phase[j] = "starting" THEN "orphan" ELSE phase[j]]
    /\ telPending' = [j \in Jobs |-> -1]
    /\ \/ records' = TrimTelemetry(telDisk)
       \/ IoFaults /\ records' = <<>>
    /\ UNCHANGED <<disk, targets, telDisk, clock, issued, follower, toldDone>>

Tick ==
    /\ clock < MaxClock
    /\ clock' = clock + 1
    /\ UNCHANGED <<jobs, disk, tasks, phase, targets, telPending, records, telDisk,
                   restarts, issued, follower, toldDone>>

Init ==
    /\ jobs = [j \in Jobs |-> Absent]
    /\ disk = [j \in Jobs |-> Absent]
    /\ tasks = [j \in Jobs |-> [h \in Hosts |-> "idle"]]
    /\ phase = [j \in Jobs |-> "unused"]
    /\ targets = [j \in Jobs |-> {}]
    /\ telPending = [j \in Jobs |-> -1]
    /\ records = <<>>
    /\ telDisk = <<>>
    /\ clock = 0
    /\ restarts = 0
    /\ issued = [j \in Jobs |-> {}]
    /\ follower = [j \in Jobs |-> [state |-> "following", cursor |-> NoOffset, got |-> <<>>]]
    /\ toldDone = {}

TaskStep(j, h) == TaskAnswered(j, h) \/ TaskFailed(j, h) \/ TaskOrphaned(j, h)

JobNext(j) ==
    \/ \E hs \in SUBSET Hosts : StartInsert(j, hs)
    \/ \E browser \in BOOLEAN : StartSpawn(j, browser)
    \/ \E h \in Hosts : HubAdmitted(j, h) \/ TaskStep(j, h)
    \/ \E n \in 1..PageMax : FollowerPoll(j, n) \/ OtherPoll(j, n)
    \/ FollowerBadCursor(j) \/ Snapshot(j) \/ PollExpired(j)

Next == (\E j \in Jobs : JobNext(j)) \/ IsVerbose \/ PruneFails \/ Restart \/ Tick

Spec == Init /\ [][Next]_vars

\* Every task ends: its whole operation runs under tokio::time::timeout.
FairSpec == Spec /\ \A j \in Jobs : \A h \in Hosts : WF_vars(TaskStep(j, h))

-----------------------------------------------------------------------------
(* Properties. *)

\* A job whose id a client has is "running" only while each pending host has a
\* live task: a reload after a restart or an eviction never shows a search that
\* nobody works on (jobs.rs status_inner, "make the loss explicit").
NoZombie ==
    \A j \in Jobs : phase[j] = "returned" /\ jobs[j] # Absent =>
        \A h \in jobs[j].pending : tasks[j][h] # "idle"

\* Once a reply called a job "complete", no restart, eviction or reload brings
\* back a record that would be reported as running or lost (status_inner
\* persists before it answers).
CompleteNeverLost ==
    \A j \in toldDone : \A job \in {jobs[j], disk[j]} \ {Absent} :
        job.pending = {} /\ ~job.lost

\* What a client following the cursors has received is always the beginning of
\* the job's results, also after a reload from the artifact: a hit handed out is
\* never replaced, repeated or skipped (jobs.rs, "Contract: stable arrival-first
\* limit").
DeliveredIsPrefix ==
    \A j \in Jobs : jobs[j] # Absent /\ follower[j].state \in {"following", "done"} =>
        IsPrefix(follower[j].got, jobs[j].results)

\* When the last reply carried no cursor, the client has every result of the job
\* (unless the job was lost or failed to persist).
FollowerComplete ==
    \A j \in Jobs :
        (/\ jobs[j] # Absent /\ follower[j].state = "done"
         /\ ~jobs[j].lost /\ ~jobs[j].durErr)
        => follower[j].got = jobs[j].results

\* No key is in the results twice, the limit holds, and a key that was seen and
\* is not in the results makes the job "truncated", in memory and (for what
\* persist cut off) on disk.
NoSilentLoss ==
    \A j \in Jobs : jobs[j] # Absent =>
        /\ IsInjective(jobs[j].results) /\ Len(jobs[j].results) <= Limit
        /\ jobs[j].seen \subseteq ToSet(jobs[j].results) \/ jobs[j].truncated

\* A search is recorded in the telemetry history at most once, and not while it is
\* still pending there; what is pending is bounded, although tasks of pruned jobs
\* never complete their entry.
TelemetrySound ==
    /\ Cardinality({j \in Jobs : telPending[j] # -1}) <= MaxJobs
    /\ \A i, k \in DOMAIN records : records[i].job = records[k].job => i = k
    /\ \A i \in DOMAIN records : telPending[records[i].job] = -1

\* While the file system works, the artifacts respect both store budgets and the
\* map holds at most one job more than MaxJobs (start and reload insert after
\* pruning).
StoreWithinBudget ==
    LET stored == {j \in Jobs : disk[j] # Absent}
    IN /\ Cardinality(stored) <= MaxJobs
       /\ StoreBytes(disk, stored) <= StoreMaxBytes
       /\ Cardinality({j \in Jobs : jobs[j] # Absent}) <= MaxJobs + 1

\* A job a client has the id of does not run forever: every host answers, fails
\* or is cut off by the job deadline.
RunningEnds ==
    \A j \in Jobs :
        (phase[j] = "returned" /\ jobs[j] # Absent /\ jobs[j].pending # {})
            ~> (jobs[j] = Absent \/ jobs[j].pending = {})
=============================================================================
