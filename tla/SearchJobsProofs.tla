------------------------- MODULE SearchJobsProofs -------------------------
(***************************************************************************)
(* Theorems about SearchJobs, for any number of jobs, hosts and handles    *)
(* and any limits: the type invariant, that neither a restart nor an       *)
(* eviction makes a reply lie (NoZombie, CompleteNeverLost), that no hit   *)
(* is lost without a word (NoSilentLoss), that the history counts a search *)
(* once (TelemetrySound); where artifacts have room for a whole job, that  *)
(* a client following the cursors misses nothing (DeliveredIsPrefix,       *)
(* FollowerComplete); and, while the file system works, that the store     *)
(* keeps within its budgets (StoreWithinBudget).                           *)
(***************************************************************************)
EXTENDS SearchJobs, FiniteSetTheorems, TLAPS

Stored == [Jobs -> SearchJob \cup {Absent}]

\* The size of an artifact without results is a number.
LEMMA OverheadType == ASSUME NEW job \in SearchJob PROVE Overhead(job) \in Nat
<1>1. Cardinality(CursorSet(job)) \in Nat
  BY FiniteAssumption, FS_Subset, FS_CardinalityType DEF CursorSet
<1>2. Cardinality({h \in Hosts : job.status[h] # "none"}) \in Nat
  BY FiniteAssumption, FS_Subset, FS_CardinalityType
<1>3. Cardinality(job.hub) \in Nat
  <2>1. job.hub \subseteq Hosts  BY DEF SearchJob
  <2> QED BY <2>1, FiniteAssumption, FS_Subset, FS_CardinalityType
<1> QED BY <1>1, <1>2, <1>3 DEF Overhead

\* persist's loop changes nothing but the results and the truncated flag.
LEMMA TrimFacts ==
    ASSUME NEW job \in SearchJob
    PROVE  /\ Trim(job) \in SearchJob
           /\ Trim(job).pending = job.pending
           /\ Trim(job).lost = job.lost
<1> DEFINE room == IF Overhead(job) <= MaxBytes THEN MaxBytes - Overhead(job) ELSE 0
<1>1. room \in Nat  BY OverheadType, BoundsAssumption
<1>2. job.results \in Seq(Keys)  BY DEF SearchJob
<1>3. CASE Len(job.results) <= room  BY <1>3 DEF Trim
<1>4. CASE ~(Len(job.results) <= room)
  <2> DEFINE cut == SubSeq(job.results, 1, room)
  <2>1. cut \in Seq(Keys)  BY <1>1, <1>2, <1>4
  <2>2. Trim(job) = [job EXCEPT !.results = cut, !.truncated = TRUE]  BY <1>4 DEF Trim
  <2> HIDE DEF cut, room
  <2> QED BY <2>1, <2>2 DEF SearchJob
<1> QED BY <1>3, <1>4

\* What persist returns and leaves in the store: the job but for its results,
\* its own artifact written, kept or swept, the others kept or swept.
LEMMA PersistFacts ==
    ASSUME NEW j \in Jobs, NEW job \in SearchJob, NEW d \in Stored,
           NEW r \in Persist(j, job, d)
    PROVE  /\ r.job \in SearchJob
           /\ r.job.pending = job.pending
           /\ r.job.lost = job.lost
           /\ r.ok \in BOOLEAN
           /\ r.disk \in Stored
           /\ \A k \in Jobs \ {j} : r.disk[k] \in {d[k], Absent}
           /\ r.disk[j] \in {d[j], Absent} \/ 
                /\ r.disk[j].pending = job.pending
                /\ r.disk[j].lost = job.lost
           /\ r.ok => r.disk[j] = Absent \/ 
                       /\ r.disk[j].pending = job.pending
                       /\ r.disk[j].lost = job.lost
<1> DEFINE t == Trim(job)
           f == FromJob(t)
           w == [d EXCEPT ![j] = f]
<1>1. t \in SearchJob /\ t.pending = job.pending /\ t.lost = job.lost  BY TrimFacts
<1>2. f \in SearchJob /\ f.pending = job.pending /\ f.lost = job.lost
  <2> HIDE DEF t
  <2> QED BY <1>1 DEF FromJob, SearchJob
<1>3. w \in Stored /\ w[j] = f /\ \A k \in Jobs \ {j} : w[k] = d[k]
  <2> HIDE DEF f
  <2> QED BY <1>2 DEF Stored
<1>4. /\ EnforceStoreBudget(w) \in Stored
      /\ \A k \in Jobs : EnforceStoreBudget(w)[k] \in {w[k], Absent}
  <2> HIDE DEF w
  <2> QED BY <1>3, Zenon DEF EnforceStoreBudget, Stored
<1>5. \/ r = [ok |-> TRUE, job |-> t, disk |-> EnforceStoreBudget(w)]
      \/ r = [ok |-> FALSE, job |-> t, disk |-> w]
      \/ r = [ok |-> FALSE, job |-> t, disk |-> d]
  BY Zenon DEF Persist
<1> HIDE DEF t, f, w
<1>6. CASE r = [ok |-> TRUE, job |-> t, disk |-> EnforceStoreBudget(w)]
  BY <1>1, <1>2, <1>3, <1>4, <1>6
<1>7. CASE r = [ok |-> FALSE, job |-> t, disk |-> w]
  BY <1>1, <1>2, <1>3, <1>7
<1>8. CASE r = [ok |-> FALSE, job |-> t, disk |-> d]
  BY <1>1, <1>8
<1> QED BY <1>5, <1>6, <1>7, <1>8

\* A write failure clears the pending hosts and nothing else that matters here.
LEMMA DurabilityFacts ==
    ASSUME NEW job \in SearchJob
    PROVE  /\ DurabilityFailure(job) \in SearchJob
           /\ DurabilityFailure(job).pending = {}
           /\ DurabilityFailure(job).lost = job.lost
BY DEF DurabilityFailure, SearchJob

\* prune only removes: from the map and from the store.
LEMMA PruneFacts ==
    ASSUME NEW m \in Stored, NEW d \in Stored
    PROVE  /\ Prune(m, d).mem \in Stored
           /\ Prune(m, d).disk \in Stored
           /\ \A k \in Jobs : Prune(m, d).mem[k] \in {m[k], Absent}
           /\ \A k \in Jobs : Prune(m, d).disk[k] \in {d[k], Absent}
BY Zenon DEF Prune, Stored

\* A job read back from its artifact keeps its pending hosts and its lost flag.
LEMMA IntoJobFacts ==
    ASSUME NEW a \in SearchJob
    PROVE  /\ IntoJob(a) \in SearchJob
           /\ IntoJob(a).pending = a.pending
           /\ IntoJob(a).lost = a.lost
           /\ IntoJob(a).status = a.status
<1>1. a.results \in Seq(Keys)  BY DEF SearchJob
<1>2. ToSet(a.results) \subseteq Keys  BY <1>1 DEF ToSet
<1> QED BY <1>2 DEF IntoJob, SearchJob

\* Only a job that is not in the map and has an artifact is reloaded.
LEMMA RestoreKeeps ==
    ASSUME NEW m, NEW d, NEW j, m[j] # Absent \/ d[j] = Absent
    PROVE  Restore(m, d, j) = m
BY DEF Restore

\* The reloaded job has nothing pending, and is lost only if its artifact was,
\* or had something pending.
IsReload(new, m, a, j) ==
    \E g \in SearchJob :
        /\ new = [m EXCEPT ![j] = g]
        /\ g.pending = {}
        /\ a.pending = {} => g.lost = a.lost

LEMMA RestoreReloads ==
    ASSUME NEW m, NEW d \in Stored, NEW j \in Jobs, m[j] = Absent, d[j] # Absent
    PROVE  IsReload(Restore(m, d, j), m, d[j], j)
<1> DEFINE r == IntoJob(d[j])
           st == [h \in Hosts |-> IF h \in r.pending THEN "failed" ELSE r.status[h]]
           g == IF r.pending = {} THEN r
                ELSE [r EXCEPT !.lost = TRUE, !.pending = {}, !.status = st]
<1>1. d[j] \in SearchJob  BY DEF Stored
<1>2. r \in SearchJob /\ r.pending = d[j].pending /\ r.lost = d[j].lost
  BY <1>1, IntoJobFacts
<1>3. Restore(m, d, j) = [m EXCEPT ![j] = g]  BY Zenon DEF Restore
<1> HIDE DEF r
<1>4. r.status \in [Hosts -> HostStates \cup {"none"}]  BY <1>2 DEF SearchJob
<1>5. st \in [Hosts -> HostStates \cup {"none"}]  BY <1>4 DEF HostStates
<1> HIDE DEF st
<1>6. g \in SearchJob /\ g.pending = {} /\ (d[j].pending = {} => g.lost = d[j].lost)
  BY <1>2, <1>5 DEF SearchJob
<1> HIDE DEF g
<1> QED BY <1>3, <1>6 DEF IsReload

\* Merging an answer changes neither the pending hosts nor the lost flag.
LEMMA MergeFacts ==
    ASSUME NEW job \in SearchJob, NEW h \in Hosts, NEW a \in Answers[h],
           NEW o \in MergeResult(job, h, a)
    PROVE  o \in SearchJob /\ o.pending = job.pending /\ o.lost = job.lost
<1>1. a.hits \in Seq(Keys) /\ a.state \in HostStates /\ a.truncated \in BOOLEAN
  BY AnswersAssumption
<1>2. PICK s \in Admitted(job, a.hits) :
        o = [job EXCEPT !.truncated = @ \/ a.truncated \/ Len(s) < Len(a.hits),
                        !.status[h] = a.state,
                        !.results = @ \o s,
                        !.seen = @ \cup ToSet(a.hits)]
  BY Zenon DEF MergeResult
<1>3. ToSet(a.hits) \subseteq Keys  BY <1>1 DEF ToSet
<1> DEFINE room == IF Len(job.results) < Limit THEN Limit - Len(job.results) ELSE 0
<1>4. job.results \in Seq(Keys)  BY DEF SearchJob
<1>5. room \in Nat  BY <1>4, BoundsAssumption
<1>6. PICK n \in 0..room : s \in [1..n -> ToSet(a.hits) \ job.seen]
  BY Zenon DEF Admitted
<1>7. s \in Seq(Keys)
  <2>1. n \in Nat  BY <1>5, <1>6
  <2>2. s \in [1..n -> Keys]  BY <1>3, <1>6
  <2> QED BY <2>1, <2>2
<1>8. job.results \o s \in Seq(Keys)  BY <1>4, <1>7
<1> DEFINE tr == job.truncated \/ a.truncated \/ Len(s) < Len(a.hits)
           rs == job.results \o s
           se == job.seen \cup ToSet(a.hits)
           st == [job.status EXCEPT ![h] = a.state]
<1>9. o = [job EXCEPT !.truncated = tr, !.status = st, !.results = rs, !.seen = se]
  BY <1>2 DEF SearchJob
<1>10. tr \in BOOLEAN  OBVIOUS
<1>11. rs \in Seq(Keys) /\ se \subseteq Keys  BY <1>3, <1>8 DEF SearchJob
<1>12. st \in [Hosts -> HostStates \cup {"none"}]  BY <1>1 DEF SearchJob
<1> HIDE DEF tr, rs, se, st
<1> QED BY <1>9, <1>10, <1>11, <1>12 DEF SearchJob

\* Trimming the telemetry history leaves a history.
LEMMA TelemetryFacts ==
    ASSUME NEW recs \in Seq(TelemetryRecord)
    PROVE  TrimTelemetry(recs) \in Seq(TelemetryRecord)
<1> DEFINE n == Len(recs)
           old == {i \in 1..n : clock - recs[i].finished >= TelemetryAge}
<1>1. n \in Nat  OBVIOUS
<1>2. IsFiniteSet(1..n) /\ Cardinality(1..n) = n  BY <1>1, FS_Interval
<1>3. Cardinality(old) \in Nat /\ Cardinality(old) <= n
  BY <1>2, FS_Subset, FS_CardinalityType
<1> DEFINE lo == (IF n - Cardinality(old) > MaxTelemetry THEN n - MaxTelemetry
                  ELSE Cardinality(old)) + 1
<1>4. lo \in Nat /\ lo >= 1  BY <1>1, <1>3, BoundsAssumption
<1>5. TrimTelemetry(recs) = SubSeq(recs, lo, n)  BY DEF TrimTelemetry
<1> HIDE DEF lo
<1> QED BY <1>1, <1>4, <1>5

-----------------------------------------------------------------------------
(* The inductive invariant. *)

\* Someone is bound to take host h off the pending set of job j, or nobody will
\* ever ask for the job.
Working(j, h) ==
    \/ phase[j] = "orphan"
    \/ phase[j] = "starting" /\ h \in targets[j]
    \/ phase[j] = "returned" /\ tasks[j][h] # "idle"

LiveWork ==
    \A j \in Jobs : jobs[j] # Absent => \A h \in jobs[j].pending : Working(j, h)

\* An id not handed out yet has left no trace; only a job whose id a client has
\* is ever called complete.
FreshIds ==
    \A j \in Jobs :
        /\ phase[j] = "unused" => jobs[j] = Absent /\ disk[j] = Absent
        /\ j \in toldDone => phase[j] = "returned"

IInv == TypeOK /\ LiveWork /\ FreshIds /\ CompleteNeverLost

\* The same invariant, with CompleteNeverLost as the provers like it.
LEMMA CompleteForm ==
    ASSUME TypeOK
    PROVE  CompleteNeverLost <=>
             \A j \in toldDone :
                /\ jobs[j] # Absent => jobs[j].pending = {} /\ ~jobs[j].lost
                /\ disk[j] # Absent => disk[j].pending = {} /\ ~disk[j].lost
BY Zenon DEF CompleteNeverLost

LEMMA CompleteFormNext ==
    ASSUME TypeOK'
    PROVE  CompleteNeverLost' <=>
             \A j \in toldDone' :
                /\ jobs'[j] # Absent => jobs'[j].pending = {} /\ ~jobs'[j].lost
                /\ disk'[j] # Absent => disk'[j].pending = {} /\ ~disk'[j].lost
BY Zenon DEF CompleteNeverLost

\* Initially there is nothing.
LEMMA InitIInv == Init => IInv
<1> SUFFICES ASSUME Init PROVE IInv  OBVIOUS
<1>1. TypeOK
  BY DEF Init, TypeOK, StartPhases, TaskPhases, Follower, NoOffset
<1>2. LiveWork /\ FreshIds  BY DEF Init, LiveWork, FreshIds
<1>3. CompleteNeverLost  BY DEF Init, CompleteNeverLost
<1> QED BY <1>1, <1>2, <1>3 DEF IInv

\* A task that ends takes its host, and at most more, off the pending set.
LEMMA TaskEndStep ==
    ASSUME IInv, NEW j \in Jobs, NEW h \in Hosts, NEW outcomes,
           jobs[j] # Absent,
           \A o \in outcomes : /\ o \in SearchJob
                               /\ o.pending = jobs[j].pending \ {h}
                               /\ o.lost = jobs[j].lost,
           TaskEnd(j, h, outcomes)
    PROVE  IInv'
<1> USE DEF Stored
<1>1. TypeOK /\ jobs \in Stored /\ disk \in Stored  BY DEF IInv, TypeOK
<1>0. PICK o \in outcomes : \E r \in Persist(j, o, disk) :
        LET job == IF r.ok THEN r.job ELSE DurabilityFailure(r.job)
        IN /\ jobs' = [jobs EXCEPT ![j] = job]
           /\ disk' = r.disk
           /\ CompleteTelemetry(j, job.pending = {}, TelemetryStatus(job), Len(job.results))
  BY Zenon DEF TaskEnd
<1>2. PICK r \in Persist(j, o, disk) :
        LET job == IF r.ok THEN r.job ELSE DurabilityFailure(r.job)
        IN /\ jobs' = [jobs EXCEPT ![j] = job]
           /\ disk' = r.disk
           /\ CompleteTelemetry(j, job.pending = {}, TelemetryStatus(job), Len(job.results))
  BY <1>0, Zenon
<1> DEFINE job == IF r.ok THEN r.job ELSE DurabilityFailure(r.job)
<1>3. /\ o \in SearchJob /\ o.pending = jobs[j].pending \ {h} /\ o.lost = jobs[j].lost
  OBVIOUS
<1>4. /\ r.job \in SearchJob /\ r.job.pending = o.pending /\ r.job.lost = o.lost
      /\ r.disk \in Stored
      /\ \A k \in Jobs \ {j} : r.disk[k] \in {disk[k], Absent}
      /\ r.disk[j] \in {disk[j], Absent} \/ (r.disk[j].pending = o.pending /\ r.disk[j].lost = o.lost)
  BY <1>1, <1>3, PersistFacts
<1>5. job \in SearchJob /\ job.pending \subseteq jobs[j].pending \ {h} /\ job.lost = jobs[j].lost
  BY <1>3, <1>4, DurabilityFacts
<1>6. jobs' = [jobs EXCEPT ![j] = job] /\ disk' = r.disk  BY <1>2
<1>7. telPending' \in [Jobs -> Nat \cup {-1}]
      /\ records' \in Seq(TelemetryRecord) /\ telDisk' \in Seq(TelemetryRecord)
  <2>1. CompleteTelemetry(j, job.pending = {}, TelemetryStatus(job), Len(job.results))
    BY <1>2
  <2>2. TelemetryStatus(job) \in {"complete", "partial", "failed"}
    BY DEF TelemetryStatus
  <2>3. Len(job.results) \in Nat  BY <1>5 DEF SearchJob
  <2>4. clock \in Nat /\ telPending \in [Jobs -> Nat \cup {-1}]
        /\ records \in Seq(TelemetryRecord) /\ telDisk \in Seq(TelemetryRecord)
    BY <1>1 DEF TypeOK
  <2> DEFINE rec == [job |-> j, finished |-> clock, status |-> TelemetryStatus(job),
                     count |-> Len(job.results)]
  <2>5. rec \in TelemetryRecord  BY <2>2, <2>3, <2>4 DEF TelemetryRecord
  <2>6. TrimTelemetry(Append(records, rec)) \in Seq(TelemetryRecord)
    <3> HIDE DEF rec
    <3>1. Append(records, rec) \in Seq(TelemetryRecord)  BY <2>4, <2>5
    <3> QED BY <3>1, TelemetryFacts, Zenon
  <2>7. CASE telPending[j] = -1 \/ ~(job.pending = {})
    BY <2>1, <2>4, <2>7 DEF CompleteTelemetry
  <2>8. CASE ~(telPending[j] = -1 \/ ~(job.pending = {}))
    BY <2>1, <2>4, <2>6, <2>8 DEF CompleteTelemetry
  <2> QED BY <2>7, <2>8
<1> HIDE DEF job
<1>8. /\ tasks' = [tasks EXCEPT ![j][h] = "idle"]
      /\ UNCHANGED <<phase, targets, clock, restarts, issued, follower, toldDone>>
  BY DEF TaskEnd
<1>9. TypeOK'
  <2>1. tasks' \in [Jobs -> [Hosts -> TaskPhases]]  BY <1>1, <1>8 DEF TypeOK, TaskPhases
  <2>2. jobs' \in Stored /\ disk' \in Stored  BY <1>1, <1>4, <1>5, <1>6
  <2> QED BY <1>1, <1>7, <1>8, <2>1, <2>2 DEF TypeOK
<1>10. LiveWork'
  <2> SUFFICES ASSUME NEW k \in Jobs, jobs'[k] # Absent, NEW g \in jobs'[k].pending
               PROVE  Working(k, g)'
    BY DEF LiveWork
  <2>1. CASE k = j
    <3>1. g \in jobs[j].pending /\ g # h  BY <1>1, <1>5, <1>6, <2>1
    <3>2. Working(j, g)  BY <3>1 DEF IInv, LiveWork
    <3>3. g \in Hosts  BY <3>1, <1>1 DEF SearchJob
    <3> QED BY <1>1, <1>8, <2>1, <3>1, <3>2, <3>3 DEF Working, TypeOK
  <2>2. CASE k # j
    <3>1. jobs[k] # Absent /\ g \in jobs[k].pending  BY <1>1, <1>6, <2>2
    <3>2. Working(k, g)  BY <3>1 DEF IInv, LiveWork
    <3> QED BY <1>1, <1>8, <2>2, <3>2 DEF Working, TypeOK
  <2> QED BY <2>1, <2>2
<1>11. FreshIds'
  BY <1>1, <1>4, <1>6, <1>8 DEF IInv, FreshIds
<1>12. CompleteNeverLost'
  <2> SUFFICES ASSUME NEW k \in toldDone
               PROVE  /\ jobs'[k] # Absent => jobs'[k].pending = {} /\ ~jobs'[k].lost
                      /\ disk'[k] # Absent => disk'[k].pending = {} /\ ~disk'[k].lost
    BY <1>8, <1>9, CompleteFormNext, Zenon
  <2>1. k \in Jobs  BY <1>1 DEF TypeOK
  <2>2. /\ jobs[k] # Absent => jobs[k].pending = {} /\ ~jobs[k].lost
        /\ disk[k] # Absent => disk[k].pending = {} /\ ~disk[k].lost
    BY <1>1, CompleteForm DEF IInv
  <2>3. CASE k = j  BY <1>1, <1>3, <1>4, <1>5, <1>6, <2>1, <2>2, <2>3
  <2>4. CASE k # j  BY <1>1, <1>4, <1>6, <2>1, <2>2, <2>4
  <2> QED BY <2>3, <2>4
<1> QED BY <1>9, <1>10, <1>11, <1>12 DEF IInv

\* Steps that only remove jobs and artifacts keep the invariant.
LEMMA RemovalStep ==
    ASSUME IInv, TypeOK',
           \A k \in Jobs : jobs'[k] \in {jobs[k], Absent} /\ disk'[k] \in {disk[k], Absent},
           UNCHANGED <<tasks, phase, targets, toldDone>>
    PROVE  IInv'
<1>1. LiveWork'  BY DEF IInv, LiveWork, Working
<1>2. FreshIds'  BY DEF IInv, FreshIds
<1>3. CompleteNeverLost'
  <2>1. toldDone \subseteq Jobs  BY DEF IInv, TypeOK
  <2>2. \A j \in toldDone :
           /\ jobs[j] # Absent => jobs[j].pending = {} /\ ~jobs[j].lost
           /\ disk[j] # Absent => disk[j].pending = {} /\ ~disk[j].lost
    BY CompleteForm DEF IInv
  <2>3. \A j \in toldDone' :
           /\ jobs'[j] # Absent => jobs'[j].pending = {} /\ ~jobs'[j].lost
           /\ disk'[j] # Absent => disk'[j].pending = {} /\ ~disk'[j].lost
    BY <2>1, <2>2
  <2> QED BY <2>3, CompleteFormNext, Zenon
<1> QED BY <1>1, <1>2, <1>3 DEF IInv

\* A reply to a poll, whoever polls: what it reloads has nothing pending, and
\* what it calls complete has been written.
LEMMA ReplyStep ==
    ASSUME IInv, NEW j \in Jobs, NEW start \in Nat, NEW n \in Nat,
           NEW all \in BOOLEAN, NEW followed \in BOOLEAN,
           phase[j] = "returned",
           Reply(j, start, n, all, followed)
    PROVE  IInv'
<1> USE DEF Stored
<1>1. TypeOK /\ jobs \in Stored /\ disk \in Stored  BY DEF IInv, TypeOK
<1> DEFINE p == Prune(jobs, disk)
           m == Restore(p.mem, p.disk, j)
           job == m[j]
           len == Len(job.results)
           from == IF start < len THEN start ELSE len
           end == IF all \/ from + n > len THEN len ELSE from + n
           page == SubSeq(job.results, from + 1, end)
           more == CursorDue(job, end, all)
           next(c) == IF more THEN AddCursor(job, c, end) ELSE job
<1>2. /\ p.mem \in Stored /\ p.disk \in Stored
      /\ \A k \in Jobs : p.mem[k] \in {jobs[k], Absent} /\ p.disk[k] \in {disk[k], Absent}
  BY <1>1, PruneFacts
<1> HIDE DEF p
<1>3. /\ m \in Stored
      /\ \A k \in Jobs \ {j} : m[k] = p.mem[k]
      /\ p.mem[j] # Absent => m[j] = p.mem[j]
      /\ p.mem[j] = Absent /\ p.disk[j] = Absent => m[j] = Absent
      /\ p.mem[j] = Absent /\ p.disk[j] # Absent =>
            /\ m[j].pending = {}
            /\ p.disk[j].pending = {} => m[j].lost = p.disk[j].lost
  <2>1. CASE p.mem[j] # Absent \/ p.disk[j] = Absent
    <3>1. m = p.mem  BY <2>1, RestoreKeeps
    <3> HIDE DEF m
    <3> QED BY <1>2, <2>1, <3>1
  <2>2. CASE p.mem[j] = Absent /\ p.disk[j] # Absent
    <3>1. PICK g \in SearchJob :
            /\ m = [p.mem EXCEPT ![j] = g]
            /\ g.pending = {}
            /\ p.disk[j].pending = {} => g.lost = p.disk[j].lost
      <4>1. IsReload(m, p.mem, p.disk[j], j)
        <5> HIDE DEF Stored
        <5>1. p.disk \in Stored  BY <1>2
        <5> QED BY <2>2, <5>1, RestoreReloads
      <4> HIDE DEF m
      <4> QED BY <4>1 DEF IsReload
    <3> HIDE DEF m
    <3> QED BY <1>2, <2>2, <3>1
  <2> QED BY <2>1, <2>2
<1> HIDE DEF m
<1>4. job # Absent  BY Zenon DEF Reply, p, m
<1>5. job \in SearchJob  BY <1>3, <1>4
<1>6. PICK c \in IF more THEN Handles \ issued[j] ELSE {NoOffset} :
      \E r \in Persist(j, next(c), p.disk) :
         LET told == IF r.ok THEN ReportedState(job) ELSE "failed" IN
         /\ jobs' = [m EXCEPT ![j] = IF r.ok THEN r.job ELSE DurabilityFailure(r.job)]
         /\ disk' = r.disk
         /\ issued' = [issued EXCEPT ![j] = IF more THEN @ \cup {c} ELSE @]
         /\ toldDone' = IF told = "complete" THEN toldDone \cup {j} ELSE toldDone
         /\ follower' = IF ~followed THEN follower ELSE
              [follower EXCEPT ![j] =
                 [state |-> IF told = "failed" THEN "failed"
                            ELSE IF more THEN "following" ELSE "done",
                  cursor |-> c, got |-> @.got \o page]]
  BY Zenon DEF Reply, p, m
<1>7. PICK r \in Persist(j, next(c), p.disk) :
         LET told == IF r.ok THEN ReportedState(job) ELSE "failed" IN
         /\ jobs' = [m EXCEPT ![j] = IF r.ok THEN r.job ELSE DurabilityFailure(r.job)]
         /\ disk' = r.disk
         /\ issued' = [issued EXCEPT ![j] = IF more THEN @ \cup {c} ELSE @]
         /\ toldDone' = IF told = "complete" THEN toldDone \cup {j} ELSE toldDone
         /\ follower' = IF ~followed THEN follower ELSE
              [follower EXCEPT ![j] =
                 [state |-> IF told = "failed" THEN "failed"
                            ELSE IF more THEN "following" ELSE "done",
                  cursor |-> c, got |-> @.got \o page]]
  BY <1>6, Zenon
<1> DEFINE told == IF r.ok THEN ReportedState(job) ELSE "failed"
           new == IF r.ok THEN r.job ELSE DurabilityFailure(r.job)
<1>8. job.results \in Seq(Keys) /\ len \in Nat  BY <1>5 DEF SearchJob
<1>9. from \in 0..len /\ end \in 0..len  BY <1>8
<1>10. page \in Seq(Keys)
  <2> HIDE DEF from, end, len, job
  <2>1. from + 1 \in Nat /\ end \in Nat /\ len \in Nat /\ end <= len  BY <1>8, <1>9
  <2>2. from + 1 >= 1  BY <1>8, <1>9
  <2> QED BY <1>8, <2>1, <2>2 DEF len
<1>11. more \in BOOLEAN  BY DEF CursorDue
<1>12. more => c \in Handles
  BY <1>6
<1>13. ~more => c = NoOffset  BY <1>6
<1>14. next(c) \in SearchJob /\ next(c).pending = job.pending /\ next(c).lost = job.lost
  <2>1. CASE ~more  BY <1>5, <2>1
  <2>2. CASE more
    <3> DEFINE every == CursorSet(job) \cup {c}
               kept == {k \in every : Cardinality({i \in every : i > k}) < MaxCursors}
               cs == [k \in Handles |-> IF k \notin kept THEN NoOffset
                                        ELSE IF k = c THEN end ELSE job.cursors[k]]
    <3>1. next(c) = [job EXCEPT !.cursors = cs]  BY <2>2, Zenon DEF AddCursor
    <3>2. job.cursors \in [Handles -> Nat \cup {NoOffset}]  BY <1>5 DEF SearchJob
    <3>3. end \in Nat  BY <1>8, <1>9
    <3> HIDE DEF kept, end, job, more, next
    <3>4. cs \in [Handles -> Nat \cup {NoOffset}]  BY <3>2, <3>3
    <3> HIDE DEF cs
    <3> QED BY <1>5, <3>1, <3>4 DEF SearchJob
  <2> QED BY <2>1, <2>2, <1>11
<1> HIDE DEF next, more, page, from, end
<1>15. /\ r.job \in SearchJob /\ r.job.pending = job.pending /\ r.job.lost = job.lost
       /\ r.disk \in Stored /\ r.ok \in BOOLEAN
       /\ \A k \in Jobs \ {j} : r.disk[k] \in {p.disk[k], Absent}
       /\ r.disk[j] \in {p.disk[j], Absent} \/ (r.disk[j].pending = job.pending /\ r.disk[j].lost = job.lost)
       /\ r.ok => r.disk[j] = Absent \/ (r.disk[j].pending = job.pending /\ r.disk[j].lost = job.lost)
  BY <1>2, <1>14, PersistFacts
<1>16. new \in SearchJob /\ new.pending \subseteq job.pending /\ new.lost = job.lost
  BY <1>15, DurabilityFacts
<1>17. jobs' = [m EXCEPT ![j] = new] /\ disk' = r.disk
       /\ toldDone' = IF told = "complete" THEN toldDone \cup {j} ELSE toldDone
  BY <1>7
<1>18. UNCHANGED <<tasks, phase, targets, telPending, records, telDisk, clock, restarts>>
  BY DEF Reply
<1>19. told \in {"running", "lost", "failed", "complete"}  BY DEF ReportedState
<1>20. told = "complete" => r.ok /\ job.pending = {} /\ ~job.lost
  BY <1>15 DEF ReportedState
<1>21. issued' \in [Jobs -> SUBSET Handles]
  BY <1>1, <1>7, <1>11, <1>12 DEF TypeOK
<1>22. follower' \in [Jobs -> Follower]
  <2>1. follower \in [Jobs -> Follower]  BY <1>1 DEF TypeOK
  <2>2. follower[j].got \o page \in Seq(Keys)  BY <1>10, <2>1 DEF Follower
  <2>3. c \in Handles \cup {NoOffset}  BY <1>11, <1>12, <1>13
  <2>4. CASE ~followed  BY <1>7, <2>1, <2>4
  <2>5. CASE followed
    <3> DEFINE st == IF told = "failed" THEN "failed" ELSE IF more THEN "following" ELSE "done"
               got == follower[j].got \o page
    <3>1. follower' = [follower EXCEPT ![j] = [state |-> st, cursor |-> c, got |-> got]]
      BY <1>7, <2>5
    <3>2. st \in {"following", "done", "failed", "broken"}  OBVIOUS
    <3> HIDE DEF st, got
    <3> QED BY <2>1, <2>2, <2>3, <3>1, <3>2 DEF Follower, got
  <2> QED BY <2>4, <2>5
<1> HIDE DEF new, told, job
<1>23. jobs' \in Stored /\ disk' \in Stored  BY <1>3, <1>15, <1>16, <1>17
<1>24. toldDone' \subseteq Jobs  BY <1>1, <1>17 DEF TypeOK
<1>25. TypeOK'  BY <1>1, <1>18, <1>21, <1>22, <1>23, <1>24 DEF TypeOK
<1>26. jobs'[j] = new /\ \A k \in Jobs \ {j} : jobs'[k] = p.mem[k]
  BY <1>3, <1>17
<1>27. LiveWork'
  <2> SUFFICES ASSUME NEW k \in Jobs, jobs'[k] # Absent, NEW g \in jobs'[k].pending
               PROVE  Working(k, g)'
    BY DEF LiveWork
  <2>1. jobs[k] # Absent /\ g \in jobs[k].pending
    <3>1. CASE k = j
      <4>1. g \in job.pending  BY <1>16, <1>26, <3>1
      <4>2. p.mem[j] # Absent  BY <1>3, <1>4, <4>1 DEF job
      <4> QED BY <1>2, <1>3, <3>1, <4>1, <4>2 DEF job
    <3>2. CASE k # j  BY <1>2, <1>26, <3>2
    <3> QED BY <3>1, <3>2
  <2>2. Working(k, g)  BY <2>1 DEF IInv, LiveWork
  <2> QED BY <1>18, <2>2 DEF Working
<1>28. FreshIds'
  <2>1. FreshIds  BY DEF IInv
  <2>2. \A k \in Jobs : phase'[k] = "unused" => k # j  BY <1>18
  <2> QED BY <1>2, <1>15, <1>17, <1>18, <1>26, <2>1, <2>2 DEF FreshIds
<1>29. CompleteNeverLost'
  <2> SUFFICES ASSUME NEW k \in toldDone'
               PROVE  /\ jobs'[k] # Absent => jobs'[k].pending = {} /\ ~jobs'[k].lost
                      /\ disk'[k] # Absent => disk'[k].pending = {} /\ ~disk'[k].lost
    BY <1>25, CompleteFormNext, Zenon
  <2>1. k \in Jobs  BY <1>24
  <2>2. \A i \in toldDone :
           /\ jobs[i] # Absent => jobs[i].pending = {} /\ ~jobs[i].lost
           /\ disk[i] # Absent => disk[i].pending = {} /\ ~disk[i].lost
    BY <1>1, CompleteForm DEF IInv
  <2>3. CASE k # j
    <3>1. k \in toldDone  BY <1>17, <2>3
    <3> QED BY <1>2, <1>15, <1>17, <1>26, <2>1, <2>2, <2>3, <3>1
  <2>4. CASE k = j /\ told = "complete"
    BY <1>15, <1>16, <1>17, <1>20, <1>26, <2>4
  <2>5. CASE k = j /\ told # "complete"
    <3>1. j \in toldDone  BY <1>17, <2>5
    <3>2. p.mem[j] # Absent => p.mem[j].pending = {} /\ ~p.mem[j].lost
      BY <1>2, <2>2, <3>1
    <3>3. p.disk[j] # Absent => p.disk[j].pending = {} /\ ~p.disk[j].lost
      BY <1>2, <2>2, <3>1
    <3>4. job.pending = {} /\ ~job.lost
      BY <1>3, <1>4, <3>2, <3>3 DEF job
    <3> QED BY <1>15, <1>16, <1>17, <1>26, <2>5, <3>3, <3>4
  <2> QED BY <2>3, <2>4, <2>5
<1> QED BY <1>25, <1>27, <1>28, <1>29 DEF IInv

\* Starting a search: the new job waits for hosts that no task works on yet.
LEMMA StartInsertStep ==
    ASSUME IInv, NEW j \in Jobs, NEW hs \in SUBSET Hosts, StartInsert(j, hs)
    PROVE  IInv'
<1> USE DEF Stored
<1>1. TypeOK /\ jobs \in Stored /\ disk \in Stored  BY DEF IInv, TypeOK
<1> DEFINE p == Prune(jobs, disk)
<1>2. /\ p.mem \in Stored /\ p.disk \in Stored
      /\ \A k \in Jobs : p.mem[k] \in {jobs[k], Absent} /\ p.disk[k] \in {disk[k], Absent}
  BY <1>1, PruneFacts
<1>3. PICK r \in Persist(j, NewJob(hs), p.disk) :
         /\ jobs' = [p.mem EXCEPT ![j] = r.job]
         /\ disk' = r.disk
         /\ phase' = [phase EXCEPT ![j] = IF r.ok THEN "starting" ELSE "orphan"]
  BY Zenon DEF StartInsert
<1>4. /\ phase[j] = "unused"
      /\ targets' = [targets EXCEPT ![j] = hs]
      /\ UNCHANGED <<tasks, telPending, records, telDisk, clock, restarts, issued,
                     follower, toldDone>>
  BY DEF StartInsert
<1> HIDE DEF p
<1>5. NewJob(hs) \in SearchJob /\ NewJob(hs).pending = hs
  BY <1>1 DEF NewJob, SearchJob, TypeOK
<1>6. /\ r.job \in SearchJob /\ r.job.pending = hs /\ r.ok \in BOOLEAN
      /\ r.disk \in Stored
      /\ \A k \in Jobs \ {j} : r.disk[k] \in {p.disk[k], Absent}
  BY <1>2, <1>5, PersistFacts
<1>7. TypeOK'
  <2>1. jobs' \in Stored /\ disk' \in Stored  BY <1>2, <1>3, <1>6
  <2>2. phase' \in [Jobs -> StartPhases]  BY <1>1, <1>3 DEF TypeOK, StartPhases
  <2>3. targets' \in [Jobs -> SUBSET Hosts]  BY <1>1, <1>4 DEF TypeOK
  <2> QED BY <1>1, <1>4, <2>1, <2>2, <2>3 DEF TypeOK
<1>8. j \notin toldDone  BY <1>4 DEF IInv, FreshIds
<1>9. phase'[j] \in {"starting", "orphan"} /\ targets'[j] = hs
      /\ \A k \in Jobs \ {j} : phase'[k] = phase[k] /\ targets'[k] = targets[k]
  BY <1>1, <1>3, <1>4, <1>6 DEF TypeOK
<1>10. jobs'[j].pending = hs
       /\ \A k \in Jobs \ {j} : jobs'[k] \in {jobs[k], Absent} /\ disk'[k] \in {disk[k], Absent}
  BY <1>2, <1>3, <1>6
<1>11. LiveWork'  BY <1>4, <1>9, <1>10 DEF IInv, LiveWork, Working
<1>12. FreshIds'  BY <1>4, <1>8, <1>9, <1>10 DEF IInv, FreshIds
<1>13. CompleteNeverLost'
  <2>1. \A i \in toldDone :
           /\ jobs[i] # Absent => jobs[i].pending = {} /\ ~jobs[i].lost
           /\ disk[i] # Absent => disk[i].pending = {} /\ ~disk[i].lost
    BY <1>1, CompleteForm DEF IInv
  <2>2. toldDone \subseteq Jobs \ {j}  BY <1>1, <1>8 DEF TypeOK
  <2>3. \A i \in toldDone' :
           /\ jobs'[i] # Absent => jobs'[i].pending = {} /\ ~jobs'[i].lost
           /\ disk'[i] # Absent => disk'[i].pending = {} /\ ~disk'[i].lost
    BY <1>4, <1>10, <2>1, <2>2
  <2> QED BY <1>7, <2>3, CompleteFormNext, Zenon
<1> QED BY <1>7, <1>11, <1>12, <1>13 DEF IInv

\* Spawning the tasks gives every target of the job someone who works on it.
LEMMA StartSpawnStep ==
    ASSUME IInv, NEW j \in Jobs, NEW browser \in BOOLEAN, StartSpawn(j, browser)
    PROVE  IInv'
<1>1. TypeOK  BY DEF IInv
<1> DEFINE tk == [h \in Hosts |-> IF h \notin targets[j] THEN "idle"
                                  ELSE IF browser THEN "hub" ELSE "direct"]
           rec == [job |-> j, finished |-> clock, status |-> "complete", count |-> 0]
<1>2. /\ phase[j] = "starting"
      /\ tasks' = [tasks EXCEPT ![j] = tk]
      /\ UNCHANGED <<jobs, disk, targets, clock, restarts, issued, follower, toldDone>>
  BY DEF StartSpawn
<1>3. phase' = [phase EXCEPT ![j] = "returned"] \/ phase' = [phase EXCEPT ![j] = "orphan"]
  BY Zenon DEF StartSpawn
<1>4. RegisterPending(j) \in [Jobs -> Nat \cup {-1}]
  <2>1. telPending \in [Jobs -> Nat \cup {-1}] /\ clock \in Nat  BY <1>1 DEF TypeOK
  <2> QED BY <2>1 DEF RegisterPending
<1>5. telPending' \in [Jobs -> Nat \cup {-1}]
  BY <1>4 DEF StartSpawn
<1>6. records' \in Seq(TelemetryRecord) /\ telDisk' \in Seq(TelemetryRecord)
  <2>1. records \in Seq(TelemetryRecord) /\ telDisk \in Seq(TelemetryRecord) /\ clock \in Nat
    BY <1>1 DEF TypeOK
  <2>2. rec \in TelemetryRecord  BY <2>1 DEF TelemetryRecord
  <2> HIDE DEF rec
  <2>3. Append(records, rec) \in Seq(TelemetryRecord)  BY <2>1, <2>2
  <2>4. TrimTelemetry(Append(records, rec)) \in Seq(TelemetryRecord)
    BY <2>3, TelemetryFacts, Zenon
  <2>5. \/ UNCHANGED <<records, telDisk>>
        \/ /\ records' = TrimTelemetry(Append(records, rec))
           /\ telDisk' = records' \/ telDisk' = telDisk
    BY Zenon DEF StartSpawn, rec
  <2> QED BY <2>1, <2>4, <2>5
<1>7. tk \in [Hosts -> TaskPhases] /\ \A h \in targets[j] : h \in Hosts => tk[h] # "idle"
  BY DEF TaskPhases
<1> HIDE DEF tk
<1>8. tasks' \in [Jobs -> [Hosts -> TaskPhases]] /\ phase' \in [Jobs -> StartPhases]
  BY <1>1, <1>2, <1>3, <1>7 DEF TypeOK, StartPhases
<1>9. TypeOK'  BY <1>1, <1>2, <1>5, <1>6, <1>8 DEF TypeOK
<1>10. /\ phase'[j] \in {"returned", "orphan"} /\ tasks'[j] = tk
       /\ \A k \in Jobs \ {j} : phase'[k] = phase[k] /\ tasks'[k] = tasks[k]
  BY <1>1, <1>2, <1>3 DEF TypeOK
<1>11. LiveWork'
  <2> SUFFICES ASSUME NEW k \in Jobs, jobs[k] # Absent, NEW g \in jobs[k].pending
               PROVE  Working(k, g)'
    BY <1>2 DEF LiveWork
  <2>1. Working(k, g)  BY DEF IInv, LiveWork
  <2>2. g \in Hosts  BY <1>1 DEF TypeOK, SearchJob
  <2>3. CASE k = j  BY <1>2, <1>7, <1>10, <2>1, <2>2, <2>3 DEF Working
  <2>4. CASE k # j  BY <1>2, <1>10, <2>1, <2>4 DEF Working
  <2> QED BY <2>3, <2>4
<1>12. FreshIds'  BY <1>2, <1>10 DEF IInv, FreshIds
<1>13. CompleteNeverLost'  BY <1>2 DEF IInv, CompleteNeverLost
<1> QED BY <1>9, <1>11, <1>12, <1>13 DEF IInv

\* The hub's admission is recorded with the job; its host stays pending and its
\* task stays alive, doomed or not.
LEMMA HubAdmittedStep ==
    ASSUME IInv, NEW j \in Jobs, NEW h \in Hosts, HubAdmitted(j, h)
    PROVE  IInv'
<1> USE DEF Stored
<1>1. TypeOK /\ jobs \in Stored /\ disk \in Stored  BY DEF IInv, TypeOK
<1>2. /\ tasks[j][h] = "hub"
      /\ UNCHANGED <<phase, targets, telPending, records, telDisk, clock, restarts,
                     issued, follower, toldDone>>
  BY DEF HubAdmitted
<1>3. CASE jobs[j] = Absent
  <2>1. tasks' = [tasks EXCEPT ![j][h] = "doomed"] /\ UNCHANGED <<jobs, disk>>
    BY <1>3 DEF HubAdmitted
  <2>2. TypeOK'  BY <1>1, <1>2, <2>1 DEF TypeOK, TaskPhases
  <2>3. LiveWork'  BY <1>1, <1>2, <2>1 DEF IInv, LiveWork, Working, TypeOK
  <2>4. FreshIds'  BY <1>2, <2>1 DEF IInv, FreshIds
  <2>5. CompleteNeverLost'  BY <1>2, <2>1 DEF IInv, CompleteNeverLost
  <2> QED BY <2>2, <2>3, <2>4, <2>5 DEF IInv
<1>4. CASE jobs[j] # Absent
  <2> DEFINE o == [jobs[j] EXCEPT !.hub = @ \cup {h}]
  <2>1. jobs[j] \in SearchJob  BY <1>1, <1>4
  <2>2. o \in SearchJob /\ o.pending = jobs[j].pending /\ o.lost = jobs[j].lost
    BY <2>1 DEF SearchJob
  <2>3. PICK r \in Persist(j, o, disk) :
           /\ jobs' = [jobs EXCEPT ![j] = r.job]
           /\ disk' = r.disk
           /\ tasks' = [tasks EXCEPT ![j][h] = IF r.ok THEN "admitted" ELSE "doomed"]
    BY <1>4, Zenon DEF HubAdmitted
  <2> HIDE DEF o
  <2>4. /\ r.job \in SearchJob /\ r.job.pending = o.pending /\ r.job.lost = o.lost
        /\ r.disk \in Stored /\ r.ok \in BOOLEAN
        /\ \A k \in Jobs \ {j} : r.disk[k] \in {disk[k], Absent}
        /\ r.disk[j] \in {disk[j], Absent} \/ (r.disk[j].pending = o.pending /\ r.disk[j].lost = o.lost)
    BY <1>1, <2>2, PersistFacts
  <2>5. TypeOK'
    <3>1. jobs' \in Stored /\ disk' \in Stored  BY <1>1, <2>3, <2>4
    <3>2. tasks' \in [Jobs -> [Hosts -> TaskPhases]]  BY <1>1, <2>3 DEF TypeOK, TaskPhases
    <3> QED BY <1>1, <1>2, <3>1, <3>2 DEF TypeOK
  <2>6. \A k \in Jobs, g \in Hosts : tasks[k][g] # "idle" => tasks'[k][g] # "idle"
    BY <1>1, <2>3, <2>4 DEF TypeOK
  <2>7. \A k \in Jobs : jobs'[k] # Absent => jobs[k] # Absent /\ jobs'[k].pending = jobs[k].pending
                          /\ jobs'[k].lost = jobs[k].lost
    BY <1>1, <1>4, <2>2, <2>3, <2>4
  <2>8. LiveWork'
    <3> SUFFICES ASSUME NEW k \in Jobs, jobs'[k] # Absent, NEW g \in jobs'[k].pending
                 PROVE  Working(k, g)'
      BY DEF LiveWork
    <3>1. Working(k, g)  BY <2>7 DEF IInv, LiveWork
    <3>2. g \in Hosts  BY <2>5 DEF TypeOK, SearchJob
    <3> QED BY <1>2, <2>6, <3>1, <3>2 DEF Working
  <2>9. FreshIds'  BY <1>2, <1>4, <2>3, <2>4, <2>7 DEF IInv, FreshIds
  <2>10. CompleteNeverLost'
    <3>1. \A i \in toldDone :
             /\ jobs[i] # Absent => jobs[i].pending = {} /\ ~jobs[i].lost
             /\ disk[i] # Absent => disk[i].pending = {} /\ ~disk[i].lost
      BY <1>1, CompleteForm DEF IInv
    <3>2. toldDone \subseteq Jobs  BY <1>1 DEF TypeOK
    <3>3. \A i \in toldDone :
             /\ jobs'[i] # Absent => jobs'[i].pending = {} /\ ~jobs'[i].lost
             /\ disk'[i] # Absent => disk'[i].pending = {} /\ ~disk'[i].lost
      BY <1>4, <2>2, <2>3, <2>4, <2>7, <3>1, <3>2
    <3> QED BY <1>2, <2>5, <3>3, CompleteFormNext, Zenon
  <2> QED BY <2>5, <2>8, <2>9, <2>10 DEF IInv
<1> QED BY <1>3, <1>4

\* A task's outcome, whatever it is, takes its host off the pending set.
LEMMA TaskStepStep ==
    ASSUME IInv, NEW j \in Jobs, NEW h \in Hosts, TaskStep(j, h)
    PROVE  IInv'
<1>1. TypeOK  BY DEF IInv
<1>2. CASE TaskAnswered(j, h)
  <2>1. PICK a \in Answers[h] :
          TaskEnd(j, h, MergeResult([jobs[j] EXCEPT !.pending = @ \ {h}], h, a))
    BY <1>2 DEF TaskAnswered
  <2>2. jobs[j] # Absent /\ jobs[j] \in SearchJob  BY <1>1, <1>2 DEF TaskAnswered, TypeOK
  <2> DEFINE job == [jobs[j] EXCEPT !.pending = @ \ {h}]
  <2>3. job \in SearchJob /\ job.pending = jobs[j].pending \ {h} /\ job.lost = jobs[j].lost
    BY <2>2 DEF SearchJob
  <2> HIDE DEF job
  <2>4. \A o \in MergeResult(job, h, a) :
           o \in SearchJob /\ o.pending = job.pending /\ o.lost = job.lost
    BY <2>3, MergeFacts
  <2>5. TaskEnd(j, h, MergeResult(job, h, a))  BY <2>1 DEF job
  <2> DEFINE os == MergeResult(job, h, a)
  <2>6. \A o \in os : /\ o \in SearchJob
                      /\ o.pending = jobs[j].pending \ {h}
                      /\ o.lost = jobs[j].lost
    BY <2>3, <2>4
  <2> HIDE DEF os
  <2> QED BY <2>2, <2>5, <2>6, TaskEndStep DEF os
<1>3. CASE TaskFailed(j, h)
  <2>1. TaskEnd(j, h, {JobAfterError(jobs[j], h)})  BY <1>3 DEF TaskFailed
  <2>2. jobs[j] # Absent /\ jobs[j] \in SearchJob  BY <1>1, <1>3 DEF TaskFailed, TypeOK
  <2>3. /\ JobAfterError(jobs[j], h) \in SearchJob
        /\ JobAfterError(jobs[j], h).pending = jobs[j].pending \ {h}
        /\ JobAfterError(jobs[j], h).lost = jobs[j].lost
    BY <2>2 DEF JobAfterError, SearchJob, HostStates
  <2> DEFINE os == {JobAfterError(jobs[j], h)}
  <2>4. \A o \in os : /\ o \in SearchJob
                      /\ o.pending = jobs[j].pending \ {h}
                      /\ o.lost = jobs[j].lost
    BY <2>3
  <2>5. TaskEnd(j, h, os)  BY <2>1
  <2> HIDE DEF os
  <2> QED BY <2>2, <2>4, <2>5, TaskEndStep
<1>4. CASE TaskOrphaned(j, h)
  <2>1. /\ jobs[j] = Absent
        /\ tasks' = [tasks EXCEPT ![j][h] = "idle"]
        /\ UNCHANGED <<jobs, disk, phase, targets, telPending, records, telDisk, clock,
                       restarts, issued, follower, toldDone>>
    BY <1>4 DEF TaskOrphaned
  <2>2. TypeOK'  BY <1>1, <2>1 DEF TypeOK, TaskPhases
  <2>3. LiveWork'
    <3>1. \A k \in Jobs \ {j} : tasks'[k] = tasks[k]  BY <1>1, <2>1 DEF TypeOK
    <3> QED BY <2>1, <3>1 DEF IInv, LiveWork, Working
  <2>4. FreshIds'  BY <2>1 DEF IInv, FreshIds
  <2>5. CompleteNeverLost'  BY <2>1 DEF IInv, CompleteNeverLost
  <2> QED BY <2>2, <2>3, <2>4, <2>5 DEF IInv
<1> QED BY <1>2, <1>3, <1>4 DEF TaskStep

\* A poll with a cursor that is gone may reload the job, and does nothing else.
LEMMA FollowerBadCursorStep ==
    ASSUME IInv, NEW j \in Jobs, FollowerBadCursor(j)
    PROVE  IInv'
<1> USE DEF Stored
<1>1. TypeOK /\ jobs \in Stored /\ disk \in Stored  BY DEF IInv, TypeOK
<1> DEFINE p == Prune(jobs, disk)
           m == Restore(p.mem, p.disk, j)
<1>2. /\ p.mem \in Stored /\ p.disk \in Stored
      /\ \A k \in Jobs : p.mem[k] \in {jobs[k], Absent} /\ p.disk[k] \in {disk[k], Absent}
  BY <1>1, PruneFacts
<1>3. /\ phase[j] = "returned" /\ jobs' = m /\ disk' = p.disk
      /\ follower' = [follower EXCEPT ![j].state = "broken"]
      /\ UNCHANGED <<tasks, phase, targets, telPending, records, telDisk, clock,
                     restarts, issued, toldDone>>
  BY Zenon DEF FollowerBadCursor
<1> HIDE DEF p
<1>4. follower' \in [Jobs -> Follower]  BY <1>1, <1>3 DEF TypeOK, Follower
<1>5. CASE p.mem[j] # Absent \/ p.disk[j] = Absent
  <2>1. m = p.mem  BY <1>5, RestoreKeeps
  <2> HIDE DEF m
  <2>2. TypeOK'  BY <1>1, <1>2, <1>3, <1>4, <2>1 DEF TypeOK
  <2> QED BY <1>2, <1>3, <2>1, <2>2, RemovalStep
<1>6. CASE p.mem[j] = Absent /\ p.disk[j] # Absent
  <2>1. IsReload(m, p.mem, p.disk[j], j)
    <3> HIDE DEF Stored
    <3>1. p.disk \in Stored  BY <1>2
    <3> QED BY <1>6, <3>1, RestoreReloads
  <2> HIDE DEF m
  <2>2. PICK g \in SearchJob :
           m = [p.mem EXCEPT ![j] = g] /\ g.pending = {}
             /\ (p.disk[j].pending = {} => g.lost = p.disk[j].lost)
    BY <2>1 DEF IsReload
  <2>3. TypeOK'  BY <1>1, <1>2, <1>3, <1>4, <2>2 DEF TypeOK
  <2>4. jobs'[j] = g /\ \A k \in Jobs \ {j} : jobs'[k] \in {jobs[k], Absent}
    BY <1>2, <1>3, <2>2
  <2>5. LiveWork'  BY <1>3, <2>2, <2>4 DEF IInv, LiveWork, Working
  <2>6. FreshIds'  BY <1>2, <1>3, <2>4 DEF IInv, FreshIds
  <2>7. CompleteNeverLost'
    <3>1. \A i \in toldDone :
             /\ jobs[i] # Absent => jobs[i].pending = {} /\ ~jobs[i].lost
             /\ disk[i] # Absent => disk[i].pending = {} /\ ~disk[i].lost
      BY <1>1, CompleteForm DEF IInv
    <3>2. toldDone \subseteq Jobs  BY <1>1 DEF TypeOK
    <3>3. \A i \in toldDone :
             /\ jobs'[i] # Absent => jobs'[i].pending = {} /\ ~jobs'[i].lost
             /\ disk'[i] # Absent => disk'[i].pending = {} /\ ~disk'[i].lost
      BY <1>2, <1>3, <1>6, <2>2, <2>4, <3>1, <3>2
    <3> QED BY <1>3, <2>3, <3>3, CompleteFormNext, Zenon
  <2> QED BY <2>3, <2>5, <2>6, <2>7 DEF IInv
<1> QED BY <1>5, <1>6

\* The steps of one job keep the invariant.
LEMMA JobNextStep ==
    ASSUME IInv, NEW j \in Jobs, JobNext(j)
    PROVE  IInv'
<1>1. TypeOK /\ jobs \in Stored /\ disk \in Stored  BY DEF IInv, TypeOK, Stored
<1>2. CASE \E hs \in SUBSET Hosts : StartInsert(j, hs)  BY <1>2, StartInsertStep
<1>3. CASE \E browser \in BOOLEAN : StartSpawn(j, browser)  BY <1>3, StartSpawnStep
<1>4. CASE \E h \in Hosts : HubAdmitted(j, h) \/ TaskStep(j, h)
  BY <1>4, HubAdmittedStep, TaskStepStep
<1>5. CASE \E n \in 1..PageMax : FollowerPoll(j, n)
  <2>1. PICK n \in 1..PageMax : FollowerPoll(j, n)  BY <1>5
  <2> DEFINE p == Prune(jobs, disk)
             m == Restore(p.mem, p.disk, j)
             c == follower[j].cursor
  <2>2. phase[j] = "returned" /\ m[j] # Absent
        /\ \/ Reply(j, 0, n, FALSE, TRUE)
           \/ /\ c # NoOffset /\ m[j].cursors[c] # NoOffset
              /\ Reply(j, m[j].cursors[c], n, FALSE, TRUE)
    BY <2>1, Zenon DEF FollowerPoll
  <2>3. p.mem \in Stored /\ p.disk \in Stored  BY <1>1, PruneFacts
  <2> HIDE DEF p
  <2>4. m[j] \in SearchJob
    <3>1. CASE p.mem[j] # Absent \/ p.disk[j] = Absent
      <4>1. m = p.mem  BY <3>1, RestoreKeeps
      <4> HIDE DEF m
      <4> QED BY <2>2, <2>3, <4>1 DEF Stored
    <3>2. CASE p.mem[j] = Absent /\ p.disk[j] # Absent
      <4>1. IsReload(m, p.mem, p.disk[j], j)  BY <2>3, <3>2, RestoreReloads
      <4> HIDE DEF m
      <4> QED BY <2>3, <4>1 DEF IsReload, Stored
    <3> QED BY <3>1, <3>2
  <2>5. c \in Handles \cup {NoOffset}  BY <1>1 DEF TypeOK, Follower
  <2>6. c # NoOffset /\ m[j].cursors[c] # NoOffset => m[j].cursors[c] \in Nat
    <3> HIDE DEF m, c
    <3> QED BY <2>4, <2>5 DEF SearchJob
  <2>7. n \in Nat  BY BoundsAssumption
  <2> HIDE DEF m, c
  <2> QED BY <2>2, <2>6, <2>7, ReplyStep
<1>6. CASE \E n \in 1..PageMax : OtherPoll(j, n)
  <2>1. PICK n \in 1..PageMax : OtherPoll(j, n)  BY <1>6
  <2>2. n \in Nat  BY BoundsAssumption
  <2> QED BY <2>1, <2>2, ReplyStep DEF OtherPoll
<1>7. CASE FollowerBadCursor(j)  BY <1>7, FollowerBadCursorStep
<1>8. CASE Snapshot(j)  BY <1>8, ReplyStep DEF Snapshot
<1>9. CASE PollExpired(j)
  <2> DEFINE p == Prune(jobs, disk)
  <2>1. /\ jobs' = p.mem /\ disk' = p.disk
        /\ follower' = [follower EXCEPT ![j].state = IF @ = "following" THEN "broken" ELSE @]
        /\ UNCHANGED <<tasks, phase, targets, telPending, records, telDisk, clock,
                       restarts, issued, toldDone>>
    BY <1>9, Zenon DEF PollExpired
  <2>2. /\ p.mem \in Stored /\ p.disk \in Stored
        /\ \A k \in Jobs : p.mem[k] \in {jobs[k], Absent} /\ p.disk[k] \in {disk[k], Absent}
    BY <1>1, PruneFacts
  <2> HIDE DEF p
  <2>3. follower' \in [Jobs -> Follower]  BY <1>1, <2>1 DEF TypeOK, Follower
  <2>4. TypeOK'  BY <1>1, <2>1, <2>2, <2>3 DEF TypeOK, Stored
  <2> QED BY <2>1, <2>2, <2>4, RemovalStep
<1> QED BY <1>2, <1>3, <1>4, <1>5, <1>6, <1>7, <1>8, <1>9 DEF JobNext

\* Every step keeps the invariant.
LEMMA NextIInv == IInv /\ [Next]_vars => IInv'
<1> SUFFICES ASSUME IInv, [Next]_vars PROVE IInv'  OBVIOUS
<1>1. TypeOK /\ jobs \in Stored /\ disk \in Stored  BY DEF IInv, TypeOK, Stored
<1>2. CASE \E j \in Jobs : JobNext(j)  BY <1>2, JobNextStep
<1>3. CASE IsVerbose
  <2> DEFINE p == Prune(jobs, disk)
  <2>1. /\ jobs' = p.mem /\ disk' = p.disk
        /\ UNCHANGED <<tasks, phase, targets, telPending, records, telDisk, clock,
                       restarts, issued, follower, toldDone>>
    BY <1>3, Zenon DEF IsVerbose
  <2>2. /\ p.mem \in Stored /\ p.disk \in Stored
        /\ \A k \in Jobs : p.mem[k] \in {jobs[k], Absent} /\ p.disk[k] \in {disk[k], Absent}
    BY <1>1, PruneFacts
  <2> HIDE DEF p
  <2>3. TypeOK'  BY <1>1, <2>1, <2>2 DEF TypeOK, Stored
  <2> QED BY <2>1, <2>2, <2>3, RemovalStep
<1>4. CASE PruneFails
  <2>1. UNCHANGED <<tasks, phase, targets, telPending, records, telDisk, clock,
                    restarts, issued, follower, toldDone>>
    BY <1>4 DEF PruneFails
  <2>2. \E G, V : /\ jobs' = [k \in Jobs |-> IF k \in V THEN Absent ELSE jobs[k]]
                  /\ disk' = [k \in Jobs |-> IF k \in G THEN Absent ELSE disk[k]]
    BY <1>4, Zenon DEF PruneFails
  <2>3. /\ jobs' \in Stored /\ disk' \in Stored
        /\ \A k \in Jobs : jobs'[k] \in {jobs[k], Absent} /\ disk'[k] \in {disk[k], Absent}
    BY <1>1, <2>2 DEF Stored
  <2>4. TypeOK'  BY <1>1, <2>1, <2>3 DEF TypeOK, Stored
  <2> QED BY <2>1, <2>3, <2>4, RemovalStep
<1>5. CASE Restart
  <2>1. /\ jobs' = [j \in Jobs |-> Absent]
        /\ restarts' = restarts + 1
        /\ tasks' = [j \in Jobs |-> [h \in Hosts |-> "idle"]]
        /\ phase' = [j \in Jobs |-> IF phase[j] = "starting" THEN "orphan" ELSE phase[j]]
        /\ telPending' = [j \in Jobs |-> -1]
        /\ UNCHANGED <<disk, targets, telDisk, clock, issued, follower, toldDone>>
    BY <1>5 DEF Restart
  <2>2. records' \in Seq(TelemetryRecord)
    <3>1. telDisk \in Seq(TelemetryRecord)  BY <1>1 DEF TypeOK
    <3>2. TrimTelemetry(telDisk) \in Seq(TelemetryRecord)  BY <3>1, TelemetryFacts
    <3>3. records' = TrimTelemetry(telDisk) \/ records' = <<>>  BY <1>5, Zenon DEF Restart
    <3>4. <<>> \in Seq(TelemetryRecord)  OBVIOUS
    <3> QED BY <3>2, <3>3, <3>4
  <2>3. TypeOK'  BY <1>1, <2>1, <2>2 DEF TypeOK, TaskPhases, StartPhases
  <2>4. LiveWork'  BY <2>1 DEF LiveWork
  <2>5. FreshIds'  BY <1>1, <2>1 DEF IInv, FreshIds, TypeOK
  <2>6. CompleteNeverLost'
    <3>1. \A i \in toldDone :
             disk[i] # Absent => disk[i].pending = {} /\ ~disk[i].lost
      BY <1>1, CompleteForm DEF IInv
    <3>2. toldDone \subseteq Jobs  BY <1>1 DEF TypeOK
    <3>3. \A i \in toldDone :
             /\ jobs'[i] # Absent => jobs'[i].pending = {} /\ ~jobs'[i].lost
             /\ disk'[i] # Absent => disk'[i].pending = {} /\ ~disk'[i].lost
      BY <2>1, <3>1, <3>2
    <3> QED BY <2>1, <2>3, <3>3, CompleteFormNext, Zenon
  <2> QED BY <2>3, <2>4, <2>5, <2>6 DEF IInv
<1>6. CASE Tick
  <2>1. clock' = clock + 1
        /\ UNCHANGED <<jobs, disk, tasks, phase, targets, telPending, records, telDisk,
                       restarts, issued, follower, toldDone>>
    BY <1>6 DEF Tick
  <2>2. TypeOK'  BY <1>1, <2>1 DEF TypeOK
  <2> QED BY <2>1, <2>2, RemovalStep
<1>7. CASE UNCHANGED vars
  <2>1. TypeOK'  BY <1>1, <1>7 DEF TypeOK, vars
  <2> QED BY <1>7, <2>1, RemovalStep DEF vars
<1> QED BY <1>2, <1>3, <1>4, <1>5, <1>6, <1>7 DEF Next

-----------------------------------------------------------------------------
(* The theorems. *)

\* The inductive invariant holds throughout.
THEOREM Invariance == Spec => []IInv
BY InitIInv, NextIInv, PTL DEF Spec

\* Jobs, artifacts, tasks, telemetry and clients keep their types, for every
\* number of jobs, hosts and handles and all limits.
THEOREM TypeCorrect == Spec => []TypeOK
<1>1. IInv => TypeOK  BY DEF IInv
<1> QED BY <1>1, Invariance, PTL

\* However jobs are evicted, reloaded and restarted, a job whose id a client has
\* is reported as running only while each of its pending hosts has a live task
\* (status_inner's reload).
THEOREM NoZombieHolds == Spec => []NoZombie
<1>1. IInv => NoZombie
  BY DEF IInv, LiveWork, Working, NoZombie
<1> QED BY <1>1, Invariance, PTL

\* A job once reported complete is never reported running or lost afterwards:
\* status_inner answers "complete" only after the artifact says so too.
THEOREM CompleteNeverLostHolds == Spec => []CompleteNeverLost
<1>1. IInv => CompleteNeverLost  BY DEF IInv
<1> QED BY <1>1, Invariance, PTL

-----------------------------------------------------------------------------
(* What is in a job: every step writes a job made from one it has read. *)

\* The results of a job: no key twice, within the limit, and every seen key is among
\* them or the job says that something is missing.
JobSound(job) ==
    /\ IsInjective(job.results) /\ Len(job.results) <= Limit
    /\ ToSet(job.results) \subseteq job.seen
    /\ job.seen \subseteq ToSet(job.results) \/ job.truncated
ArtifactSound(a) == IsInjective(a.results) /\ Len(a.results) <= Limit

\* The job that a reload makes of artifact a.
Revived(a) ==
    LET r == IntoJob(a)
    IN  IF r.pending = {} THEN r
        ELSE [r EXCEPT !.lost = TRUE, !.pending = {},
                       !.status = [h \in Hosts |-> IF h \in r.pending THEN "failed" ELSE r.status[h]]]

\* A part of a sequence.
LEMMA PartFacts ==
    ASSUME NEW s \in Seq(Keys), NEW n \in Nat, n <= Len(s)
    PROVE  /\ SubSeq(s, 1, n) \in Seq(Keys) /\ Len(SubSeq(s, 1, n)) = n
           /\ \A i \in 1 .. n : SubSeq(s, 1, n)[i] = s[i]
           /\ IsInjective(s) => IsInjective(SubSeq(s, 1, n))
           /\ ToSet(SubSeq(s, 1, n)) \subseteq ToSet(s)
<1>1. SubSeq(s, 1, n) \in Seq(Keys) /\ Len(SubSeq(s, 1, n)) = n  OBVIOUS
<1>2. \A i \in 1 .. n : SubSeq(s, 1, n)[i] = s[i] /\ i \in 1 .. Len(s)  OBVIOUS
<1>3. DOMAIN SubSeq(s, 1, n) = 1 .. n /\ DOMAIN s = 1 .. Len(s)  BY <1>1
<1> QED BY <1>1, <1>2, <1>3 DEF IsInjective, ToSet

\* The loop of persist keeps the first results, as many as there is room for.
LEMMA TrimResults ==
    ASSUME NEW job \in SearchJob
    PROVE  /\ Trim(job).seen = job.seen /\ Trim(job).cursors = job.cursors
           /\ Trim(job).status = job.status /\ Trim(job).durErr = job.durErr
           /\ Trim(job).hub = job.hub /\ Trim(job).created = job.created
           /\ \/ Trim(job) = job
              \/ /\ Trim(job).truncated
                 /\ \E n \in Nat : n <= Len(job.results) /\ Trim(job).results = SubSeq(job.results, 1, n)
<1> DEFINE room == IF Overhead(job) <= MaxBytes THEN MaxBytes - Overhead(job) ELSE 0
<1>1. room \in Nat  BY OverheadType, BoundsAssumption
<1>2. job.results \in Seq(Keys)  BY DEF SearchJob
<1>3. CASE Len(job.results) <= room  BY <1>3 DEF Trim
<1>4. CASE ~(Len(job.results) <= room)
  <2> DEFINE cut == SubSeq(job.results, 1, room)
  <2>1. Trim(job) = [job EXCEPT !.results = cut, !.truncated = TRUE]  BY <1>4 DEF Trim
  <2>2. room <= Len(job.results)  BY <1>1, <1>2, <1>4
  <2> HIDE DEF cut, room
  <2>3. Trim(job).results = cut /\ Trim(job).truncated
        /\ Trim(job).seen = job.seen /\ Trim(job).cursors = job.cursors
        /\ Trim(job).status = job.status /\ Trim(job).durErr = job.durErr
        /\ Trim(job).hub = job.hub /\ Trim(job).created = job.created
    BY <2>1 DEF SearchJob
  <2> QED BY <1>1, <2>2, <2>3 DEF cut
<1> QED BY <1>3, <1>4

LEMMA TrimSound ==
    ASSUME NEW job \in SearchJob, JobSound(job)
    PROVE  JobSound(Trim(job)) /\ ArtifactSound(FromJob(Trim(job)))
<1> DEFINE t == Trim(job)
<1>1. job.results \in Seq(Keys) /\ t \in SearchJob  BY TrimFacts DEF SearchJob
<1>2. JobSound(t)
  <2>1. CASE t = job  BY <2>1
  <2>2. CASE t # job
    <3>1. PICK n \in Nat : n <= Len(job.results) /\ t.results = SubSeq(job.results, 1, n)
      BY <2>2, TrimResults
    <3>2. t.truncated /\ t.seen = job.seen  BY <2>2, TrimResults
    <3>3. Len(t.results) = n /\ IsInjective(t.results) /\ ToSet(t.results) \subseteq ToSet(job.results)
      BY <1>1, <3>1, PartFacts DEF JobSound
    <3>4. n <= Limit  BY <1>1, <3>1, BoundsAssumption DEF JobSound
    <3> QED BY <3>2, <3>3, <3>4 DEF JobSound
  <2> QED BY <2>1, <2>2
<1>3. FromJob(t).results = t.results
  <2> HIDE DEF t
  <2> QED BY <1>1 DEF FromJob, SearchJob
<1> QED BY <1>2, <1>3 DEF JobSound, ArtifactSound

LEMMA RevivedFacts ==
    ASSUME NEW a \in SearchJob
    PROVE  /\ Revived(a) \in SearchJob
           /\ Revived(a).results = a.results /\ Revived(a).seen = ToSet(a.results)
           /\ Revived(a).cursors = a.cursors /\ Revived(a).truncated = a.truncated
           /\ Revived(a).durErr = a.durErr /\ Revived(a).hub = a.hub
           /\ Revived(a).created = a.created
           /\ Revived(a).pending = {} /\ (a.pending = {} => Revived(a).lost = a.lost)
<1> DEFINE r == IntoJob(a)
           st == [h \in Hosts |-> IF h \in r.pending THEN "failed" ELSE r.status[h]]
<1>1. r \in SearchJob /\ r.pending = a.pending /\ r.lost = a.lost  BY IntoJobFacts
<1>2. /\ r.results = a.results /\ r.seen = ToSet(a.results) /\ r.cursors = a.cursors
      /\ r.truncated = a.truncated /\ r.durErr = a.durErr /\ r.hub = a.hub /\ r.created = a.created
  BY DEF IntoJob, SearchJob
<1>3. Revived(a) = IF r.pending = {} THEN r
                   ELSE [r EXCEPT !.lost = TRUE, !.pending = {}, !.status = st]
  BY DEF Revived
<1> HIDE DEF r
<1>4. st \in [Hosts -> HostStates \cup {"none"}]
  BY <1>1 DEF SearchJob, HostStates
<1> HIDE DEF st
<1>5. CASE r.pending = {}  BY <1>1, <1>2, <1>3, <1>5
<1>6. CASE r.pending # {}
  <2>1. Revived(a) = [r EXCEPT !.lost = TRUE, !.pending = {}, !.status = st]  BY <1>3, <1>6
  <2>2. Revived(a) \in SearchJob  BY <1>1, <1>4, <2>1 DEF SearchJob
  <2>3. /\ Revived(a).results = r.results /\ Revived(a).seen = r.seen
        /\ Revived(a).cursors = r.cursors /\ Revived(a).truncated = r.truncated
        /\ Revived(a).durErr = r.durErr /\ Revived(a).hub = r.hub
        /\ Revived(a).created = r.created /\ Revived(a).pending = {}
    BY <1>1, <2>1 DEF SearchJob
  <2> QED BY <1>1, <1>2, <1>6, <2>2, <2>3
<1> QED BY <1>5, <1>6

LEMMA RevivedSound ==
    ASSUME NEW a \in SearchJob, ArtifactSound(a)
    PROVE  JobSound(Revived(a))
BY RevivedFacts DEF ArtifactSound, JobSound

\* What merging adds to a job.
LEMMA MergeContents ==
    ASSUME NEW job \in SearchJob, NEW h \in Hosts, NEW a \in Answers[h],
           NEW o \in MergeResult(job, h, a)
    PROVE  \E s \in Admitted(job, a.hits) :
             /\ s \in Seq(Keys) /\ o.results = job.results \o s
             /\ o.seen = job.seen \cup ToSet(a.hits)
             /\ o.truncated = (job.truncated \/ a.truncated \/ Len(s) < Len(a.hits))
             /\ o.cursors = job.cursors /\ o.hub = job.hub /\ o.durErr = job.durErr
             /\ o.created = job.created
             /\ o.status = [job.status EXCEPT ![h] = a.state]
<1>1. a.hits \in Seq(Keys) /\ a.state \in HostStates /\ a.truncated \in BOOLEAN
  BY AnswersAssumption
<1>2. PICK s \in Admitted(job, a.hits) :
        o = [job EXCEPT !.truncated = @ \/ a.truncated \/ Len(s) < Len(a.hits),
                        !.status[h] = a.state,
                        !.results = @ \o s,
                        !.seen = @ \cup ToSet(a.hits)]
  BY Zenon DEF MergeResult
<1> DEFINE room == IF Len(job.results) < Limit THEN Limit - Len(job.results) ELSE 0
<1>3. room \in Nat  BY BoundsAssumption DEF SearchJob
<1>4. PICK n \in 0..room : s \in [1..n -> ToSet(a.hits) \ job.seen]
  BY Zenon DEF Admitted
<1>5. s \in Seq(Keys)
  <2>1. n \in Nat  BY <1>3, <1>4
  <2>2. ToSet(a.hits) \subseteq Keys  BY <1>1 DEF ToSet
  <2>3. s \in [1..n -> Keys]  BY <1>4, <2>2
  <2> QED BY <2>1, <2>3
<1> DEFINE tr == job.truncated \/ a.truncated \/ Len(s) < Len(a.hits)
           rs == job.results \o s
           se == job.seen \cup ToSet(a.hits)
           st == [job.status EXCEPT ![h] = a.state]
<1>6. o = [job EXCEPT !.truncated = tr, !.status = st, !.results = rs, !.seen = se]
  BY <1>2 DEF SearchJob
<1> HIDE DEF tr, rs, se, st
<1>7. /\ o.results = rs /\ o.seen = se /\ o.truncated = tr /\ o.status = st
      /\ o.cursors = job.cursors /\ o.hub = job.hub /\ o.durErr = job.durErr
      /\ o.created = job.created
  BY <1>6 DEF SearchJob
<1> QED BY <1>5, <1>7 DEF tr, rs, se, st

LEMMA CountTo ==
    ASSUME NEW n \in Nat
    PROVE  IsFiniteSet(1 .. n) /\ Cardinality(1 .. n) = n
BY FS_Interval

\* What is admitted are new keys, each once: all of them, or as many as there is room for.
LEMMA AdmittedFacts ==
    ASSUME NEW job \in SearchJob, NEW hits \in Seq(Keys), NEW s \in Admitted(job, hits)
    PROVE  /\ s \in Seq(Keys) /\ IsInjective(s)
           /\ ToSet(s) \subseteq ToSet(hits) \ job.seen
           /\ Len(job.results) <= Limit => Len(job.results) + Len(s) <= Limit
           /\ ToSet(hits) \ job.seen \subseteq ToSet(s) \/ Len(s) < Len(hits)
<1> DEFINE fresh == ToSet(hits) \ job.seen
           room == IF Len(job.results) < Limit THEN Limit - Len(job.results) ELSE 0
<1>1. room \in Nat /\ Len(job.results) \in Nat /\ Limit \in Nat
  BY BoundsAssumption DEF SearchJob
<1>2. PICK n \in 0..room : s \in [1..n -> fresh]
  BY Zenon DEF Admitted
<1>3. IsInjective(s) /\ (Len(s) = room \/ ToSet(s) = fresh)
  BY Zenon DEF Admitted
<1>4. n \in Nat /\ ToSet(hits) \subseteq Keys  BY <1>1, <1>2 DEF ToSet
<1>5. s \in Seq(Keys) /\ Len(s) = n /\ DOMAIN s = 1 .. n
  <2>1. s \in [1..n -> Keys]  BY <1>2, <1>4
  <2> QED BY <1>4, <2>1
<1>6. ToSet(s) \subseteq fresh  BY <1>2, <1>5 DEF ToSet
<1>7. Len(job.results) <= Limit => Len(job.results) + Len(s) <= Limit
  BY <1>1, <1>2, <1>5
<1>8. fresh \subseteq ToSet(s) \/ Len(s) < Len(hits)
  <2> SUFFICES ASSUME ~(fresh \subseteq ToSet(s)) PROVE Len(s) < Len(hits)  OBVIOUS
  <2> DEFINE m == Len(hits)
  <2>1. m \in Nat /\ DOMAIN hits = 1 .. m  OBVIOUS
  <2>2. hits \in Surjection(1 .. m, ToSet(hits))
    <3>1. hits = [i \in 1 .. m |-> hits[i]]  BY <2>1
    <3>2. hits \in [1 .. m -> ToSet(hits)]  BY <2>1, <3>1 DEF ToSet
    <3> QED BY <2>1, <3>2 DEF Surjection, ToSet
  <2>3. IsFiniteSet(1 .. m) /\ Cardinality(1 .. m) = m  BY <2>1, CountTo
  <2>4. IsFiniteSet(ToSet(hits)) /\ Cardinality(ToSet(hits)) <= m
    BY <2>2, <2>3, FS_Surjection
  <2>5. s \in Injection(1 .. n, ToSet(s)) /\ s \in Surjection(1 .. n, ToSet(s))
    <3>1. s \in [1 .. n -> ToSet(s)]  BY <1>2, <1>5 DEF ToSet
    <3> QED BY <1>3, <1>5, <3>1 DEF Injection, Surjection, ToSet
  <2>6. ToSet(s) \in SUBSET ToSet(hits) /\ ToSet(s) # ToSet(hits)  BY <1>6
  <2>7. /\ IsFiniteSet(ToSet(s)) /\ Cardinality(ToSet(s)) <= Cardinality(ToSet(hits))
        /\ Cardinality(ToSet(s)) # Cardinality(ToSet(hits))
    BY <2>4, <2>6, FS_Subset
  <2>8. IsFiniteSet(1 .. n) /\ Cardinality(1 .. n) = n  BY <1>4, CountTo
  <2>9. n <= Cardinality(ToSet(s))  BY <2>5, <2>7, <2>8, FS_Injection
  <2>10. Cardinality(ToSet(s)) \in Nat /\ Cardinality(ToSet(hits)) \in Nat
    BY <2>4, <2>7, FS_CardinalityType
  <2> HIDE DEF m
  <2>11. n < m  BY <1>4, <2>1, <2>4, <2>7, <2>9, <2>10
  <2> QED BY <1>5, <2>11 DEF m
<1> QED BY <1>3, <1>5, <1>6, <1>7, <1>8

LEMMA MergeSound ==
    ASSUME NEW job \in SearchJob, JobSound(job), NEW h \in Hosts, NEW a \in Answers[h],
           NEW o \in MergeResult(job, h, a)
    PROVE  JobSound(o)
<1>1. a.hits \in Seq(Keys) /\ job.results \in Seq(Keys)  BY AnswersAssumption DEF SearchJob
<1>2. PICK s \in Admitted(job, a.hits) :
         /\ o.results = job.results \o s /\ o.seen = job.seen \cup ToSet(a.hits)
         /\ o.truncated = (job.truncated \/ a.truncated \/ Len(s) < Len(a.hits))
  BY MergeContents
<1>3. /\ s \in Seq(Keys) /\ IsInjective(s) /\ ToSet(s) \subseteq ToSet(a.hits) \ job.seen
      /\ Len(job.results) <= Limit => Len(job.results) + Len(s) <= Limit
      /\ ToSet(a.hits) \ job.seen \subseteq ToSet(s) \/ Len(s) < Len(a.hits)
  BY <1>1, AdmittedFacts
<1> DEFINE l == Len(job.results)
           n == Len(s)
           c == job.results \o s
<1>4. l \in Nat /\ n \in Nat /\ Len(c) = l + n /\ DOMAIN c = 1 .. l + n
      /\ DOMAIN job.results = 1 .. l /\ DOMAIN s = 1 .. n
  BY <1>1, <1>3
<1>5. \A i \in 1 .. l + n : c[i] = IF i <= l THEN job.results[i] ELSE s[i - l]
  BY <1>1, <1>3
<1>6. /\ \A i \in 1 .. l : job.results[i] \in job.seen
      /\ \A i \in 1 .. n : s[i] \notin job.seen
  BY <1>3, <1>4 DEF JobSound, ToSet
<1>7. /\ \A i, k \in 1 .. l : job.results[i] = job.results[k] => i = k
      /\ \A i, k \in 1 .. n : s[i] = s[k] => i = k
  BY <1>3, <1>4 DEF JobSound, IsInjective
<1> HIDE DEF c, l, n
<1>8. ASSUME NEW i \in 1 .. l + n, NEW k \in 1 .. l + n, c[i] = c[k] PROVE i = k
  <2>1. /\ i \in Nat /\ k \in Nat /\ (i <= l => i \in 1 .. l) /\ (k <= l => k \in 1 .. l)
        /\ (~(i <= l) => i - l \in 1 .. n) /\ (~(k <= l) => k - l \in 1 .. n)
    BY <1>4
  <2>2. CASE i <= l /\ k <= l  BY <1>5, <1>7, <1>8, <2>1, <2>2
  <2>3. CASE i <= l /\ ~(k <= l)  BY <1>5, <1>6, <1>8, <2>1, <2>3
  <2>4. CASE ~(i <= l) /\ k <= l  BY <1>5, <1>6, <1>8, <2>1, <2>4
  <2>5. CASE ~(i <= l) /\ ~(k <= l)
    <3>1. i - l = k - l  BY <1>5, <1>7, <1>8, <2>1, <2>5
    <3> QED BY <1>4, <2>1, <3>1
  <2> QED BY <2>2, <2>3, <2>4, <2>5
<1>9. IsInjective(c)  BY <1>4, <1>8 DEF IsInjective
<1>10. ToSet(c) = ToSet(job.results) \cup ToSet(s)
  <2>1. \A i \in 1 .. l + n : c[i] \in ToSet(job.results) \cup ToSet(s)
    <3> SUFFICES ASSUME NEW i \in 1 .. l + n PROVE c[i] \in ToSet(job.results) \cup ToSet(s)
      OBVIOUS
    <3>1. (i <= l => i \in 1 .. l) /\ (~(i <= l) => i - l \in 1 .. n)  BY <1>4
    <3> QED BY <1>4, <1>5, <3>1 DEF ToSet
  <2>2. \A i \in 1 .. l : i \in 1 .. l + n /\ c[i] = job.results[i]  BY <1>4, <1>5
  <2>3. \A i \in 1 .. n : l + i \in 1 .. l + n /\ c[l + i] = s[i]
    <3> SUFFICES ASSUME NEW i \in 1 .. n PROVE l + i \in 1 .. l + n /\ c[l + i] = s[i]  OBVIOUS
    <3>1. l + i \in 1 .. l + n /\ ~(l + i <= l) /\ (l + i) - l = i  BY <1>4
    <3> QED BY <1>5, <3>1
  <2>4. ToSet(c) \subseteq ToSet(job.results) \cup ToSet(s)  BY <1>4, <2>1 DEF ToSet
  <2>5. ToSet(job.results) \cup ToSet(s) \subseteq ToSet(c)
    BY <1>4, <2>2, <2>3 DEF ToSet
  <2> QED BY <2>4, <2>5
<1>11. Len(o.results) <= Limit
  BY <1>2, <1>3, <1>4 DEF JobSound, c, l, n
<1>12. o.results = c  BY <1>2 DEF c
<1> QED BY <1>2, <1>3, <1>9, <1>10, <1>11, <1>12 DEF JobSound

\* The other jobs are only removed, from the map and from the store.
Removed(S) ==
    \A k \in S : jobs'[k] \in {jobs[k], Absent} /\ disk'[k] \in {disk[k], Absent}

\* The job that an operation on j reads: that of the map, or else that of the store.
Read(j, b) ==
    \/ jobs[j] # Absent /\ b = jobs[j]
    \/ jobs[j] = Absent /\ disk[j] # Absent /\ b = Revived(disk[j])

Reloaded(j) ==
    /\ Removed(Jobs \ {j}) /\ disk'[j] \in {disk[j], Absent}
    /\ jobs[j] = Absent /\ disk[j] # Absent /\ jobs'[j] = Revived(disk[j])

\* Job x is stored as job j, and persisted unless that fails.
Written(j, x) ==
    /\ x \in SearchJob /\ Removed(Jobs \ {j})
    /\ jobs'[j] \in {Trim(x), DurabilityFailure(Trim(x))}
    /\ disk'[j] \in {disk[j], Absent, FromJob(Trim(x))}

\* What a search, a task of it, or a poll makes of the job it has read.
Started(j, x) == phase[j] = "unused" /\ \E hs \in SUBSET Hosts : x = NewJob(hs)
Worked(j, x) ==
    jobs[j] # Absent /\ \E h \in Hosts :
        \/ x = [jobs[j] EXCEPT !.hub = @ \cup {h}]
        \/ x = JobAfterError(jobs[j], h)
        \/ \E a \in Answers[h] : x \in MergeResult([jobs[j] EXCEPT !.pending = @ \ {h}], h, a)
Polled(j, x) ==
    \E b \in SearchJob : Read(j, b) /\
        \/ x = b
        \/ \E c \in Handles \ issued[j], end \in 0 .. Len(b.results) : x = AddCursor(b, c, end)

LEMMA PersistWrites ==
    ASSUME NEW j \in Jobs, NEW job \in SearchJob, NEW d \in Stored, NEW r \in Persist(j, job, d)
    PROVE  /\ r.job = Trim(job)
           /\ \A k \in Jobs \ {j} : r.disk[k] \in {d[k], Absent}
           /\ r.disk[j] \in {d[j], Absent, FromJob(Trim(job))}
           /\ r.ok => r.disk[j] \in {Absent, FromJob(Trim(job))}
<1> DEFINE t == Trim(job)
           f == FromJob(t)
           w == [d EXCEPT ![j] = f]
<1>1. w[j] = f /\ \A k \in Jobs \ {j} : w[k] = d[k]
  <2> HIDE DEF f
  <2> QED BY DEF Stored
<1>2. \A k \in Jobs : EnforceStoreBudget(w)[k] \in {w[k], Absent}
  <2> HIDE DEF w
  <2> QED BY Zenon DEF EnforceStoreBudget
<1>3. \/ r = [ok |-> TRUE, job |-> t, disk |-> EnforceStoreBudget(w)]
      \/ r = [ok |-> FALSE, job |-> t, disk |-> w]
      \/ r = [ok |-> FALSE, job |-> t, disk |-> d]
  BY Zenon DEF Persist
<1> HIDE DEF t, f, w
<1>4. CASE r = [ok |-> TRUE, job |-> t, disk |-> EnforceStoreBudget(w)]  BY <1>1, <1>2, <1>4 DEF f, t
<1>5. CASE r = [ok |-> FALSE, job |-> t, disk |-> w]  BY <1>1, <1>5 DEF f, t
<1>6. CASE r = [ok |-> FALSE, job |-> t, disk |-> d]  BY <1>6 DEF t
<1> QED BY <1>3, <1>4, <1>5, <1>6

\* What an operation on j finds after pruning is what it reads.
LEMMA ReadFacts ==
    ASSUME jobs \in Stored, disk \in Stored, NEW j \in Jobs,
           NEW m, m = Restore(Prune(jobs, disk).mem, Prune(jobs, disk).disk, j), m[j] # Absent
    PROVE  /\ m \in Stored /\ Read(j, m[j])
           /\ \A k \in Jobs \ {j} : m[k] \in {jobs[k], Absent}
           /\ m = Prune(jobs, disk).mem \/ (jobs[j] = Absent /\ disk[j] # Absent)
<1> USE DEF Stored
<1> DEFINE p == Prune(jobs, disk)
<1>1. /\ p.mem \in Stored /\ p.disk \in Stored
      /\ \A k \in Jobs : p.mem[k] \in {jobs[k], Absent} /\ p.disk[k] \in {disk[k], Absent}
  BY PruneFacts
<1>2. p.mem[j] = Absent /\ jobs[j] # Absent => p.disk[j] = Absent
  BY Zenon DEF Prune, DroppedJobs
<1> HIDE DEF p
<1>3. CASE p.mem[j] # Absent \/ p.disk[j] = Absent
  <2>1. m = p.mem  BY <1>3, RestoreKeeps DEF p
  <2> QED BY <1>1, <2>1 DEF Read, p
<1>4. CASE p.mem[j] = Absent /\ p.disk[j] # Absent
  <2>1. jobs[j] = Absent /\ p.disk[j] = disk[j] /\ disk[j] \in SearchJob
    BY <1>1, <1>2, <1>4
  <2>2. m = [p.mem EXCEPT ![j] = Revived(p.disk[j])]
    BY <1>4, Zenon DEF Restore, Revived, p
  <2>3. Revived(p.disk[j]) \in SearchJob  BY <2>1, RevivedFacts
  <2> QED BY <1>1, <1>4, <2>1, <2>2, <2>3 DEF Read
<1> QED BY <1>3, <1>4

LEMMA AddCursorType ==
    ASSUME NEW b \in SearchJob, NEW c, NEW end \in Nat
    PROVE  /\ AddCursor(b, c, end) \in SearchJob
           /\ AddCursor(b, c, end).results = b.results /\ AddCursor(b, c, end).seen = b.seen
           /\ AddCursor(b, c, end).truncated = b.truncated
           /\ AddCursor(b, c, end).pending = b.pending /\ AddCursor(b, c, end).lost = b.lost
           /\ AddCursor(b, c, end).durErr = b.durErr
           /\ AddCursor(b, c, end).status = b.status
           /\ \A k \in Handles : AddCursor(b, c, end).cursors[k] \in
                 {NoOffset} \cup (IF k = c THEN {end} ELSE {b.cursors[k]})
<1> DEFINE every == CursorSet(b) \cup {c}
           kept == {k \in every : Cardinality({i \in every : i > k}) < MaxCursors}
           cs == [k \in Handles |-> IF k \notin kept THEN NoOffset
                                    ELSE IF k = c THEN end ELSE b.cursors[k]]
<1>1. AddCursor(b, c, end) = [b EXCEPT !.cursors = cs]  BY Zenon DEF AddCursor
<1>2. b.cursors \in [Handles -> Nat \cup {NoOffset}]  BY DEF SearchJob
<1> HIDE DEF kept
<1>3. /\ cs \in [Handles -> Nat \cup {NoOffset}]
      /\ \A k \in Handles : cs[k] \in {NoOffset} \cup (IF k = c THEN {end} ELSE {b.cursors[k]})
  BY <1>2
<1> HIDE DEF cs
<1> QED BY <1>1, <1>3 DEF SearchJob

\* What a reply does to the registry.
LEMMA ReplyShape ==
    ASSUME TypeOK, NEW j \in Jobs, NEW start \in Nat, NEW n \in Nat,
           NEW all \in BOOLEAN, NEW followed \in BOOLEAN,
           Reply(j, start, n, all, followed)
    PROVE  \E x : Polled(j, x) /\ Written(j, x)
<1> USE DEF Stored
<1>1. jobs \in Stored /\ disk \in Stored  BY DEF TypeOK
<1> DEFINE p == Prune(jobs, disk)
           m == Restore(p.mem, p.disk, j)
           job == m[j]
           len == Len(job.results)
           from == IF start < len THEN start ELSE len
           end == IF all \/ from + n > len THEN len ELSE from + n
           more == CursorDue(job, end, all)
           next(c) == IF more THEN AddCursor(job, c, end) ELSE job
<1>2. job # Absent  BY Zenon DEF Reply
<1>3. PICK c \in IF more THEN Handles \ issued[j] ELSE {NoOffset} :
      \E r \in Persist(j, next(c), p.disk) :
         /\ jobs' = [m EXCEPT ![j] = IF r.ok THEN r.job ELSE DurabilityFailure(r.job)]
         /\ disk' = r.disk
  BY Zenon DEF Reply
<1>4. PICK r \in Persist(j, next(c), p.disk) :
         /\ jobs' = [m EXCEPT ![j] = IF r.ok THEN r.job ELSE DurabilityFailure(r.job)]
         /\ disk' = r.disk
  BY <1>3, Zenon
<1>5. p.disk \in Stored /\ \A k \in Jobs : p.disk[k] \in {disk[k], Absent}
  BY <1>1, PruneFacts
<1> HIDE DEF m
<1>6. /\ m \in Stored /\ Read(j, job) /\ \A k \in Jobs \ {j} : m[k] \in {jobs[k], Absent}
  BY <1>1, <1>2, ReadFacts DEF m
<1>7. job \in SearchJob  BY <1>2, <1>6
<1>8. end \in 0 .. len  BY <1>7 DEF SearchJob
<1> HIDE DEF p, from, end, job
<1>9. Polled(j, next(c))
  <2>1. CASE more  BY <1>3, <1>6, <1>7, <1>8, <2>1 DEF Polled
  <2>2. CASE ~more  BY <1>6, <1>7, <2>2 DEF Polled
  <2> QED BY <2>1, <2>2
<1>10. next(c) \in SearchJob
  <2>1. end \in Nat  BY <1>7, <1>8 DEF SearchJob
  <2> QED BY <1>7, <2>1, AddCursorType
<1> DEFINE x == next(c)
<1> HIDE DEF next, more
<1>11. /\ r.job = Trim(x)
       /\ \A k \in Jobs \ {j} : r.disk[k] \in {p.disk[k], Absent}
       /\ r.disk[j] \in {p.disk[j], Absent, FromJob(Trim(x))}
  BY <1>5, <1>10, PersistWrites
<1>12. Written(j, x)
  BY <1>4, <1>5, <1>6, <1>10, <1>11 DEF Written, Removed
<1> QED BY <1>9, <1>12

\* A reply: to a client that follows the cursors from the place it has come to, or to
\* another one.
Resumes(j, start, all) ==
    LET c == follower[j].cursor
        m == Restore(Prune(jobs, disk).mem, Prune(jobs, disk).disk, j)
    IN  /\ follower[j].state = "following" /\ ~all
        /\ \/ c = NoOffset /\ start = 0
           \/ c \in Handles /\ m[j].cursors[c] = start

Replied(j) ==
    /\ phase[j] = "returned"
    /\ \E start \in Nat, n \in Nat, all, followed \in BOOLEAN :
          Reply(j, start, n, all, followed) /\ (followed => Resumes(j, start, all))

\* Any other step, as jobs, artifacts and the clients see it.
Elsewhere ==
    /\ \/ Removed(Jobs)
       \/ \E j \in Jobs : Reloaded(j)
       \/ \E j \in Jobs : \E x : (Started(j, x) \/ Worked(j, x)) /\ Written(j, x)
    /\ issued' = issued
    /\ \A k \in Jobs : follower'[k] = follower[k] \/ follower'[k].state = "broken"
    /\ \A k \in Jobs : phase[k] # "unused" => phase'[k] # "unused"

\* Every step is a reply or one of the others.
LEMMA StartInsertShape ==
    ASSUME TypeOK, NEW j \in Jobs, NEW hs \in SUBSET Hosts, StartInsert(j, hs)
    PROVE  Elsewhere
<1> USE DEF Stored
<1>1. jobs \in Stored /\ disk \in Stored  BY DEF TypeOK
<1> DEFINE p == Prune(jobs, disk)
<1>2. /\ p.mem \in Stored /\ p.disk \in Stored
      /\ \A k \in Jobs : p.mem[k] \in {jobs[k], Absent} /\ p.disk[k] \in {disk[k], Absent}
  BY <1>1, PruneFacts
<1>3. PICK r \in Persist(j, NewJob(hs), p.disk) :
         /\ jobs' = [p.mem EXCEPT ![j] = r.job]
         /\ disk' = r.disk
         /\ phase' = [phase EXCEPT ![j] = IF r.ok THEN "starting" ELSE "orphan"]
  BY Zenon DEF StartInsert
<1>4. phase[j] = "unused" /\ UNCHANGED <<issued, follower>>  BY DEF StartInsert
<1> HIDE DEF p
<1>5. NewJob(hs) \in SearchJob  BY DEF NewJob, SearchJob, TypeOK
<1> DEFINE x == NewJob(hs)
<1>6. Started(j, x)  BY <1>4 DEF Started
<1> HIDE DEF x
<1>7. /\ r.job = Trim(x)
      /\ \A k \in Jobs \ {j} : r.disk[k] \in {p.disk[k], Absent}
      /\ r.disk[j] \in {p.disk[j], Absent, FromJob(Trim(x))}
  BY <1>2, <1>5, PersistWrites DEF x
<1>8. Written(j, x)  BY <1>2, <1>3, <1>5, <1>7 DEF Written, Removed, x
<1>9. \A k \in Jobs : phase[k] # "unused" => phase'[k] # "unused"
  BY <1>3, <1>4 DEF TypeOK
<1> QED BY <1>4, <1>6, <1>8, <1>9 DEF Elsewhere

LEMMA WorkShape ==
    ASSUME TypeOK, NEW j \in Jobs, NEW x \in SearchJob, Worked(j, x), NEW r \in Persist(j, x, disk),
           jobs' \in {[jobs EXCEPT ![j] = r.job], [jobs EXCEPT ![j] = DurabilityFailure(r.job)]},
           disk' = r.disk, UNCHANGED <<phase, issued, follower>>
    PROVE  Elsewhere
<1> USE DEF Stored
<1>1. jobs \in Stored /\ disk \in Stored  BY DEF TypeOK
<1>2. /\ r.job = Trim(x)
      /\ \A k \in Jobs \ {j} : r.disk[k] \in {disk[k], Absent}
      /\ r.disk[j] \in {disk[j], Absent, FromJob(Trim(x))}
  BY <1>1, PersistWrites
<1>3. Written(j, x)  BY <1>1, <1>2 DEF Written, Removed
<1> QED BY <1>3 DEF Elsewhere

LEMMA TaskEndShape ==
    ASSUME TypeOK, NEW j \in Jobs, NEW h \in Hosts, NEW outcomes,
           \A o \in outcomes : o \in SearchJob /\ Worked(j, o),
           TaskEnd(j, h, outcomes)
    PROVE  Elsewhere
<1>1. PICK o \in outcomes : \E r \in Persist(j, o, disk) :
        /\ jobs' = [jobs EXCEPT ![j] = IF r.ok THEN r.job ELSE DurabilityFailure(r.job)]
        /\ disk' = r.disk
  BY Zenon DEF TaskEnd
<1>2. PICK r \in Persist(j, o, disk) :
        /\ jobs' = [jobs EXCEPT ![j] = IF r.ok THEN r.job ELSE DurabilityFailure(r.job)]
        /\ disk' = r.disk
  BY <1>1, Zenon
<1>3. o \in SearchJob /\ Worked(j, o)  OBVIOUS
<1>4. UNCHANGED <<phase, issued, follower>>  BY DEF TaskEnd
<1> QED BY <1>2, <1>3, <1>4, WorkShape

LEMMA TaskStepShape ==
    ASSUME TypeOK, NEW j \in Jobs, NEW h \in Hosts, HubAdmitted(j, h) \/ TaskStep(j, h)
    PROVE  Elsewhere
<1> DEFINE taken == [jobs[j] EXCEPT !.pending = @ \ {h}]
           hub == [jobs[j] EXCEPT !.hub = @ \cup {h}]
           failed == JobAfterError(jobs[j], h)
<1>1. jobs[j] # Absent => jobs[j] \in SearchJob  BY DEF TypeOK
<1>2. jobs[j] # Absent => taken \in SearchJob /\ hub \in SearchJob /\ failed \in SearchJob
  BY <1>1 DEF SearchJob, JobAfterError, HostStates
<1>3. CASE TaskAnswered(j, h)
  <2>1. jobs[j] # Absent  BY <1>3 DEF TaskAnswered
  <2>2. PICK a \in Answers[h] : TaskEnd(j, h, MergeResult(taken, h, a))  BY <1>3 DEF TaskAnswered
  <2>3. taken \in SearchJob  BY <1>2, <2>1
  <2>4. \A o \in MergeResult(taken, h, a) : Worked(j, o)  BY <2>1 DEF Worked
  <2> HIDE DEF taken
  <2>5. \A o \in MergeResult(taken, h, a) : o \in SearchJob  BY <2>3, MergeFacts
  <2> DEFINE os == MergeResult(taken, h, a)
  <2>6. \A o \in os : o \in SearchJob /\ Worked(j, o)  BY <2>4, <2>5
  <2>7. TaskEnd(j, h, os)  BY <2>2
  <2> HIDE DEF os
  <2> QED BY <2>6, <2>7, TaskEndShape
<1>4. CASE TaskFailed(j, h)
  <2>1. jobs[j] # Absent /\ TaskEnd(j, h, {failed})  BY <1>4 DEF TaskFailed
  <2>2. failed \in SearchJob /\ Worked(j, failed)  BY <1>2, <2>1 DEF Worked
  <2> DEFINE os == {failed}
  <2>3. \A o \in os : o \in SearchJob /\ Worked(j, o)  BY <2>2
  <2>4. TaskEnd(j, h, os)  BY <2>1
  <2> HIDE DEF os
  <2> QED BY <2>3, <2>4, TaskEndShape
<1>5. CASE TaskOrphaned(j, h)
  <2>1. UNCHANGED <<jobs, disk, phase, issued, follower>>  BY <1>5 DEF TaskOrphaned
  <2> QED BY <2>1 DEF Elsewhere, Removed
<1>6. CASE HubAdmitted(j, h)
  <2>1. UNCHANGED <<phase, issued, follower>>  BY <1>6 DEF HubAdmitted
  <2>2. CASE jobs[j] = Absent
    <3>1. UNCHANGED <<jobs, disk>>  BY <1>6, <2>2 DEF HubAdmitted
    <3> QED BY <2>1, <3>1 DEF Elsewhere, Removed
  <2>3. CASE jobs[j] # Absent
    <3>1. PICK r \in Persist(j, hub, disk) : jobs' = [jobs EXCEPT ![j] = r.job] /\ disk' = r.disk
      BY <1>6, <2>3, Zenon DEF HubAdmitted
    <3>2. hub \in SearchJob /\ Worked(j, hub)  BY <1>2, <2>3 DEF Worked
    <3> HIDE DEF hub
    <3> QED BY <2>1, <3>1, <3>2, WorkShape
  <2> QED BY <2>2, <2>3
<1> QED BY <1>3, <1>4, <1>5, <1>6 DEF TaskStep

LEMMA PollShape ==
    ASSUME TypeOK, NEW j \in Jobs,
           (\E n \in 1..PageMax : FollowerPoll(j, n) \/ OtherPoll(j, n)) \/ Snapshot(j)
    PROVE  Replied(j)
<1>1. CASE \E n \in 1..PageMax : FollowerPoll(j, n)
  <2>1. PICK n \in 1..PageMax : FollowerPoll(j, n)  BY <1>1
  <2> DEFINE p == Prune(jobs, disk)
             m == Restore(p.mem, p.disk, j)
             c == follower[j].cursor
  <2>2. /\ phase[j] = "returned" /\ follower[j].state = "following" /\ m[j] # Absent
        /\ \/ c = NoOffset /\ Reply(j, 0, n, FALSE, TRUE)
           \/ /\ c # NoOffset /\ m[j].cursors[c] # NoOffset
              /\ Reply(j, m[j].cursors[c], n, FALSE, TRUE)
    BY <2>1, Zenon DEF FollowerPoll
  <2>3. jobs \in Stored /\ disk \in Stored  BY DEF TypeOK, Stored
  <2>4. m[j] \in SearchJob
    <3> HIDE DEF m
    <3>1. m \in Stored  BY <2>2, <2>3, ReadFacts DEF m
    <3> QED BY <2>2, <3>1 DEF Stored
  <2>5. c \in Handles \cup {NoOffset}  BY DEF TypeOK, Follower
  <2>6. c # NoOffset /\ m[j].cursors[c] # NoOffset => m[j].cursors[c] \in Nat
    <3> HIDE DEF m, c
    <3> QED BY <2>4, <2>5 DEF SearchJob
  <2>7. n \in Nat  BY BoundsAssumption
  <2>8. CASE c = NoOffset /\ Reply(j, 0, n, FALSE, TRUE)
    <3>1. Resumes(j, 0, FALSE)  BY <2>2, <2>8 DEF Resumes
    <3> QED BY <2>2, <2>7, <2>8, <3>1 DEF Replied
  <2>9. CASE c # NoOffset /\ m[j].cursors[c] # NoOffset /\ Reply(j, m[j].cursors[c], n, FALSE, TRUE)
    <3>1. PICK start \in Nat : start = m[j].cursors[c]  BY <2>6, <2>9
    <3>2. Resumes(j, start, FALSE)
      <4>1. c \in Handles /\ ~FALSE  BY <2>5, <2>9
      <4> QED BY <2>2, <3>1, <4>1, Zenon DEF Resumes
    <3>3. Reply(j, start, n, FALSE, TRUE)  BY <2>9, <3>1, Zenon
    <3> QED BY <2>2, <2>7, <3>2, <3>3 DEF Replied
  <2> QED BY <2>2, <2>8, <2>9
<1>2. CASE \E n \in 1..PageMax : OtherPoll(j, n)
  <2>1. PICK n \in 1..PageMax : OtherPoll(j, n)  BY <1>2
  <2>2. n \in Nat  BY BoundsAssumption
  <2> QED BY <2>1, <2>2 DEF OtherPoll, Replied
<1>3. CASE Snapshot(j)  BY <1>3 DEF Snapshot, Replied
<1> QED BY <1>1, <1>2, <1>3

LEMMA NextShape ==
    ASSUME TypeOK, [Next]_vars
    PROVE  Elsewhere \/ \E j \in Jobs : Replied(j)
<1> USE DEF Stored
<1>1. jobs \in Stored /\ disk \in Stored  BY DEF TypeOK
<1>2. ASSUME NEW m, NEW d, m = Prune(jobs, disk).mem, d = Prune(jobs, disk).disk
      PROVE  /\ m \in Stored /\ d \in Stored
             /\ \A k \in Jobs : m[k] \in {jobs[k], Absent} /\ d[k] \in {disk[k], Absent}
  BY <1>1, <1>2, PruneFacts
<1>3. ASSUME Removed(Jobs), issued' = issued,
             \A k \in Jobs : follower'[k] = follower[k] \/ follower'[k].state = "broken",
             phase' = phase
      PROVE  Elsewhere
  BY <1>3 DEF Elsewhere
<1>4. CASE \E j \in Jobs : JobNext(j)
  <2>1. PICK j \in Jobs : JobNext(j)  BY <1>4
  <2>2. CASE \E hs \in SUBSET Hosts : StartInsert(j, hs)  BY <2>2, StartInsertShape
  <2>3. CASE \E browser \in BOOLEAN : StartSpawn(j, browser)
    <3>1. UNCHANGED <<jobs, disk, issued, follower>>  BY <2>3 DEF StartSpawn
    <3>2. phase' = [phase EXCEPT ![j] = "returned"] \/ phase' = [phase EXCEPT ![j] = "orphan"]
      BY <2>3, Zenon DEF StartSpawn
    <3>3. \A k \in Jobs : phase[k] # "unused" => phase'[k] # "unused"
      BY <3>2 DEF TypeOK
    <3> QED BY <3>1, <3>3 DEF Elsewhere, Removed
  <2>4. CASE \E h \in Hosts : HubAdmitted(j, h) \/ TaskStep(j, h)  BY <2>4, TaskStepShape
  <2>5. CASE (\E n \in 1..PageMax : FollowerPoll(j, n) \/ OtherPoll(j, n)) \/ Snapshot(j)
    BY <2>5, PollShape
  <2>6. CASE FollowerBadCursor(j)
    <3> DEFINE m == Restore(Prune(jobs, disk).mem, Prune(jobs, disk).disk, j)
    <3>1. /\ m[j] # Absent /\ jobs' = m /\ disk' = Prune(jobs, disk).disk
          /\ follower' = [follower EXCEPT ![j].state = "broken"]
          /\ UNCHANGED <<phase, issued>>
      BY <2>6, Zenon DEF FollowerBadCursor
    <3> HIDE DEF m
    <3>2. /\ m \in Stored /\ Read(j, m[j]) /\ \A k \in Jobs \ {j} : m[k] \in {jobs[k], Absent}
      BY <1>1, <3>1, ReadFacts DEF m
    <3>3. \A k \in Jobs : disk'[k] \in {disk[k], Absent}  BY <1>2, <3>1
    <3>4. \A k \in Jobs : follower'[k] = follower[k] \/ follower'[k].state = "broken"
      BY <3>1 DEF TypeOK, Follower
    <3>5. Removed(Jobs) \/ Reloaded(j)
      BY <3>1, <3>2, <3>3 DEF Read, Removed, Reloaded
    <3> QED BY <3>1, <3>4, <3>5 DEF Elsewhere
  <2>7. CASE PollExpired(j)
    <3>1. /\ jobs' = Prune(jobs, disk).mem /\ disk' = Prune(jobs, disk).disk
          /\ follower' = [follower EXCEPT ![j].state = IF @ = "following" THEN "broken" ELSE @]
          /\ UNCHANGED <<phase, issued>>
      BY <2>7, Zenon DEF PollExpired
    <3>2. follower \in [Jobs -> Follower]  BY DEF TypeOK
    <3>3. \A k \in Jobs : follower'[k] = follower[k] \/ follower'[k].state = "broken"
      BY <3>1, <3>2 DEF Follower
    <3>4. Removed(Jobs)  BY <1>2, <3>1 DEF Removed
    <3> QED BY <1>3, <3>1, <3>3, <3>4
  <2> QED BY <2>1, <2>2, <2>3, <2>4, <2>5, <2>6, <2>7 DEF JobNext
<1>5. CASE IsVerbose
  <2>1. /\ jobs' = Prune(jobs, disk).mem /\ disk' = Prune(jobs, disk).disk
        /\ UNCHANGED <<phase, issued, follower>>
    BY <1>5, Zenon DEF IsVerbose
  <2> QED BY <1>2, <1>3, <2>1 DEF Removed
<1>6. CASE PruneFails
  <2>1. UNCHANGED <<phase, issued, follower>>  BY <1>6 DEF PruneFails
  <2>2. \E G, V : /\ jobs' = [k \in Jobs |-> IF k \in V THEN Absent ELSE jobs[k]]
                  /\ disk' = [k \in Jobs |-> IF k \in G THEN Absent ELSE disk[k]]
    BY <1>6, Zenon DEF PruneFails
  <2> QED BY <1>3, <2>1, <2>2 DEF Removed
<1>7. CASE Restart
  <2>1. /\ jobs' = [j \in Jobs |-> Absent]
        /\ phase' = [j \in Jobs |-> IF phase[j] = "starting" THEN "orphan" ELSE phase[j]]
        /\ UNCHANGED <<disk, issued, follower>>
    BY <1>7 DEF Restart
  <2>2. \A k \in Jobs : phase[k] # "unused" => phase'[k] # "unused"  BY <2>1
  <2> QED BY <2>1, <2>2 DEF Elsewhere, Removed
<1>8. CASE Tick \/ UNCHANGED vars
  <2>1. UNCHANGED <<jobs, disk, phase, issued, follower>>  BY <1>8 DEF Tick, vars
  <2> QED BY <1>3, <2>1 DEF Removed
<1> QED BY <1>4, <1>5, <1>6, <1>7, <1>8 DEF Next

\* What the registry holds of each job.
Contents ==
    \A j \in Jobs : /\ jobs[j] # Absent => JobSound(jobs[j])
                    /\ disk[j] # Absent => ArtifactSound(disk[j])

\* A job that has been read, and what is made of it, is sound.
LEMMA ReadSound ==
    ASSUME TypeOK, Contents, NEW j \in Jobs, NEW b, Read(j, b)
    PROVE  b \in SearchJob /\ JobSound(b)
<1>1. CASE jobs[j] # Absent /\ b = jobs[j]  BY <1>1 DEF TypeOK, Contents
<1>2. CASE disk[j] # Absent /\ b = Revived(disk[j])
  <2>1. disk[j] \in SearchJob /\ ArtifactSound(disk[j])  BY <1>2 DEF TypeOK, Contents
  <2> QED BY <1>2, <2>1, RevivedFacts, RevivedSound
<1> QED BY <1>1, <1>2 DEF Read

LEMMA MadeSound ==
    ASSUME TypeOK, Contents, NEW j \in Jobs, NEW x,
           Started(j, x) \/ Worked(j, x) \/ Polled(j, x)
    PROVE  JobSound(x)
<1>1. CASE Started(j, x)
  <2>1. PICK hs \in SUBSET Hosts : x = NewJob(hs)  BY <1>1 DEF Started
  <2>2. x.results = <<>> /\ x.seen = {}  BY <2>1 DEF NewJob
  <2>3. Len(<<>>) = 0 /\ DOMAIN <<>> = {}  OBVIOUS
  <2> QED BY <2>2, <2>3, BoundsAssumption DEF JobSound, IsInjective, ToSet
<1>2. CASE Worked(j, x)
  <2>1. jobs[j] \in SearchJob /\ JobSound(jobs[j])  BY <1>2 DEF Worked, TypeOK, Contents
  <2>2. PICK h \in Hosts :
          \/ x = [jobs[j] EXCEPT !.hub = @ \cup {h}]
          \/ x = JobAfterError(jobs[j], h)
          \/ \E a \in Answers[h] : x \in MergeResult([jobs[j] EXCEPT !.pending = @ \ {h}], h, a)
    BY <1>2 DEF Worked
  <2>3. CASE x = [jobs[j] EXCEPT !.hub = @ \cup {h}]
    <3>1. x.results = jobs[j].results /\ x.seen = jobs[j].seen /\ x.truncated = jobs[j].truncated
      BY <2>1, <2>3 DEF SearchJob
    <3> QED BY <2>1, <3>1 DEF JobSound
  <2>4. CASE x = JobAfterError(jobs[j], h)
    <3>1. x.results = jobs[j].results /\ x.seen = jobs[j].seen /\ x.truncated = jobs[j].truncated
      BY <2>1, <2>4 DEF SearchJob, JobAfterError
    <3> QED BY <2>1, <3>1 DEF JobSound
  <2>5. CASE \E a \in Answers[h] : x \in MergeResult([jobs[j] EXCEPT !.pending = @ \ {h}], h, a)
    <3> DEFINE taken == [jobs[j] EXCEPT !.pending = @ \ {h}]
    <3>1. PICK a \in Answers[h] : x \in MergeResult(taken, h, a)  BY <2>5
    <3>2. /\ taken \in SearchJob /\ taken.results = jobs[j].results /\ taken.seen = jobs[j].seen
          /\ taken.truncated = jobs[j].truncated
      BY <2>1 DEF SearchJob
    <3> HIDE DEF taken
    <3>3. JobSound(taken)  BY <2>1, <3>2 DEF JobSound
    <3> QED BY <3>1, <3>2, <3>3, MergeSound
  <2> QED BY <2>2, <2>3, <2>4, <2>5
<1>3. CASE Polled(j, x)
  <2>1. PICK b \in SearchJob : Read(j, b) /\
          \/ x = b
          \/ \E c \in Handles \ issued[j], end \in 0 .. Len(b.results) : x = AddCursor(b, c, end)
    BY <1>3 DEF Polled
  <2>2. JobSound(b)  BY <2>1, ReadSound
  <2>3. CASE x = b  BY <2>2, <2>3
  <2>4. CASE \E c \in Handles \ issued[j], end \in 0 .. Len(b.results) : x = AddCursor(b, c, end)
    <3>1. PICK c \in Handles \ issued[j], end \in 0 .. Len(b.results) : x = AddCursor(b, c, end)
      BY <2>4
    <3>2. end \in Nat  BY <2>1 DEF SearchJob
    <3>3. x.results = b.results /\ x.seen = b.seen /\ x.truncated = b.truncated
      BY <2>1, <3>1, <3>2, AddCursorType
    <3> QED BY <2>2, <3>3 DEF JobSound
  <2> QED BY <2>1, <2>3, <2>4
<1> QED BY <1>1, <1>2, <1>3

LEMMA ContentsStep == ASSUME TypeOK, Contents, [Next]_vars PROVE Contents'
<1>1. ASSUME NEW S, Removed(S), NEW k \in S, k \in Jobs
      PROVE  /\ jobs'[k] # Absent => JobSound(jobs'[k])
             /\ disk'[k] # Absent => ArtifactSound(disk'[k])
  BY <1>1 DEF Removed, Contents
<1>2. CASE Removed(Jobs)  BY <1>1, <1>2 DEF Contents
<1>3. ASSUME NEW j \in Jobs, Reloaded(j) PROVE Contents'
  <2>1. disk[j] \in SearchJob /\ ArtifactSound(disk[j])  BY <1>3 DEF Reloaded, TypeOK, Contents
  <2>2. JobSound(jobs'[j])  BY <1>3, <2>1, RevivedSound DEF Reloaded
  <2>3. disk'[j] # Absent => ArtifactSound(disk'[j])  BY <1>3, <2>1 DEF Reloaded
  <2>4. Removed(Jobs \ {j})  BY <1>3 DEF Reloaded
  <2> QED BY <1>1, <2>2, <2>3, <2>4 DEF Contents
<1>4. ASSUME NEW j \in Jobs, NEW x, Written(j, x), Started(j, x) \/ Worked(j, x) \/ Polled(j, x)
      PROVE  Contents'
  <2>1. x \in SearchJob /\ JobSound(x)  BY <1>4, MadeSound DEF Written
  <2>2. JobSound(Trim(x)) /\ ArtifactSound(FromJob(Trim(x)))  BY <2>1, TrimSound
  <2>3. JobSound(DurabilityFailure(Trim(x)))
    <3>1. Trim(x) \in SearchJob  BY <2>1, TrimFacts
    <3> DEFINE t == Trim(x)
    <3> HIDE DEF t
    <3>2. /\ DurabilityFailure(t).results = t.results /\ DurabilityFailure(t).seen = t.seen
          /\ DurabilityFailure(t).truncated = t.truncated
      BY <3>1 DEF DurabilityFailure, SearchJob, t
    <3> QED BY <2>2, <3>2 DEF JobSound, t
  <2>4. JobSound(jobs'[j])  BY <1>4, <2>2, <2>3 DEF Written
  <2>5. disk'[j] # Absent => ArtifactSound(disk'[j])
    BY <1>4, <2>2 DEF Written, Contents
  <2>6. Removed(Jobs \ {j})  BY <1>4 DEF Written
  <2> QED BY <1>1, <2>4, <2>5, <2>6 DEF Contents
<1>5. ASSUME NEW j \in Jobs, Replied(j) PROVE Contents'
  <2>1. \E x : Polled(j, x) /\ Written(j, x)  BY <1>5, ReplyShape DEF Replied
  <2> QED BY <1>4, <2>1
<1> QED BY <1>2, <1>3, <1>4, <1>5, NextShape DEF Elsewhere

\* Whatever is trimmed, evicted, reloaded or lost: the results of a job in the map have no
\* key twice and stay within the limit, and what was seen and is not among them is
\* admitted by the truncated flag (merge_result, persist, into_job).
THEOREM NoSilentLossHolds == Spec => []NoSilentLoss
<1>1. Init => Contents  BY DEF Init, Contents
<1>2. TypeOK /\ Contents /\ [Next]_vars => Contents'  BY ContentsStep
<1>3. Contents => NoSilentLoss  BY DEF Contents, JobSound, NoSilentLoss
<1> QED BY <1>1, <1>2, <1>3, TypeCorrect, PTL DEF Spec

-----------------------------------------------------------------------------
(* The telemetry history. *)

\* Of a finite set in a strict order, at most K members have fewer than K before them.
LEMMA Ranked ==
    ASSUME NEW S, IsFiniteSet(S), NEW before \in [S -> SUBSET S],
           \A x \in S : x \notin before[x],
           \A x, y \in S : x \in before[y] => before[x] \subseteq before[y],
           \A x, y \in S : x # y => x \in before[y] \/ y \in before[x],
           NEW K \in Nat, NEW T \in SUBSET S, \A x \in T : Cardinality(before[x]) < K
    PROVE  IsFiniteSet(T) /\ Cardinality(T) <= K
<1> DEFINE rank == [x \in T |-> Cardinality(before[x])]
<1>1. \A x \in S : IsFiniteSet(before[x]) /\ Cardinality(before[x]) \in Nat
  BY FS_Subset, FS_CardinalityType
<1>2. ASSUME NEW x \in S, NEW y \in S, x \in before[y]
      PROVE  Cardinality(before[x]) < Cardinality(before[y])
  <2>1. before[x] \in SUBSET before[y] /\ x \notin before[x]  BY <1>2
  <2>2. /\ Cardinality(before[x]) <= Cardinality(before[y])
        /\ Cardinality(before[x]) # Cardinality(before[y])
    BY <1>1, <1>2, <2>1, FS_Subset
  <2> QED BY <1>1, <2>2
<1>3. rank \in [T -> 0 .. K - 1]  BY <1>1
<1>4. ASSUME NEW x \in T, NEW y \in T, rank[x] = rank[y] PROVE x = y
  <2>1. Cardinality(before[x]) = Cardinality(before[y])  BY <1>4
  <2>2. x \notin before[y] /\ y \notin before[x]  BY <1>1, <1>2, <2>1
  <2> QED BY <2>2
<1> HIDE DEF rank
<1>5. rank \in Injection(T, 0 .. K - 1)  BY <1>3, <1>4 DEF Injection, IsInjective
<1>6. IsFiniteSet(0 .. K - 1) /\ Cardinality(0 .. K - 1) = K  BY FS_Interval
<1> QED BY <1>5, <1>6, FS_Injection

\* What is left of a history is its end.
LEMMA TelemetryPart ==
    ASSUME NEW recs \in Seq(TelemetryRecord)
    PROVE  \E lo \in Nat : \A i \in DOMAIN TrimTelemetry(recs) :
              lo + i \in DOMAIN recs /\ TrimTelemetry(recs)[i] = recs[lo + i]
<1> DEFINE n == Len(recs)
           old == {i \in 1..n : clock - recs[i].finished >= TelemetryAge}
<1>1. n \in Nat  OBVIOUS
<1>2. IsFiniteSet(1..n) /\ Cardinality(1..n) = n  BY <1>1, FS_Interval
<1>3. Cardinality(old) \in Nat /\ Cardinality(old) <= n
  BY <1>2, FS_Subset, FS_CardinalityType
<1> DEFINE lo == IF n - Cardinality(old) > MaxTelemetry THEN n - MaxTelemetry
                 ELSE Cardinality(old)
<1>4. lo \in Nat /\ lo <= n  BY <1>1, <1>3, BoundsAssumption
<1>5. TrimTelemetry(recs) = SubSeq(recs, lo + 1, n)  BY DEF TrimTelemetry
<1> HIDE DEF lo
<1>6. DOMAIN SubSeq(recs, lo + 1, n) = 1 .. n - lo /\ DOMAIN recs = 1 .. n  BY <1>1, <1>4
<1>7. \A i \in 1 .. n - lo : lo + i \in 1 .. n /\ SubSeq(recs, lo + 1, n)[i] = recs[lo + i]
  BY <1>1, <1>4
<1> HIDE DEF n
<1> QED BY <1>4, <1>5, <1>6, <1>7

Counting == {j \in Jobs : telPending[j] # -1}

\* The searches of a history are different, and each of them was started.
Distinct(recs) == \A i, k \in DOMAIN recs : recs[i].job = recs[k].job => i = k
History(recs) ==
    Distinct(recs) /\ \A i \in DOMAIN recs : phase[recs[i].job] \in {"returned", "orphan"}

Telemetry ==
    /\ IsFiniteSet(Counting) /\ Cardinality(Counting) <= MaxJobs
    /\ \A j \in Counting : phase[j] = "returned"
    /\ History(records) /\ History(telDisk)
    /\ \A i \in DOMAIN records : telPending[records[i].job] = -1

\* A new record, and the end of a history.
LEMMA AppendDistinct ==
    ASSUME NEW recs \in Seq(TelemetryRecord), NEW rec \in TelemetryRecord, Distinct(recs),
           \A i \in DOMAIN recs : recs[i].job # rec.job
    PROVE  /\ Distinct(Append(recs, rec)) /\ Append(recs, rec) \in Seq(TelemetryRecord)
           /\ \A i \in DOMAIN Append(recs, rec) :
                 \/ Append(recs, rec)[i] = rec
                 \/ i \in DOMAIN recs /\ Append(recs, rec)[i] = recs[i]
<1> DEFINE all == Append(recs, rec)
           n == Len(recs)
<1>1. n \in Nat /\ all \in Seq(TelemetryRecord) /\ DOMAIN all = 1 .. n + 1 /\ DOMAIN recs = 1 .. n
      /\ all[n + 1] = rec /\ \A i \in 1 .. n : all[i] = recs[i]
  OBVIOUS
<1>2. \A i \in 1 .. n + 1 : i \in 1 .. n \/ i = n + 1  BY <1>1
<1> HIDE DEF all, n
<1>3. \A i, k \in DOMAIN all : all[i].job = all[k].job => i = k
  BY <1>1, <1>2 DEF Distinct
<1>4. \A i \in DOMAIN all : all[i] = rec \/ (i \in DOMAIN recs /\ all[i] = recs[i])
  BY <1>1, <1>2
<1> QED BY <1>1, <1>3, <1>4 DEF Distinct, all

LEMMA TrimDistinct ==
    ASSUME NEW recs \in Seq(TelemetryRecord), Distinct(recs)
    PROVE  /\ Distinct(TrimTelemetry(recs))
           /\ \A i \in DOMAIN TrimTelemetry(recs) :
                 \E k \in DOMAIN recs : TrimTelemetry(recs)[i] = recs[k]
<1> DEFINE t == TrimTelemetry(recs)
<1>1. t \in Seq(TelemetryRecord)  BY TelemetryFacts
<1>2. PICK lo \in Nat : \A i \in DOMAIN t : lo + i \in DOMAIN recs /\ t[i] = recs[lo + i]
  BY TelemetryPart
<1>3. DOMAIN t \subseteq Nat
  <2> HIDE DEF t
  <2> QED BY <1>1
<1> HIDE DEF t
<1>4. \A i, k \in DOMAIN t : t[i].job = t[k].job => i = k
  <2> SUFFICES ASSUME NEW i \in DOMAIN t, NEW k \in DOMAIN t, t[i].job = t[k].job PROVE i = k
    OBVIOUS
  <2>1. lo + i = lo + k  BY <1>2 DEF Distinct
  <2> QED BY <1>3, <2>1
<1> QED BY <1>2, <1>4 DEF Distinct, t

\* Recording a search that was not recorded yet.
LEMMA Recorded ==
    ASSUME TypeOK, Telemetry, NEW j \in Jobs, NEW rec \in TelemetryRecord, rec.job = j,
           \A i \in DOMAIN records : records[i].job # j,
           records' = TrimTelemetry(Append(records, rec)),
           phase'[j] \in {"returned", "orphan"},
           \A k \in Jobs : phase'[k] \in {"returned", "orphan"} \/ phase'[k] = phase[k],
           telPending'[j] = -1,
           \A k \in Jobs : telPending[k] = -1 /\ k # j => telPending'[k] = -1
    PROVE  /\ History(records)' /\ \A i \in DOMAIN records' : telPending'[records'[i].job] = -1
<1> DEFINE all == Append(records, rec)
<1>1. records \in Seq(TelemetryRecord)  BY DEF TypeOK
<1>2. /\ Distinct(all) /\ all \in Seq(TelemetryRecord)
      /\ \A i \in DOMAIN all : all[i] = rec \/ (i \in DOMAIN records /\ all[i] = records[i])
  BY <1>1, AppendDistinct DEF Telemetry, History
<1> HIDE DEF all
<1>3. Distinct(records') /\ \A i \in DOMAIN records' : \E k \in DOMAIN all : records'[i] = all[k]
  BY <1>2, TrimDistinct DEF all
<1>4. \A i \in DOMAIN records' : records'[i] = rec \/ \E k \in DOMAIN records : records'[i] = records[k]
  BY <1>2, <1>3
<1>5. \A k \in DOMAIN records :
        /\ records[k].job \in Jobs /\ records[k].job # j
        /\ phase[records[k].job] \in {"returned", "orphan"} /\ telPending[records[k].job] = -1
  <2>1. \A k \in DOMAIN records : records[k] \in TelemetryRecord  BY <1>1
  <2>2. \A k \in DOMAIN records : records[k].job \in Jobs  BY <2>1 DEF TelemetryRecord
  <2> QED BY <2>2 DEF Telemetry, History
<1>6. \A i \in DOMAIN records' : phase'[records'[i].job] \in {"returned", "orphan"}
  BY <1>4, <1>5
<1>7. \A i \in DOMAIN records' : telPending'[records'[i].job] = -1
  BY <1>4, <1>5
<1>8. History(records)'  BY <1>3, <1>6 DEF History, Distinct
<1> QED BY <1>7, <1>8

\* Of the searches that the history waits for, a new one finds fewer than MaxJobs.
LEMMA RegisterFacts ==
    ASSUME TypeOK, Telemetry, NEW j \in Jobs
    PROVE  /\ IsFiniteSet(KeptPending) /\ Cardinality(KeptPending) <= MaxJobs - 1
           /\ KeptPending \subseteq Counting
<1> DEFINE live == {k \in Jobs : telPending[k] # -1 /\ clock - telPending[k] < TelemetryAge}
           newer == [k \in live |-> {i \in live : Older(telPending[k], k, telPending[i], i)}]
<1>1. live \in SUBSET Counting  BY DEF Counting
<1>2. IsFiniteSet(live)  BY <1>1, FS_Subset DEF Telemetry
<1>3. \A k \in live : k \in Nat /\ telPending[k] \in Nat
  BY JobsAssumption DEF TypeOK
<1>4. KeptPending = {k \in live : Cardinality(newer[k]) < MaxJobs - 1}
  BY DEF KeptPending
<1>5. newer \in [live -> SUBSET live]  OBVIOUS
<1> DEFINE T == {k \in live : Cardinality(newer[k]) < MaxJobs - 1}
<1>6. /\ \A x \in live : x \notin newer[x]
      /\ \A x, y \in live : x \in newer[y] => newer[x] \subseteq newer[y]
      /\ \A x, y \in live : x # y => x \in newer[y] \/ y \in newer[x]
  <2> HIDE DEF live
  <2> QED BY <1>3 DEF Older
<1>7. MaxJobs - 1 \in Nat  BY BoundsAssumption
<1>8. T \in SUBSET live /\ \A x \in T : Cardinality(newer[x]) < MaxJobs - 1  OBVIOUS
<1> HIDE DEF live, newer, T
<1>9. IsFiniteSet(T) /\ Cardinality(T) <= MaxJobs - 1
  BY <1>2, <1>5, <1>6, <1>7, <1>8, Ranked
<1> QED BY <1>1, <1>4, <1>8, <1>9 DEF T

\* Registering a search, of which no record exists.
LEMMA RegisterStep ==
    ASSUME TypeOK, Telemetry, NEW j \in Jobs, NEW t, t = RegisterPending(j)
    PROVE  /\ IsFiniteSet({k \in Jobs : t[k] # -1}) /\ Cardinality({k \in Jobs : t[k] # -1}) <= MaxJobs
           /\ \A k \in Jobs : t[k] # -1 => k = j \/ telPending[k] # -1
<1>1. /\ IsFiniteSet(KeptPending) /\ Cardinality(KeptPending) <= MaxJobs - 1
      /\ KeptPending \subseteq Counting
  BY RegisterFacts
<1>2. \A k \in Jobs : t[k] = IF k = j THEN clock ELSE IF k \in KeptPending THEN telPending[k] ELSE -1
  BY DEF RegisterPending
<1> DEFINE A == KeptPending \cup {j}
           S == {k \in Jobs : t[k] # -1}
<1>3. IsFiniteSet(A) /\ Cardinality(A) <= Cardinality(KeptPending) + 1
      /\ Cardinality(KeptPending) \in Nat /\ Cardinality(A) \in Nat
  <2>1. /\ IsFiniteSet(A)
        /\ Cardinality(A) = IF j \in KeptPending THEN Cardinality(KeptPending)
                            ELSE Cardinality(KeptPending) + 1
    BY <1>1, FS_AddElement
  <2>2. Cardinality(KeptPending) \in Nat /\ Cardinality(A) \in Nat
    BY <1>1, <2>1, FS_CardinalityType
  <2> HIDE DEF A
  <2> QED BY <2>1, <2>2
<1>4. S \in SUBSET A  BY <1>2
<1>5. IsFiniteSet(S) /\ Cardinality(S) <= Cardinality(A) /\ Cardinality(S) \in Nat
  BY <1>3, <1>4, FS_Subset, FS_CardinalityType
<1> HIDE DEF A, S
<1>6. Cardinality(S) <= MaxJobs  BY <1>1, <1>3, <1>5, BoundsAssumption
<1>7. \A k \in Jobs : t[k] # -1 => k = j \/ telPending[k] # -1
  BY <1>1, <1>2 DEF Counting
<1> QED BY <1>5, <1>6, <1>7 DEF S

LEMMA TelemetrySpawn ==
    ASSUME TypeOK, Telemetry, NEW j \in Jobs, NEW browser \in BOOLEAN, StartSpawn(j, browser)
    PROVE  Telemetry'
<1> DEFINE rec == [job |-> j, finished |-> clock, status |-> "complete", count |-> 0]
           t == RegisterPending(j)
<1>1. phase[j] = "starting"  BY DEF StartSpawn
<1>2. phase' = [phase EXCEPT ![j] = "returned"] \/ phase' = [phase EXCEPT ![j] = "orphan"]
  BY Zenon DEF StartSpawn
<1>3. /\ phase'[j] \in {"returned", "orphan"}
      /\ \A k \in Jobs \ {j} : phase'[k] = phase[k]
  BY <1>2 DEF TypeOK
<1>4. rec \in TelemetryRecord  BY DEF TypeOK, TelemetryRecord
<1>5. /\ IsFiniteSet({k \in Jobs : t[k] # -1}) /\ Cardinality({k \in Jobs : t[k] # -1}) <= MaxJobs
      /\ \A k \in Jobs : t[k] # -1 => k = j \/ telPending[k] # -1
  BY RegisterStep
<1>6. /\ records \in Seq(TelemetryRecord) /\ telDisk \in Seq(TelemetryRecord)
      /\ \A i \in DOMAIN records : records[i].job \in Jobs
      /\ \A i \in DOMAIN telDisk : telDisk[i].job \in Jobs
  <2>1. records \in Seq(TelemetryRecord) /\ telDisk \in Seq(TelemetryRecord)  BY DEF TypeOK
  <2>2. /\ \A i \in DOMAIN records : records[i] \in TelemetryRecord
        /\ \A i \in DOMAIN telDisk : telDisk[i] \in TelemetryRecord
    BY <2>1
  <2> QED BY <2>1, <2>2 DEF TelemetryRecord
<1>7. \A i \in DOMAIN records : records[i].job # j /\ phase'[records[i].job] \in {"returned", "orphan"}
  BY <1>1, <1>3, <1>6 DEF Telemetry, History
<1>8. \A i \in DOMAIN telDisk : phase'[telDisk[i].job] \in {"returned", "orphan"}
  BY <1>1, <1>3, <1>6 DEF Telemetry, History
<1>9. t \in [Jobs -> Nat \cup {-1}]  BY DEF RegisterPending, TypeOK
<1>10. CASE targets[j] # {}
  <2>1. telPending' = t /\ phase'[j] = "returned" /\ UNCHANGED <<records, telDisk>>
    BY <1>10 DEF StartSpawn, TypeOK
  <2>2. \A k \in Counting' : phase'[k] = "returned"
    BY <1>3, <1>5, <2>1 DEF Counting, Telemetry
  <2>3. History(records)' /\ History(telDisk)'
    BY <1>7, <1>8, <2>1 DEF Telemetry, History, Distinct
  <2>4. \A i \in DOMAIN records' : telPending'[records'[i].job] = -1
    BY <1>5, <1>6, <1>7, <2>1 DEF Telemetry
  <2>5. IsFiniteSet(Counting)' /\ Cardinality(Counting') <= MaxJobs
    BY <1>5, <2>1 DEF Counting
  <2> QED BY <2>2, <2>3, <2>4, <2>5 DEF Telemetry
<1>11. CASE targets[j] = {}
  <2>1. /\ telPending' = [t EXCEPT ![j] = -1]
        /\ records' = TrimTelemetry(Append(records, rec))
        /\ telDisk' = records' \/ telDisk' = telDisk
    BY <1>11, Zenon DEF StartSpawn
  <2>2. /\ telPending'[j] = -1 /\ \A k \in Jobs \ {j} : telPending'[k] = t[k]
    BY <1>9, <2>1
  <2>3. \A k \in Jobs : telPending[k] = -1 /\ k # j => telPending'[k] = -1
    BY <1>5, <2>2
  <2>4. /\ History(records)' /\ \A i \in DOMAIN records' : telPending'[records'[i].job] = -1
    <3>1. \A k \in Jobs : phase'[k] \in {"returned", "orphan"} \/ phase'[k] = phase[k]  BY <1>3
    <3>2. rec.job = j /\ \A i \in DOMAIN records : records[i].job # j  BY <1>7
    <3> HIDE DEF rec
    <3> QED BY <1>3, <1>4, <2>1, <2>2, <2>3, <3>1, <3>2, Recorded
  <2>5. History(telDisk)'
    BY <1>8, <2>1, <2>4 DEF Telemetry, History, Distinct
  <2>6. Counting' \in SUBSET {k \in Jobs : t[k] # -1}
    BY <2>2 DEF Counting
  <2>7. IsFiniteSet(Counting') /\ Cardinality(Counting') <= MaxJobs
    <3> DEFINE S == {k \in Jobs : t[k] # -1}
    <3>1. IsFiniteSet(S) /\ Cardinality(S) <= MaxJobs /\ Counting' \in SUBSET S  BY <1>5, <2>6
    <3> HIDE DEF S
    <3>2. /\ IsFiniteSet(Counting') /\ Cardinality(Counting') <= Cardinality(S)
          /\ Cardinality(Counting') \in Nat /\ Cardinality(S) \in Nat
      BY <3>1, FS_Subset, FS_CardinalityType
    <3> QED BY <3>1, <3>2, BoundsAssumption
  <2>8. \A k \in Counting' : phase'[k] = "returned"
    BY <1>3, <1>5, <2>2 DEF Counting, Telemetry
  <2> QED BY <2>4, <2>5, <2>7, <2>8 DEF Telemetry
<1> QED BY <1>10, <1>11

LEMMA TelemetryEnd ==
    ASSUME TypeOK, Telemetry, NEW j \in Jobs, NEW complete, NEW status \in {"complete", "partial", "failed"},
           NEW count \in Nat, CompleteTelemetry(j, complete, status, count), UNCHANGED phase
    PROVE  Telemetry'
<1> DEFINE rec == [job |-> j, finished |-> clock, status |-> status, count |-> count]
<1>1. CASE telPending[j] = -1 \/ ~complete
  <2>1. UNCHANGED <<telPending, records, telDisk>>  BY <1>1 DEF CompleteTelemetry
  <2> QED BY <2>1 DEF Telemetry, Counting, History, Distinct
<1>2. CASE ~(telPending[j] = -1 \/ ~complete)
  <2>1. /\ telPending' = [telPending EXCEPT ![j] = -1]
        /\ records' = TrimTelemetry(Append(records, rec))
        /\ telDisk' = records' \/ telDisk' = telDisk
    BY <1>2, Zenon DEF CompleteTelemetry
  <2>2. rec \in TelemetryRecord /\ rec.job = j  BY DEF TypeOK, TelemetryRecord
  <2>3. telPending'[j] = -1 /\ \A k \in Jobs \ {j} : telPending'[k] = telPending[k]
    BY <2>1 DEF TypeOK
  <2>4. phase[j] = "returned" /\ \A i \in DOMAIN records : records[i].job # j
    BY <1>2 DEF Telemetry, Counting
  <2>5. /\ History(records)' /\ \A i \in DOMAIN records' : telPending'[records'[i].job] = -1
    <3> HIDE DEF rec
    <3> QED BY <2>1, <2>2, <2>3, <2>4, Recorded
  <2>6. History(telDisk)'  BY <2>1, <2>5 DEF Telemetry, History, Distinct
  <2>7. Counting' \in SUBSET Counting  BY <2>3 DEF Counting
  <2>8. /\ IsFiniteSet(Counting') /\ Cardinality(Counting') <= Cardinality(Counting)
        /\ Cardinality(Counting') \in Nat /\ Cardinality(Counting) \in Nat
    BY <2>7, FS_Subset, FS_CardinalityType DEF Telemetry
  <2>9. Cardinality(Counting') <= MaxJobs  BY <2>8, BoundsAssumption DEF Telemetry
  <2>10. \A k \in Counting' : phase'[k] = "returned"  BY <2>7 DEF Telemetry
  <2> QED BY <2>5, <2>6, <2>8, <2>9, <2>10 DEF Telemetry
<1> QED BY <1>1, <1>2

\* Every other step leaves the history alone, or starts from the one on disk.
LEMMA TelemetryStep == ASSUME TypeOK, Telemetry, [Next]_vars PROVE Telemetry'
<1>1. ASSUME UNCHANGED <<telPending, records, telDisk>>,
             \A k \in Jobs : phase[k] \in {"returned", "orphan"} => phase'[k] = phase[k]
      PROVE  Telemetry'
  <2>1. records \in Seq(TelemetryRecord) /\ telDisk \in Seq(TelemetryRecord)  BY DEF TypeOK
  <2>2. /\ \A i \in DOMAIN records : records[i] \in TelemetryRecord
        /\ \A i \in DOMAIN telDisk : telDisk[i] \in TelemetryRecord
    BY <2>1
  <2>3. /\ \A i \in DOMAIN records : phase'[records[i].job] \in {"returned", "orphan"}
        /\ \A i \in DOMAIN telDisk : phase'[telDisk[i].job] \in {"returned", "orphan"}
    BY <1>1, <2>2 DEF Telemetry, History, TelemetryRecord
  <2>4. Counting' = Counting /\ \A k \in Counting : phase'[k] = "returned"
    BY <1>1 DEF Telemetry, Counting
  <2> QED BY <1>1, <2>3, <2>4 DEF Telemetry, History, Distinct
<1>2. CASE \E j \in Jobs : JobNext(j)
  <2>1. PICK j \in Jobs : JobNext(j)  BY <1>2
  <2>2. CASE \E hs \in SUBSET Hosts : StartInsert(j, hs)
    <3>1. phase[j] = "unused" /\ UNCHANGED <<telPending, records, telDisk>>
      BY <2>2 DEF StartInsert
    <3>2. phase' = [phase EXCEPT ![j] = "starting"] \/ phase' = [phase EXCEPT ![j] = "orphan"]
      BY <2>2, Zenon DEF StartInsert
    <3>3. \A k \in Jobs : phase[k] \in {"returned", "orphan"} => phase'[k] = phase[k]
      BY <3>1, <3>2 DEF TypeOK
    <3> QED BY <1>1, <3>1, <3>3
  <2>3. CASE \E browser \in BOOLEAN : StartSpawn(j, browser)  BY <2>3, TelemetrySpawn
  <2>4. CASE \E h \in Hosts : HubAdmitted(j, h)
    <3>1. UNCHANGED <<telPending, records, telDisk, phase>>  BY <2>4 DEF HubAdmitted
    <3> QED BY <1>1, <3>1
  <2>5. ASSUME NEW h \in Hosts, NEW os, \A o \in os : o \in SearchJob, TaskEnd(j, h, os)
        PROVE  Telemetry'
    <3>1. PICK o \in os : \E r \in Persist(j, o, disk) :
             LET job == IF r.ok THEN r.job ELSE DurabilityFailure(r.job)
             IN  CompleteTelemetry(j, job.pending = {}, TelemetryStatus(job), Len(job.results))
      BY <2>5, Zenon DEF TaskEnd
    <3>2. PICK r \in Persist(j, o, disk) :
             LET job == IF r.ok THEN r.job ELSE DurabilityFailure(r.job)
             IN  CompleteTelemetry(j, job.pending = {}, TelemetryStatus(job), Len(job.results))
      BY <3>1, Zenon
    <3> DEFINE job == IF r.ok THEN r.job ELSE DurabilityFailure(r.job)
               complete == job.pending = {}
               status == TelemetryStatus(job)
               count == Len(job.results)
    <3>3. disk \in Stored /\ o \in SearchJob  BY <2>5 DEF TypeOK, Stored
    <3>4. r.job \in SearchJob  BY <3>3, PersistFacts
    <3>5. job \in SearchJob  BY <3>4, DurabilityFacts
    <3>6. status \in {"complete", "partial", "failed"}  BY DEF TelemetryStatus
    <3>7. CompleteTelemetry(j, complete, status, count)  BY <3>2
    <3>8. UNCHANGED phase  BY <2>5 DEF TaskEnd
    <3> HIDE DEF job
    <3>9. count \in Nat  BY <3>5 DEF SearchJob
    <3> HIDE DEF complete, status, count
    <3> QED BY <3>6, <3>7, <3>8, <3>9, TelemetryEnd
  <2>6. CASE \E h \in Hosts : TaskStep(j, h)
    <3>1. PICK h \in Hosts : TaskStep(j, h)  BY <2>6
    <3>2. CASE TaskAnswered(j, h)
      <4> DEFINE taken == [jobs[j] EXCEPT !.pending = @ \ {h}]
      <4>1. jobs[j] # Absent  BY <3>2 DEF TaskAnswered
      <4>2. PICK a \in Answers[h] : TaskEnd(j, h, MergeResult(taken, h, a))
        BY <3>2 DEF TaskAnswered
      <4>3. taken \in SearchJob
        <5>1. jobs[j] \in SearchJob  BY <4>1 DEF TypeOK
        <5> QED BY <5>1 DEF SearchJob
      <4> HIDE DEF taken
      <4>4. \A o \in MergeResult(taken, h, a) : o \in SearchJob  BY <4>3, MergeFacts
      <4> DEFINE os == MergeResult(taken, h, a)
      <4>5. TaskEnd(j, h, os) /\ \A o \in os : o \in SearchJob  BY <4>2, <4>4
      <4> HIDE DEF os
      <4> QED BY <2>5, <4>5
    <3>3. CASE TaskFailed(j, h)
      <4> DEFINE os == {JobAfterError(jobs[j], h)}
      <4>1. jobs[j] # Absent /\ TaskEnd(j, h, os)  BY <3>3 DEF TaskFailed
      <4>2. \A o \in os : o \in SearchJob
        <5> DEFINE failed == JobAfterError(jobs[j], h)
        <5>1. jobs[j] \in SearchJob  BY <4>1 DEF TypeOK
        <5>2. failed \in SearchJob  BY <5>1 DEF SearchJob, JobAfterError, HostStates
        <5> QED BY <5>2
      <4> HIDE DEF os
      <4> QED BY <2>5, <4>1, <4>2
    <3>4. CASE TaskOrphaned(j, h)
      <4>1. UNCHANGED <<telPending, records, telDisk, phase>>  BY <3>4 DEF TaskOrphaned
      <4> QED BY <1>1, <4>1
    <3> QED BY <3>1, <3>2, <3>3, <3>4 DEF TaskStep
  <2>7. CASE (\E n \in 1..PageMax : FollowerPoll(j, n) \/ OtherPoll(j, n)) \/ Snapshot(j)
    <3>1. UNCHANGED <<telPending, records, telDisk, phase>>
      <4>1. Replied(j)  BY <2>7, PollShape
      <4>2. PICK start \in Nat, n \in Nat, all \in BOOLEAN, followed \in BOOLEAN :
               Reply(j, start, n, all, followed)
        BY <4>1, Zenon DEF Replied
      <4> QED BY <4>2 DEF Reply
    <3> QED BY <1>1, <3>1
  <2>8. CASE FollowerBadCursor(j) \/ PollExpired(j)
    <3>1. UNCHANGED <<telPending, records, telDisk, phase>>
      BY <2>8 DEF FollowerBadCursor, PollExpired
    <3> QED BY <1>1, <3>1
  <2> QED BY <2>1, <2>2, <2>3, <2>4, <2>6, <2>7, <2>8 DEF JobNext
<1>3. CASE Restart
  <2>1. /\ telPending' = [k \in Jobs |-> -1] /\ UNCHANGED telDisk
        /\ phase' = [k \in Jobs |-> IF phase[k] = "starting" THEN "orphan" ELSE phase[k]]
    BY <1>3 DEF Restart
  <2>2. records' = TrimTelemetry(telDisk) \/ records' = <<>>  BY <1>3, Zenon DEF Restart
  <2>3. Counting' = {}  BY <2>1 DEF Counting
  <2>4. IsFiniteSet(Counting') /\ Cardinality(Counting') <= MaxJobs
    BY <2>3, FS_EmptySet, BoundsAssumption
  <2>5. telDisk \in Seq(TelemetryRecord)  BY DEF TypeOK
  <2>6. \A i \in DOMAIN telDisk :
           telDisk[i].job \in Jobs /\ phase[telDisk[i].job] \in {"returned", "orphan"}
    <3>1. \A i \in DOMAIN telDisk : telDisk[i] \in TelemetryRecord  BY <2>5
    <3> QED BY <3>1 DEF TelemetryRecord, Telemetry, History
  <2>7. \A i \in DOMAIN telDisk : phase'[telDisk[i].job] \in {"returned", "orphan"}
    BY <2>1, <2>6
  <2>8. /\ Distinct(records') /\ \A i \in DOMAIN records' : \E k \in DOMAIN telDisk : records'[i] = telDisk[k]
    <3>1. CASE records' = <<>>  BY <3>1 DEF Distinct
    <3>2. CASE records' = TrimTelemetry(telDisk)
      BY <2>5, <3>2, TrimDistinct DEF Telemetry, History
    <3> QED BY <2>2, <3>1, <3>2
  <2>9. \A i \in DOMAIN records' :
           phase'[records'[i].job] \in {"returned", "orphan"} /\ telPending'[records'[i].job] = -1
    BY <2>1, <2>6, <2>7, <2>8
  <2>10. History(records)' /\ History(telDisk)'
    BY <2>1, <2>7, <2>8, <2>9 DEF Telemetry, History, Distinct
  <2> QED BY <2>3, <2>4, <2>9, <2>10 DEF Telemetry
<1>4. CASE IsVerbose \/ PruneFails \/ Tick \/ UNCHANGED vars
  <2>1. UNCHANGED <<telPending, records, telDisk, phase>>
    BY <1>4 DEF IsVerbose, PruneFails, Tick, vars
  <2> QED BY <1>1, <2>1
<1> QED BY <1>2, <1>3, <1>4 DEF Next

\* A search is recorded at most once and never while it is still pending, across restarts,
\* failing writes and evictions, and the pending table stays within MaxJobs
\* (start_internal, complete_telemetry, trim_telemetry).
THEOREM TelemetrySoundHolds == Spec => []TelemetrySound
<1>1. Init => Telemetry
  <2> SUFFICES ASSUME Init PROVE Telemetry  OBVIOUS
  <2>1. Counting = {} /\ records = <<>> /\ telDisk = <<>>  BY DEF Init, Counting
  <2>2. IsFiniteSet(Counting) /\ Cardinality(Counting) <= MaxJobs
    BY <2>1, FS_EmptySet, BoundsAssumption
  <2> QED BY <2>1, <2>2 DEF Telemetry, History, Distinct
<1>2. TypeOK /\ Telemetry /\ [Next]_vars => Telemetry'  BY TelemetryStep
<1>3. Telemetry => TelemetrySound
  BY DEF Telemetry, Counting, History, Distinct, TelemetrySound
<1> QED BY <1>1, <1>2, <1>3, TypeCorrect, PTL DEF Spec

-----------------------------------------------------------------------------
(* What a client that follows the cursors has received. *)

\* No artifact needs trimming: there is room for every result, cursor, status and hub
\* id of a search, and for one error.
RoomEnough == Limit + MaxCursors + 2 * Cardinality(Hosts) + 1 <= MaxBytes

\* What a job is held against: the cursors handed out for it, the client that follows
\* them, its tasks, and how far its start got.
View(j) ==
    [issued |-> issued[j], client |-> follower[j], tasks |-> tasks[j], phase |-> phase[j],
     targets |-> targets[j]]

Told(v) == v.client.state \in {"following", "done"}
Broken(x) == x.lost \/ x.durErr

\* A job has few cursors, all of them handed out.
Narrow(x, v) == Cardinality(CursorSet(x)) <= MaxCursors /\ CursorSet(x) \subseteq v.issued

\* The client has the first results, and its cursor is where it has come to, or gone.
Agrees(x, v) ==
    /\ Told(v) => IsPrefix(v.client.got, x.results)
    /\ v.client.state = "following" =>
          IF v.client.cursor = NoOffset THEN v.client.got = <<>>
          ELSE x.cursors[v.client.cursor] \in {NoOffset, Len(v.client.got)}

\* Whoever still works on a sound job is expected to answer.
Attended(x, v) ==
    /\ \A h \in Hosts : v.tasks[h] # "idle" => h \in x.pending \/ Broken(x)
    /\ v.phase = "starting" => v.targets \subseteq x.pending

\* A client that was told that there is no more has everything.
Final(x, v) ==
    v.client.state = "done" => Broken(x) \/ (x.pending = {} /\ v.client.got = x.results)

Held(x, v) == Narrow(x, v) /\ Agrees(x, v) /\ Attended(x, v) /\ Final(x, v)

\* A client polls only with a cursor it was given, and before a search is started there
\* is neither a poll nor a task.
Waiting(v) ==
    /\ v.client.cursor \in v.issued \cup {NoOffset}
    /\ v.phase = "unused" /\ Told(v) =>
          v.client.state = "following" /\ v.client.got = <<>> /\ v.client.cursor = NoOffset
    /\ v.phase \in {"unused", "starting"} => \A h \in Hosts : v.tasks[h] = "idle"

Served(j) ==
    /\ Waiting(View(j))
    /\ jobs[j] # Absent => Held(jobs[j], View(j))
    /\ disk[j] # Absent => Held(disk[j], View(j))
Delivery == \A j \in Jobs : Served(j)

\* Nothing of a job is trimmed.
LEMMA WholeFits ==
    ASSUME RoomEnough, NEW x \in SearchJob, Cardinality(CursorSet(x)) <= MaxCursors,
           Len(x.results) <= Limit
    PROVE  Trim(x) = x
<1> DEFINE H == Cardinality(Hosts)
           S == {h \in Hosts : x.status[h] # "none"}
<1>1. H \in Nat /\ Cardinality(CursorSet(x)) \in Nat /\ Len(x.results) \in Nat
  <2>1. CursorSet(x) \subseteq Handles  BY DEF CursorSet
  <2>2. x.results \in Seq(Keys)  BY DEF SearchJob
  <2> QED BY <2>1, <2>2, FiniteAssumption, FS_Subset, FS_CardinalityType
<1>2. Cardinality(S) \in Nat /\ Cardinality(S) <= H
  <2>1. S \subseteq Hosts  OBVIOUS
  <2> QED BY <2>1, FiniteAssumption, FS_Subset, FS_CardinalityType
<1>3. Cardinality(x.hub) \in Nat /\ Cardinality(x.hub) <= H
  <2>1. x.hub \subseteq Hosts  BY DEF SearchJob
  <2> QED BY <2>1, FiniteAssumption, FS_Subset, FS_CardinalityType
<1>4. Overhead(x) = Cardinality(CursorSet(x)) + Cardinality(S) + Cardinality(x.hub)
                    + (IF x.durErr THEN 1 ELSE 0)
  BY DEF Overhead
<1>5. Limit + MaxCursors + 2 * H + 1 <= MaxBytes  BY DEF RoomEnough
<1> HIDE DEF H, S
<1>6. Overhead(x) + Len(x.results) <= MaxBytes /\ Overhead(x) \in Nat
  BY <1>1, <1>2, <1>3, <1>4, <1>5, BoundsAssumption, SMTT(30)
<1>7. Overhead(x) <= MaxBytes /\ Len(x.results) <= MaxBytes - Overhead(x)
  BY <1>1, <1>6, BoundsAssumption
<1> QED BY <1>7 DEF Trim

\* A cursor is added in the place of another once there are too many.
LEMMA AddCursorNarrow ==
    ASSUME NEW b \in SearchJob, NEW c \in Handles, NEW end \in Nat
    PROVE  /\ Cardinality(CursorSet(AddCursor(b, c, end))) <= MaxCursors
           /\ CursorSet(AddCursor(b, c, end)) \subseteq CursorSet(b) \cup {c}
<1> DEFINE all == CursorSet(b) \cup {c}
           above == [k \in all |-> {n \in all : n > k}]
           kept == {k \in all : Cardinality(above[k]) < MaxCursors}
           x == AddCursor(b, c, end)
<1>1. all \in SUBSET Handles  BY DEF CursorSet
<1>2. IsFiniteSet(all) /\ \A k \in all : k \in Nat
  BY <1>1, FiniteAssumption, FS_Subset
<1>3. CursorSet(x) \subseteq kept
  <2> DEFINE cs == [k \in Handles |-> IF k \notin {k2 \in all : Cardinality({n \in all : n > k2}) < MaxCursors}
                                      THEN NoOffset ELSE IF k = c THEN end ELSE b.cursors[k]]
  <2>1. x = [b EXCEPT !.cursors = cs]  BY Zenon DEF AddCursor
  <2>2. x.cursors = cs
    <3> HIDE DEF cs, x
    <3> QED BY <2>1 DEF SearchJob
  <2> HIDE DEF x, all
  <2> QED BY <2>2 DEF CursorSet
<1> HIDE DEF x
<1>4. /\ above \in [all -> SUBSET all]
      /\ \A k \in all : k \notin above[k]
      /\ \A k, n \in all : k \in above[n] => above[k] \subseteq above[n]
      /\ \A k, n \in all : k # n => k \in above[n] \/ n \in above[k]
  <2> HIDE DEF all
  <2> QED BY <1>2
<1>5. kept \in SUBSET all /\ \A k \in kept : Cardinality(above[k]) < MaxCursors  OBVIOUS
<1> HIDE DEF above, kept
<1>6. IsFiniteSet(kept) /\ Cardinality(kept) <= MaxCursors
  <2> HIDE DEF all
  <2> QED BY <1>2, <1>4, <1>5, BoundsAssumption, Ranked
<1>7. Cardinality(CursorSet(x)) <= Cardinality(kept) /\ Cardinality(CursorSet(x)) \in Nat
      /\ Cardinality(kept) \in Nat
  BY <1>3, <1>6, FS_Subset, FS_CardinalityType
<1>8. Cardinality(CursorSet(x)) <= MaxCursors  BY <1>6, <1>7, BoundsAssumption
<1> QED BY <1>3, <1>5, <1>8 DEF x

\* The job as it comes back from its artifact, and as a failed write leaves it, is held
\* to no more than before.
LEMMA HeldRevived ==
    ASSUME NEW a \in SearchJob, NEW v, Held(a, v), v.phase # "starting"
    PROVE  Held(Revived(a), v)
<1>1. /\ Revived(a).results = a.results /\ Revived(a).cursors = a.cursors
      /\ Revived(a).durErr = a.durErr /\ Revived(a).pending = {}
      /\ a.pending = {} => Revived(a).lost = a.lost
  BY RevivedFacts
<1>2. a.pending # {} => Revived(a).lost
  <2> DEFINE r == IntoJob(a)
             st == [h \in Hosts |-> IF h \in r.pending THEN "failed" ELSE r.status[h]]
  <2>1. r \in SearchJob /\ r.pending = a.pending  BY IntoJobFacts
  <2>2. r.pending # {} => Revived(a) = [r EXCEPT !.lost = TRUE, !.pending = {}, !.status = st]
    BY DEF Revived
  <2> HIDE DEF r, st
  <2> QED BY <2>1, <2>2 DEF SearchJob
<1> DEFINE x == Revived(a)
<1>3. CursorSet(x) = CursorSet(a)  BY <1>1 DEF CursorSet
<1> HIDE DEF x
<1> QED BY <1>1, <1>2, <1>3 DEF Held, Narrow, Agrees, Attended, Final, Broken, Told, x

LEMMA HeldFailed ==
    ASSUME NEW x \in SearchJob, NEW v, Held(x, v), v.phase # "starting"
    PROVE  Held(DurabilityFailure(x), v)
<1> DEFINE y == DurabilityFailure(x)
<1>1. y.results = x.results /\ y.cursors = x.cursors /\ y.durErr
  BY DEF DurabilityFailure, SearchJob
<1>2. CursorSet(y) = CursorSet(x)  BY <1>1 DEF CursorSet
<1> HIDE DEF y
<1> QED BY <1>1, <1>2 DEF Held, Narrow, Agrees, Attended, Final, Broken, Told, y

LEMMA HeldWritten ==
    ASSUME NEW x \in SearchJob, NEW v, Held(x, v)
    PROVE  Held(FromJob(x), v)
<1> DEFINE y == FromJob(x)
<1>1. /\ y.results = x.results /\ y.cursors = x.cursors /\ y.durErr = x.durErr
      /\ y.lost = x.lost /\ y.pending = x.pending
  BY DEF FromJob, SearchJob
<1>2. CursorSet(y) = CursorSet(x)  BY <1>1 DEF CursorSet
<1> HIDE DEF y
<1> QED BY <1>1, <1>2 DEF Held, Narrow, Agrees, Attended, Final, Broken, Told, y

\* Nobody new works on the job and its client has heard nothing more.
Calm(v, w) ==
    /\ w.issued = v.issued /\ w.targets = v.targets
    /\ w.client = v.client \/ (w.client.state = "broken" /\ w.client.cursor = v.client.cursor)
    /\ \A h \in Hosts : w.tasks[h] # "idle" => v.tasks[h] # "idle"
    /\ w.phase = v.phase \/ w.phase = "orphan"

LEMMA CalmKeeps ==
    ASSUME NEW v, NEW w, Calm(v, w)
    PROVE  /\ Waiting(v) => Waiting(w)
           /\ \A x : Held(x, v) => Held(x, w)
<1>1. Waiting(v) => Waiting(w)  BY DEF Calm, Waiting, Told
<1>2. ASSUME NEW x, Held(x, v) PROVE Held(x, w)
  <2>1. Narrow(x, w)  BY <1>2 DEF Held, Narrow, Calm
  <2>2. Agrees(x, w)  BY <1>2 DEF Held, Agrees, Calm, Told
  <2>3. Attended(x, w)  BY <1>2 DEF Held, Attended, Calm
  <2>4. Final(x, w)  BY <1>2 DEF Held, Final, Calm
  <2> QED BY <2>1, <2>2, <2>3, <2>4 DEF Held
<1> QED BY <1>1, <1>2

\* Beginnings of sequences.
LEMMA PrefixFacts ==
    ASSUME NEW s \in Seq(Keys), NEW t \in Seq(Keys)
    PROVE  /\ IsPrefix(s, t) =>
                 Len(s) <= Len(t) /\ s = SubSeq(t, 1, Len(s))
           /\ IsPrefix(<<>>, t) /\ IsPrefix(t, t)
           /\ IsPrefix(s, t) /\ Len(s) = Len(t) => s = t
<1>1. SubSeq(s, 1, Len(s)) = s /\ SubSeq(t, 1, Len(t)) = t  OBVIOUS
<1>2. IsPrefix(s, t) => Len(s) <= Len(t) /\ s = SubSeq(t, 1, Len(s))  BY <1>1 DEF IsPrefix
<1>3. IsPrefix(<<>>, t)
  <2>1. Len(<<>>) = 0 /\ Len(<<>>) <= Len(t)  OBVIOUS
  <2>2. SubSeq(<<>>, 1, 0) = <<>> /\ SubSeq(t, 1, 0) = <<>>  OBVIOUS
  <2> QED BY <2>1, <2>2 DEF IsPrefix
<1>4. IsPrefix(t, t)  BY DEF IsPrefix
<1> QED BY <1>1, <1>2, <1>3, <1>4

LEMMA PrefixLonger ==
    ASSUME NEW s \in Seq(Keys), NEW t \in Seq(Keys), NEW u \in Seq(Keys), IsPrefix(s, t)
    PROVE  IsPrefix(s, t \o u)
<1>1. Len(s) <= Len(t) /\ s = SubSeq(t, 1, Len(s))  BY PrefixFacts
<1>2. t \o u \in Seq(Keys) /\ Len(t \o u) = Len(t) + Len(u)  OBVIOUS
<1> DEFINE a == SubSeq(t \o u, 1, Len(s))
<1>3. Len(a) = Len(s) /\ a \in Seq(Keys)  BY <1>1, <1>2
<1>4. \A i \in 1 .. Len(s) : a[i] = s[i]  BY <1>1, <1>2
<1>5. a = s
  <2> HIDE DEF a
  <2> QED BY <1>3, <1>4, SMTT(30)
<1>6. SubSeq(s, 1, Len(s)) = s  OBVIOUS
<1>7. Len(s) <= Len(t \o u)  BY <1>1, <1>2
<1> HIDE DEF a
<1> QED BY <1>5, <1>6, <1>7 DEF IsPrefix, a

\* The page after a beginning makes a longer beginning.
LEMMA PrefixPage ==
    ASSUME NEW s \in Seq(Keys), NEW t \in Seq(Keys), IsPrefix(s, t),
           NEW end \in Nat, Len(s) <= end, end <= Len(t)
    PROVE  /\ s \o SubSeq(t, Len(s) + 1, end) \in Seq(Keys)
           /\ IsPrefix(s \o SubSeq(t, Len(s) + 1, end), t)
           /\ Len(s \o SubSeq(t, Len(s) + 1, end)) = end
<1> DEFINE n == Len(s)
           page == SubSeq(t, n + 1, end)
           a == s \o page
           b == SubSeq(t, 1, end)
<1>1. n \in Nat /\ n <= Len(t) /\ s = SubSeq(t, 1, n)  BY PrefixFacts
<1>2. page \in Seq(Keys) /\ Len(page) = end - n
      /\ \A i \in 1 .. (end - n) : page[i] = t[n + i]
  <2>1. page \in Seq(Keys)  BY <1>1
  <2>2. Len(page) = end - n
    <3> HIDE DEF n
    <3> QED BY <1>1
  <2>3. \A i \in 1 .. (end - n) : page[i] = t[n + i]
    <3> HIDE DEF n
    <3> QED BY <1>1
  <2> QED BY <2>1, <2>2, <2>3
<1>3. a \in Seq(Keys) /\ Len(a) = end
  <2> HIDE DEF page
  <2> QED BY <1>1, <1>2
<1>4. \A i \in 1 .. end : a[i] = t[i]
  <2> SUFFICES ASSUME NEW i \in 1 .. end PROVE a[i] = t[i]  OBVIOUS
  <2>1. CASE i <= n
    <3>1. a[i] = s[i]
      <4> HIDE DEF page
      <4> QED BY <1>1, <1>2, <2>1
    <3>2. s[i] = t[i]  BY <1>1, <2>1
    <3> QED BY <3>1, <3>2
  <2>2. CASE i > n
    <3>1. i - n \in 1 .. (end - n) /\ n + (i - n) = i  BY <1>1, <2>2
    <3>2. a[i] = page[i - n]
      <4> HIDE DEF page
      <4> QED BY <1>1, <1>2, <2>2, <3>1
    <3>3. page[i - n] = t[i]
      <4> HIDE DEF page
      <4> QED BY <1>2, <3>1
    <3> QED BY <3>2, <3>3
  <2> QED BY <1>1, <2>1, <2>2
<1>5. b \in Seq(Keys) /\ Len(b) = end /\ \A i \in 1 .. end : b[i] = t[i]  OBVIOUS
<1> HIDE DEF a, b
<1>6. a = b  BY <1>3, <1>4, <1>5
<1>7. SubSeq(a, 1, end) = a  BY <1>3
<1> QED BY <1>3, <1>6, <1>7 DEF IsPrefix, a, b, page

\* A job that is left alone, or removed, keeps what it was held to.
LEMMA CalmServed ==
    ASSUME NEW k \in Jobs, Served(k), Calm(View(k), View(k)'),
           jobs'[k] \in {jobs[k], Absent}, disk'[k] \in {disk[k], Absent}
    PROVE  Served(k)'
<1>1. /\ Waiting(View(k)) => Waiting(View(k)')
      /\ \A x : Held(x, View(k)) => Held(x, View(k)')
  BY CalmKeeps
<1>2. Waiting(View(k)')  BY <1>1 DEF Served
<1>3. jobs'[k] # Absent => Held(jobs'[k], View(k)')  BY <1>1 DEF Served
<1>4. disk'[k] # Absent => Held(disk'[k], View(k)')  BY <1>1 DEF Served
<1> QED BY <1>2, <1>3, <1>4 DEF Served

\* What a task makes of its job: nothing but new results behind those that are there,
\* and nobody taken off the pending set but the task's own host.
LEMMA WorkServed ==
    ASSUME RoomEnough, TypeOK, Contents, NEW j \in Jobs, Served(j), NEW h \in Hosts,
           tasks[j][h] # "idle", jobs[j] # Absent,
           NEW x, Written(j, x), JobSound(x),
           x.cursors = jobs[j].cursors, x.lost = jobs[j].lost, x.durErr = jobs[j].durErr,
           NEW s \in Seq(Keys), x.results = jobs[j].results \o s,
           \A g \in Hosts : g \in jobs[j].pending /\ View(j)'.tasks[g] # "idle" => g \in x.pending,
           Calm(View(j), View(j)'), View(j)'.phase = phase[j]
    PROVE  Served(j)'
<1> DEFINE b == jobs[j]
           v == View(j)
           w == View(j)'
<1>1. b \in SearchJob /\ x \in SearchJob  BY DEF TypeOK, Written
<1>2. /\ Waiting(w) /\ Held(b, w)
      /\ disk[j] # Absent => Held(disk[j], w)
  <2>1. /\ Waiting(v) => Waiting(w)
        /\ \A y : Held(y, v) => Held(y, w)
    BY CalmKeeps
  <2> QED BY <2>1 DEF Served
<1>3. w.phase \notin {"unused", "starting"}
  <2>1. v.tasks[h] # "idle" /\ v.phase = phase[j]  BY DEF View
  <2> QED BY <2>1 DEF Served, Waiting
<1>4. h \in b.pending \/ Broken(b)
  <2>1. v.tasks[h] # "idle"  BY DEF View
  <2> QED BY <2>1 DEF Served, Held, Attended
<1>5. w.client = v.client \/ w.client.state = "broken"  BY DEF Calm
<1>6. v.client.got \in Seq(Keys)  BY DEF View, TypeOK, Follower
<1>7. w.client.state = "done" => Broken(b)
  BY <1>2, <1>4, <1>5 DEF Served, Held, Final
<1> HIDE DEF v, w
<1>8. b.results \in Seq(Keys)  BY <1>1 DEF SearchJob
<1>9. Held(x, w)
  <2>1. CursorSet(x) = CursorSet(b)  BY DEF CursorSet
  <2>2. Narrow(x, w)  BY <1>2, <2>1 DEF Held, Narrow
  <2>3. Agrees(x, w)
    <3>1. Told(w) => IsPrefix(w.client.got, b.results) /\ w.client.got = v.client.got
      BY <1>2, <1>5 DEF Held, Agrees, Told
    <3>2. Told(w) => IsPrefix(w.client.got, x.results)
      BY <1>6, <1>8, <3>1, PrefixLonger
    <3> QED BY <1>2, <3>2 DEF Held, Agrees
  <2>4. Attended(x, w)
    BY <1>2, <1>3 DEF Held, Attended, Broken, w
  <2>5. Final(x, w)  BY <1>7 DEF Final, Broken
  <2> QED BY <2>2, <2>3, <2>4, <2>5 DEF Held
<1>10. Trim(x) = x
  <2>1. Cardinality(CursorSet(x)) <= MaxCursors /\ Len(x.results) <= Limit
    BY <1>9 DEF Held, Narrow, JobSound
  <2> QED BY <1>1, <2>1, WholeFits
<1>11. Held(DurabilityFailure(x), w) /\ Held(FromJob(x), w)
  BY <1>1, <1>3, <1>9, HeldFailed, HeldWritten
<1>12. jobs'[j] \in {x, DurabilityFailure(x)} /\ disk'[j] \in {disk[j], Absent, FromJob(x)}
  BY <1>10 DEF Written
<1>13. jobs'[j] # Absent => Held(jobs'[j], w)  BY <1>9, <1>11, <1>12
<1>14. disk'[j] # Absent => Held(disk'[j], w)  BY <1>2, <1>11, <1>12
<1> QED BY <1>2, <1>13, <1>14 DEF Served, w

\* A reload, of a job that its start has left behind.
LEMMA ReloadServed ==
    ASSUME TypeOK, NEW j \in Jobs, Served(j), Reloaded(j), Calm(View(j), View(j)'),
           View(j)'.phase # "starting"
    PROVE  Served(j)'
<1> DEFINE v == View(j)
           w == View(j)'
           a == disk[j]
<1>1. a \in SearchJob /\ a # Absent  BY DEF TypeOK, Reloaded
<1>2. /\ Waiting(w) /\ Held(a, w)
  <2>1. /\ Waiting(v) => Waiting(w)
        /\ \A y : Held(y, v) => Held(y, w)
    BY CalmKeeps
  <2> QED BY <1>1, <2>1 DEF Served
<1>3. w.phase # "starting"  OBVIOUS
<1> HIDE DEF v, w
<1>4. Held(Revived(a), w)  BY <1>1, <1>2, <1>3, HeldRevived
<1>5. jobs'[j] = Revived(a) /\ disk'[j] \in {a, Absent}  BY DEF Reloaded
<1> QED BY <1>2, <1>4, <1>5 DEF Served, w

\* A search is started for nobody yet: no cursor, no result, no task.
LEMMA InsertServed ==
    ASSUME RoomEnough, TypeOK, FreshIds, NEW j \in Jobs, Served(j),
           NEW hs \in SUBSET Hosts, StartInsert(j, hs)
    PROVE  Served(j)' /\ Removed(Jobs \ {j})
<1> USE DEF Stored
<1>1. jobs \in Stored /\ disk \in Stored  BY DEF TypeOK
<1> DEFINE p == Prune(jobs, disk)
           x == NewJob(hs)
           w == View(j)'
<1>2. /\ p.mem \in Stored /\ p.disk \in Stored
      /\ \A k \in Jobs : p.mem[k] \in {jobs[k], Absent} /\ p.disk[k] \in {disk[k], Absent}
  BY <1>1, PruneFacts
<1>3. PICK r \in Persist(j, x, p.disk) :
         /\ jobs' = [p.mem EXCEPT ![j] = r.job]
         /\ disk' = r.disk
         /\ phase' = [phase EXCEPT ![j] = IF r.ok THEN "starting" ELSE "orphan"]
  BY Zenon DEF StartInsert
<1>4. /\ phase[j] = "unused" /\ disk[j] = Absent
      /\ issued' = issued /\ follower' = follower /\ tasks' = tasks
      /\ targets' = [targets EXCEPT ![j] = hs]
  BY DEF StartInsert, FreshIds
<1>5. /\ phase'[j] \in {"starting", "orphan"} /\ targets'[j] = hs
  BY <1>3, <1>4 DEF TypeOK
<1>6. /\ x \in SearchJob /\ x.pending = hs /\ x.results = <<>> /\ ~x.lost /\ ~x.durErr
      /\ CursorSet(x) = {}
  BY DEF NewJob, SearchJob, TypeOK, CursorSet
<1> HIDE DEF p, x
<1>7. /\ r.job = Trim(x)
      /\ \A k \in Jobs \ {j} : r.disk[k] \in {p.disk[k], Absent}
      /\ r.disk[j] \in {p.disk[j], Absent, FromJob(Trim(x))}
  BY <1>2, <1>6, PersistWrites
<1>8. Trim(x) = x
  <2>1. Cardinality(CursorSet(x)) <= MaxCursors  BY <1>6, FS_EmptySet, BoundsAssumption
  <2>2. Len(x.results) <= Limit  BY <1>6, BoundsAssumption
  <2> QED BY <1>6, <2>1, <2>2, WholeFits
<1>9. /\ w.phase \in {"starting", "orphan"} /\ w.targets = hs
      /\ w.client = follower[j] /\ w.issued = issued[j]
      /\ \A h \in Hosts : w.tasks[h] = "idle"
      /\ w.client.cursor \in w.issued \cup {NoOffset}
      /\ Told(w) => w.client.state = "following" /\ w.client.got = <<>> /\ w.client.cursor = NoOffset
  BY <1>4, <1>5 DEF Served, Waiting, View, Told
<1> HIDE DEF w
<1>10. Waiting(w)  BY <1>9 DEF Waiting
<1>11. Held(x, w)
  <2>1. Narrow(x, w)  BY <1>6, FS_EmptySet, BoundsAssumption DEF Narrow
  <2>2. Agrees(x, w)
    <3>1. x.results \in Seq(Keys)  BY <1>6 DEF SearchJob
    <3>2. IsPrefix(<<>>, x.results)  BY <3>1, PrefixFacts
    <3> QED BY <1>9, <3>2 DEF Agrees, Told
  <2>3. Attended(x, w)  BY <1>6, <1>9 DEF Attended
  <2>4. Final(x, w)  BY <1>9 DEF Final, Told
  <2> QED BY <2>1, <2>2, <2>3, <2>4 DEF Held
<1>12. Held(FromJob(x), w)  BY <1>6, <1>11, HeldWritten
<1>13. jobs'[j] = x /\ disk'[j] \in {Absent, FromJob(x)}
  BY <1>2, <1>3, <1>4, <1>7, <1>8
<1>14. Served(j)'
  BY <1>10, <1>11, <1>12, <1>13 DEF Served, w
<1>15. Removed(Jobs \ {j})  BY <1>2, <1>3, <1>7 DEF Removed
<1> QED BY <1>14, <1>15

\* Its tasks are those of the hosts that it waits for.
LEMMA SpawnServed ==
    ASSUME TypeOK, NEW j \in Jobs, Served(j), NEW browser \in BOOLEAN, StartSpawn(j, browser)
    PROVE  Served(j)'
<1> DEFINE v == View(j)
           w == View(j)'
<1>1. /\ phase[j] = "starting" /\ UNCHANGED <<jobs, disk, issued, follower, targets>>
      /\ tasks' = [tasks EXCEPT ![j] =
                   [h \in Hosts |-> IF h \notin targets[j] THEN "idle"
                                    ELSE IF browser THEN "hub" ELSE "direct"]]
  BY DEF StartSpawn
<1>2. phase'[j] \in {"returned", "orphan"}
  <2>1. \/ phase' = [phase EXCEPT ![j] = "returned"]
        \/ phase' = [phase EXCEPT ![j] = "orphan"]
    BY DEF StartSpawn
  <2> QED BY <2>1 DEF TypeOK
<1>3. \A h \in Hosts : tasks'[j][h] # "idle" => h \in targets[j]
  BY <1>1 DEF TypeOK
<1>4. /\ v.phase = "starting" /\ w.phase \in {"returned", "orphan"}
      /\ w.client = v.client /\ w.issued = v.issued
      /\ \A h \in Hosts : w.tasks[h] # "idle" => h \in v.targets
  BY <1>1, <1>2, <1>3 DEF View
<1> HIDE DEF v, w
<1>5. Waiting(v) => Waiting(w)  BY <1>4 DEF Waiting, Told
<1>6. ASSUME NEW x, Held(x, v) PROVE Held(x, w)
  <2>1. Attended(x, w)  BY <1>4, <1>6 DEF Held, Attended
  <2>2. Narrow(x, w)  BY <1>4, <1>6 DEF Held, Narrow
  <2>3. Agrees(x, w)  BY <1>4, <1>6 DEF Held, Agrees, Told
  <2>4. Final(x, w)  BY <1>4, <1>6 DEF Held, Final
  <2> QED BY <2>1, <2>2, <2>3, <2>4 DEF Held
<1> QED BY <1>1, <1>5, <1>6 DEF Served, v, w

\* A reply, to a client that has come to start or to another one.
LEMMA ReplyServed ==
    ASSUME RoomEnough, TypeOK, Contents, NEW j \in Jobs, Served(j), phase[j] = "returned",
           NEW start \in Nat, NEW n \in Nat, NEW all \in BOOLEAN, NEW followed \in BOOLEAN,
           Reply(j, start, n, all, followed), followed => Resumes(j, start, all)
    PROVE  /\ Served(j)' /\ Removed(Jobs \ {j})
           /\ \A k \in Jobs \ {j} : View(k)' = View(k)
<1> USE DEF Stored
<1>1. jobs \in Stored /\ disk \in Stored  BY DEF TypeOK
<1> DEFINE p == Prune(jobs, disk)
           m == Restore(p.mem, p.disk, j)
           b == m[j]
           len == Len(b.results)
           from == IF start < len THEN start ELSE len
           end == IF all \/ from + n > len THEN len ELSE from + n
           page == SubSeq(b.results, from + 1, end)
           more == CursorDue(b, end, all)
           next(c) == IF more THEN AddCursor(b, c, end) ELSE b
           v == View(j)
           w == View(j)'
<1>2. b # Absent /\ UNCHANGED <<tasks, phase, targets>>  BY Zenon DEF Reply
<1>3. PICK c \in IF more THEN Handles \ issued[j] ELSE {NoOffset} :
      \E r \in Persist(j, next(c), p.disk) :
         LET told == IF r.ok THEN ReportedState(b) ELSE "failed" IN
         /\ jobs' = [m EXCEPT ![j] = IF r.ok THEN r.job ELSE DurabilityFailure(r.job)]
         /\ disk' = r.disk
         /\ issued' = [issued EXCEPT ![j] = IF more THEN @ \cup {c} ELSE @]
         /\ follower' = IF ~followed THEN follower ELSE
              [follower EXCEPT ![j] =
                 [state |-> IF told = "failed" THEN "failed"
                            ELSE IF more THEN "following" ELSE "done",
                  cursor |-> c, got |-> @.got \o page]]
  BY Zenon DEF Reply
<1>4. PICK r \in Persist(j, next(c), p.disk) :
         LET told == IF r.ok THEN ReportedState(b) ELSE "failed" IN
         /\ jobs' = [m EXCEPT ![j] = IF r.ok THEN r.job ELSE DurabilityFailure(r.job)]
         /\ disk' = r.disk
         /\ issued' = [issued EXCEPT ![j] = IF more THEN @ \cup {c} ELSE @]
         /\ follower' = IF ~followed THEN follower ELSE
              [follower EXCEPT ![j] =
                 [state |-> IF told = "failed" THEN "failed"
                            ELSE IF more THEN "following" ELSE "done",
                  cursor |-> c, got |-> @.got \o page]]
  BY <1>3, Zenon
<1> DEFINE told == IF r.ok THEN ReportedState(b) ELSE "failed"
           x == next(c)
<1>5. p.disk \in Stored /\ \A k \in Jobs : p.disk[k] \in {disk[k], Absent}
  BY <1>1, PruneFacts
<1>6. Resumes(j, start, all) =>
         /\ v.client.state = "following" /\ ~all
         /\ \/ v.client.cursor = NoOffset /\ start = 0
            \/ v.client.cursor \in Handles /\ b.cursors[v.client.cursor] = start
  <2>1. v.client = follower[j]  BY DEF View
  <2> HIDE DEF v
  <2> QED BY <2>1, Zenon DEF Resumes
<1>7. /\ w.phase = "returned" /\ v.phase = "returned" /\ w.tasks = v.tasks /\ w.targets = v.targets
      /\ v.issued \in SUBSET Handles /\ v.client \in Follower
      /\ w.issued = IF more THEN v.issued \cup {c} ELSE v.issued
      /\ more => c \in Handles \ v.issued
      /\ ~more => c = NoOffset
      /\ w.client = IF ~followed THEN v.client
                    ELSE [state |-> IF told = "failed" THEN "failed"
                                    ELSE IF more THEN "following" ELSE "done",
                          cursor |-> c, got |-> v.client.got \o page]
  <2> HIDE DEF more, b, page, p, m
  <2> QED BY <1>2, <1>3, <1>4 DEF View, TypeOK
<1>8. \A k \in Jobs \ {j} : View(k)' = View(k)
  <2> HIDE DEF more, b, page, p, m
  <2> QED BY <1>2, <1>4 DEF View, TypeOK
<1> HIDE DEF m, v, w, told
<1>9. /\ m \in Stored /\ Read(j, b) /\ \A k \in Jobs \ {j} : m[k] \in {jobs[k], Absent}
  BY <1>1, <1>2, ReadFacts DEF m
<1>10. b \in SearchJob  BY <1>2, <1>9
<1>11. end \in 0 .. len /\ end \in Nat /\ len \in Nat  BY <1>10 DEF SearchJob
<1>12. JobSound(b)  BY <1>9, ReadSound
<1>13. Held(b, v)
  <2>1. CASE jobs[j] # Absent /\ b = jobs[j]  BY <2>1 DEF Served, v
  <2>2. CASE jobs[j] = Absent /\ disk[j] # Absent /\ b = Revived(disk[j])
    <3>1. Held(disk[j], v) /\ disk[j] \in SearchJob  BY <2>2, <1>1 DEF Served, v
    <3> HIDE DEF b
    <3>2. v.phase # "starting"  BY <1>7
    <3> QED BY <2>2, <3>1, <3>2, HeldRevived
  <2> QED BY <1>9, <2>1, <2>2 DEF Read
<1> HIDE DEF p, b
<1>14. /\ x \in SearchJob /\ x.results = b.results /\ x.pending = b.pending
       /\ x.lost = b.lost /\ x.durErr = b.durErr
       /\ ~more => x = b
       /\ more => \A k \in Handles : x.cursors[k] \in
                    {NoOffset} \cup (IF k = c THEN {end} ELSE {b.cursors[k]})
  <2> HIDE DEF more, end
  <2> QED BY <1>10, <1>11, AddCursorType
<1>15. Narrow(x, w)
  <2> HIDE DEF end
  <2>1. CASE more
    <3>1. x = AddCursor(b, c, end) /\ c \in Handles  BY <1>7, <2>1
    <3> HIDE DEF more, x
    <3>2. /\ Cardinality(CursorSet(x)) <= MaxCursors
          /\ CursorSet(x) \subseteq CursorSet(b) \cup {c}
      BY <1>10, <1>11, <3>1, AddCursorNarrow
    <3> QED BY <1>7, <1>13, <2>1, <3>2 DEF Held, Narrow
  <2>2. CASE ~more
    <3> HIDE DEF more
    <3> QED BY <1>7, <1>13, <2>2 DEF Held, Narrow
  <2> QED BY <2>1, <2>2
<1> HIDE DEF x
<1>16. followed =>
         /\ v.client.state = "following" /\ ~all
         /\ start = Len(v.client.got) /\ IsPrefix(v.client.got, b.results)
  <2> SUFFICES ASSUME followed PROVE 
         /\ v.client.state = "following" /\ ~all
         /\ start = Len(v.client.got) /\ IsPrefix(v.client.got, b.results)
    OBVIOUS
  <2>1. /\ v.client.state = "following" /\ ~all
        /\ \/ v.client.cursor = NoOffset /\ start = 0
           \/ v.client.cursor \in Handles /\ b.cursors[v.client.cursor] = start
    BY <1>6
  <2>2. IsPrefix(v.client.got, b.results)  BY <1>13, <2>1 DEF Held, Agrees, Told
  <2>3. start = Len(v.client.got)
    <3>1. CASE v.client.cursor = NoOffset /\ start = 0
      <4>1. v.client.got = <<>>  BY <1>13, <2>1, <3>1 DEF Held, Agrees
      <4> QED BY <3>1, <4>1
    <3>2. CASE v.client.cursor \in Handles /\ b.cursors[v.client.cursor] = start
      <4>1. v.client.cursor # NoOffset /\ start # NoOffset
        BY <3>2, FiniteAssumption DEF NoOffset
      <4>2. b.cursors[v.client.cursor] \in {NoOffset, Len(v.client.got)}
        BY <1>13, <2>1, <4>1 DEF Held, Agrees
      <4> QED BY <3>2, <4>1, <4>2
    <3> QED BY <2>1, <3>1, <3>2
  <2> QED BY <2>1, <2>2, <2>3
<1> DEFINE g == v.client.got \o page
<1>17. followed => IsPrefix(g, b.results) /\ Len(g) = end /\ g \in Seq(Keys)
  <2> SUFFICES ASSUME followed PROVE IsPrefix(g, b.results) /\ Len(g) = end /\ g \in Seq(Keys)
    OBVIOUS
  <2>1. v.client.got \in Seq(Keys) /\ b.results \in Seq(Keys)
    BY <1>7, <1>10 DEF Follower, SearchJob
  <2>2. Len(v.client.got) <= len  BY <1>16, <2>1, PrefixFacts
  <2>3. from = Len(v.client.got) /\ Len(v.client.got) <= end /\ end <= len
    <3>1. start = Len(v.client.got)  BY <1>16
    <3>2. start <= len /\ len \in Nat  BY <1>11, <2>2, <3>1
    <3> HIDE DEF len
    <3> QED BY <3>1, <3>2
  <2> HIDE DEF from, end
  <2>4. page = SubSeq(b.results, Len(v.client.got) + 1, end)  BY <2>3
  <2> HIDE DEF page
  <2> QED BY <1>11, <1>16, <2>1, <2>3, <2>4, PrefixPage
<1>18. ~more /\ ~all => b.pending = {} /\ end = len
  BY <1>11 DEF CursorDue
<1> HIDE DEF more, page, end, len
<1>19. Agrees(x, w)
  <2>1. CASE followed
    <3>1. w.client.got = g  BY <1>7, <2>1
    <3>2. w.client.state = "following" => more /\ w.client.cursor = c  BY <1>7, <2>1
    <3>3. IsPrefix(w.client.got, x.results)  BY <1>14, <1>17, <2>1, <3>1
    <3>4. w.client.state = "following" =>
             w.client.cursor # NoOffset /\ x.cursors[w.client.cursor] \in {NoOffset, Len(w.client.got)}
      <4> SUFFICES ASSUME w.client.state = "following"
                   PROVE  c # NoOffset /\ x.cursors[c] \in {NoOffset, Len(w.client.got)}
        BY <3>2
      <4>1. more /\ c \in Handles  BY <1>7, <3>2
      <4>2. c # NoOffset  BY <4>1, FiniteAssumption DEF NoOffset
      <4>3. x.cursors[c] \in {NoOffset, end}  BY <1>14, <4>1
      <4>4. Len(w.client.got) = end  BY <1>17, <2>1, <3>1
      <4> HIDE DEF g
      <4> QED BY <4>2, <4>3, <4>4
    <3> HIDE DEF g
    <3> QED BY <3>3, <3>4 DEF Agrees
  <2>2. CASE ~followed
    <3>1. w.client = v.client  BY <1>7, <2>2
    <3>2. Told(w) => IsPrefix(w.client.got, x.results)
      BY <1>13, <1>14, <3>1 DEF Held, Agrees, Told
    <3>3. ASSUME w.client.state = "following", w.client.cursor # NoOffset
          PROVE  x.cursors[w.client.cursor] \in {NoOffset, Len(w.client.got)}
      <4> DEFINE k == w.client.cursor
      <4>1. b.cursors[k] \in {NoOffset, Len(w.client.got)}
        BY <1>13, <3>1, <3>3 DEF Held, Agrees
      <4>2. k \in v.issued /\ k \in Handles
        BY <1>7, <3>1, <3>3 DEF Served, Waiting, v
      <4>3. CASE more
        <5>1. k # c  BY <1>7, <4>2, <4>3
        <5>2. x.cursors[k] \in {NoOffset, b.cursors[k]}  BY <1>14, <4>2, <4>3, <5>1
        <5> QED BY <4>1, <5>2
      <4>4. CASE ~more  BY <1>14, <4>1, <4>4
      <4> QED BY <4>3, <4>4
    <3>4. w.client.state = "following" /\ w.client.cursor = NoOffset => w.client.got = <<>>
      BY <1>13, <3>1 DEF Held, Agrees
    <3> QED BY <3>2, <3>3, <3>4 DEF Agrees
  <2> QED BY <2>1, <2>2
<1>20. Final(x, w)
  <2> SUFFICES ASSUME w.client.state = "done"
               PROVE  Broken(x) \/ (x.pending = {} /\ w.client.got = x.results)
    BY DEF Final
  <2>1. CASE followed
    <3>1. ~more /\ w.client.got = g  BY <1>7, <2>1
    <3>2. b.pending = {} /\ end = len  BY <1>16, <1>18, <2>1, <3>1
    <3>3. b.results \in Seq(Keys)  BY <1>10 DEF SearchJob
    <3>4. g = b.results
      <4>1. IsPrefix(g, b.results) /\ Len(g) = Len(b.results) /\ g \in Seq(Keys)
        BY <1>17, <2>1, <3>2 DEF len
      <4> HIDE DEF g
      <4> QED BY <3>3, <4>1, PrefixFacts
    <3> HIDE DEF g
    <3> QED BY <1>14, <3>1, <3>2, <3>4
  <2>2. CASE ~followed
    <3>1. w.client = v.client  BY <1>7, <2>2
    <3> QED BY <1>13, <1>14, <3>1 DEF Held, Final, Broken
  <2> QED BY <2>1, <2>2
<1>21. Attended(x, w)
  BY <1>7, <1>13, <1>14 DEF Held, Attended, Broken
<1>22. Held(x, w)  BY <1>15, <1>19, <1>20, <1>21 DEF Held
<1>23. Trim(x) = x
  <2>1. Cardinality(CursorSet(x)) <= MaxCursors /\ Len(x.results) <= Limit
    BY <1>12, <1>14, <1>15 DEF Narrow, JobSound
  <2> QED BY <1>14, <2>1, WholeFits
<1>24. Held(DurabilityFailure(x), w) /\ Held(FromJob(x), w)
  <2>1. w.phase # "starting"  BY <1>7
  <2> QED BY <1>14, <1>22, <2>1, HeldFailed, HeldWritten
<1>25. /\ r.job = x
       /\ \A k \in Jobs \ {j} : r.disk[k] \in {p.disk[k], Absent}
       /\ r.disk[j] \in {p.disk[j], Absent, FromJob(x)}
       /\ r.ok => r.disk[j] \in {Absent, FromJob(x)}
  <2>1. r \in Persist(j, x, p.disk)  BY DEF x
  <2> QED BY <1>5, <1>14, <1>23, <2>1, PersistWrites
<1>26. jobs'[j] \in {x, DurabilityFailure(x)} /\ \A k \in Jobs \ {j} : jobs'[k] \in {jobs[k], Absent}
  BY <1>4, <1>9, <1>25
<1>27. disk'[j] \in {disk[j], Absent, FromJob(x)} /\ (r.ok => disk'[j] \in {Absent, FromJob(x)})
       /\ \A k \in Jobs \ {j} : disk'[k] \in {disk[k], Absent}
  BY <1>4, <1>5, <1>25
<1>28. ASSUME ~r.ok, disk[j] # Absent PROVE Held(disk[j], w)
  <2> DEFINE a == disk[j]
  <2>1. Held(a, v)  BY <1>28 DEF Served, v
  <2>2. Narrow(a, w)  BY <1>7, <2>1 DEF Held, Narrow
  <2>3. Attended(a, w)  BY <1>7, <2>1 DEF Held, Attended
  <2>4. CASE followed
    <3>1. w.client.state = "failed"  BY <1>7, <1>28, <2>4 DEF told
    <3> QED BY <2>2, <2>3, <3>1 DEF Held, Agrees, Final, Told
  <2>5. CASE ~followed
    <3>1. w.client = v.client  BY <1>7, <2>5
    <3> QED BY <2>1, <2>2, <2>3, <3>1 DEF Held, Agrees, Final, Told
  <2> QED BY <2>4, <2>5
<1>29. Waiting(w)
  <2>1. v.client.cursor \in v.issued \cup {NoOffset}  BY DEF Served, Waiting, v
  <2>2. w.client.cursor \in w.issued \cup {NoOffset}
    <3>1. CASE followed
      <4>1. w.client.cursor = c  BY <1>7, <3>1
      <4> QED BY <1>7, <4>1
    <3>2. CASE ~followed  BY <1>7, <2>1, <3>2
    <3> QED BY <3>1, <3>2
  <2> QED BY <1>7, <2>2 DEF Waiting
<1>30. Served(j)'
  <2>1. jobs'[j] # Absent => Held(jobs'[j], w)  BY <1>22, <1>24, <1>26
  <2>2. disk'[j] # Absent => Held(disk'[j], w)  BY <1>24, <1>27, <1>28
  <2> QED BY <1>29, <2>1, <2>2 DEF Served, w
<1>31. Removed(Jobs \ {j})  BY <1>26, <1>27 DEF Removed
<1> QED BY <1>8, <1>30, <1>31

\* What a task makes of a job: it adds results and nothing else that a client sees.
Continues(b, x) ==
    /\ x \in SearchJob /\ x.cursors = b.cursors /\ x.lost = b.lost /\ x.durErr = b.durErr
    /\ \E s \in Seq(Keys) : x.results = b.results \o s

LEMMA MergeContinues ==
    ASSUME NEW job \in SearchJob, NEW h \in Hosts, NEW a \in Answers[h],
           NEW o \in MergeResult(job, h, a)
    PROVE  Continues(job, o) /\ o.pending = job.pending
<1>1. o \in SearchJob /\ o.pending = job.pending /\ o.lost = job.lost  BY MergeFacts
<1>2. PICK s \in Admitted(job, a.hits) :
        o = [job EXCEPT !.truncated = @ \/ a.truncated \/ Len(s) < Len(a.hits),
                        !.status[h] = a.state,
                        !.results = @ \o s,
                        !.seen = @ \cup ToSet(a.hits)]
  BY Zenon DEF MergeResult
<1>3. a.hits \in Seq(Keys)  BY AnswersAssumption
<1>4. s \in Seq(Keys)  BY <1>3, AdmittedFacts
<1> DEFINE tr == job.truncated \/ a.truncated \/ Len(s) < Len(a.hits)
           rs == job.results \o s
           se == job.seen \cup ToSet(a.hits)
           st == [job.status EXCEPT ![h] = a.state]
<1>5. o = [job EXCEPT !.truncated = tr, !.status = st, !.results = rs, !.seen = se]
  BY <1>2 DEF SearchJob
<1> HIDE DEF tr, rs, se, st
<1>6. o.results = rs /\ o.cursors = job.cursors /\ o.durErr = job.durErr
  BY <1>5 DEF SearchJob
<1> QED BY <1>1, <1>4, <1>6 DEF Continues, rs

LEMMA WorkContinues ==
    ASSUME TypeOK, NEW j \in Jobs, jobs[j] # Absent, NEW h \in Hosts
    PROVE  /\ Continues(jobs[j], [jobs[j] EXCEPT !.hub = @ \cup {h}])
           /\ [jobs[j] EXCEPT !.hub = @ \cup {h}].pending = jobs[j].pending
           /\ Continues(jobs[j], JobAfterError(jobs[j], h))
           /\ JobAfterError(jobs[j], h).pending = jobs[j].pending \ {h}
           /\ \A a \in Answers[h] :
                 \A x \in MergeResult([jobs[j] EXCEPT !.pending = @ \ {h}], h, a) :
                    Continues(jobs[j], x) /\ x.pending = jobs[j].pending \ {h}
<1> DEFINE b == jobs[j]
           hub == [b EXCEPT !.hub = @ \cup {h}]
           failed == JobAfterError(b, h)
           taken == [b EXCEPT !.pending = @ \ {h}]
<1>1. b \in SearchJob  BY DEF TypeOK
<1> HIDE DEF b
<1>2. b.results = b.results \o <<>> /\ <<>> \in Seq(Keys)
  <2>1. b.results \in Seq(Keys)  BY <1>1 DEF SearchJob
  <2> QED BY <2>1
<1>3. Continues(b, hub) /\ hub.pending = b.pending
  <2>1. /\ hub \in SearchJob /\ hub.cursors = b.cursors /\ hub.lost = b.lost
        /\ hub.durErr = b.durErr /\ hub.results = b.results /\ hub.pending = b.pending
    BY <1>1 DEF SearchJob
  <2> HIDE DEF hub
  <2> QED BY <1>2, <2>1 DEF Continues
<1>4. Continues(b, failed) /\ failed.pending = b.pending \ {h}
  <2>1. /\ failed \in SearchJob /\ failed.cursors = b.cursors /\ failed.lost = b.lost
        /\ failed.durErr = b.durErr /\ failed.results = b.results
        /\ failed.pending = b.pending \ {h}
    BY <1>1 DEF SearchJob, JobAfterError, HostStates
  <2> HIDE DEF failed
  <2> QED BY <1>2, <2>1 DEF Continues
<1>5. ASSUME NEW a \in Answers[h], NEW x \in MergeResult(taken, h, a)
      PROVE  Continues(b, x) /\ x.pending = b.pending \ {h}
  <2>1. /\ taken \in SearchJob /\ taken.cursors = b.cursors /\ taken.lost = b.lost
        /\ taken.durErr = b.durErr /\ taken.results = b.results
        /\ taken.pending = b.pending \ {h}
    BY <1>1 DEF SearchJob
  <2> HIDE DEF taken
  <2>2. Continues(taken, x) /\ x.pending = taken.pending
    BY <1>5, <2>1, MergeContinues
  <2> QED BY <2>1, <2>2 DEF Continues
<1> QED BY <1>3, <1>4, <1>5 DEF b

\* A task that stores a job, whichever way that goes.
LEMMA OutcomeServed ==
    ASSUME RoomEnough, TypeOK, Contents, Delivery, NEW j \in Jobs, NEW h \in Hosts,
           tasks[j][h] # "idle", jobs[j] # Absent,
           NEW x, Worked(j, x), Continues(jobs[j], x), NEW r \in Persist(j, x, disk),
           jobs' \in {[jobs EXCEPT ![j] = r.job], [jobs EXCEPT ![j] = DurabilityFailure(r.job)]},
           disk' = r.disk, UNCHANGED <<phase, targets, issued, follower>>,
           NEW t \in TaskPhases, tasks' = [tasks EXCEPT ![j][h] = t],
           x.pending = jobs[j].pending \/ (x.pending = jobs[j].pending \ {h} /\ t = "idle")
    PROVE  Delivery'
<1> USE DEF Stored
<1>1. jobs \in Stored /\ disk \in Stored /\ x \in SearchJob  BY DEF TypeOK, Continues
<1>2. /\ r.job = Trim(x)
      /\ \A k \in Jobs \ {j} : r.disk[k] \in {disk[k], Absent}
      /\ r.disk[j] \in {disk[j], Absent, FromJob(Trim(x))}
  BY <1>1, PersistWrites
<1>3. Written(j, x)  BY <1>1, <1>2 DEF Written, Removed
<1>4. JobSound(x)  BY MadeSound
<1>5. /\ \A g \in Hosts \ {h} : tasks'[j][g] = tasks[j][g]
      /\ tasks'[j][h] = t
      /\ \A k \in Jobs \ {j} : tasks'[k] = tasks[k]
  BY DEF TypeOK
<1>6. \A k \in Jobs : Calm(View(k), View(k)')
  <2> SUFFICES ASSUME NEW k \in Jobs PROVE Calm(View(k), View(k)')  OBVIOUS
  <2>1. \A g \in Hosts : tasks'[k][g] # "idle" => tasks[k][g] # "idle"  BY <1>5
  <2> QED BY <2>1 DEF Calm, View
<1>7. \A k \in Jobs \ {j} : Served(k)'
  BY <1>3, <1>6, CalmServed DEF Delivery, Written, Removed
<1>8. Served(j)'
  <2>1. Served(j)  BY DEF Delivery
  <2>2. PICK s \in Seq(Keys) : x.results = jobs[j].results \o s  BY DEF Continues
  <2>3. \A g \in Hosts : g \in jobs[j].pending /\ View(j)'.tasks[g] # "idle" => g \in x.pending
    BY <1>5 DEF View
  <2>4. Calm(View(j), View(j)') /\ View(j)'.phase = phase[j]  BY <1>6 DEF View
  <2>5. x.cursors = jobs[j].cursors /\ x.lost = jobs[j].lost /\ x.durErr = jobs[j].durErr
    BY DEF Continues
  <2> QED BY <1>3, <1>4, <2>1, <2>2, <2>3, <2>4, <2>5, WorkServed
<1> QED BY <1>7, <1>8 DEF Delivery

\* The steps of a task.
LEMMA TaskEndServed ==
    ASSUME RoomEnough, TypeOK, Contents, Delivery, NEW j \in Jobs, NEW h \in Hosts,
           tasks[j][h] # "idle", jobs[j] # Absent, NEW outcomes,
           \A o \in outcomes : /\ Worked(j, o) /\ Continues(jobs[j], o)
                               /\ o.pending = jobs[j].pending \ {h},
           TaskEnd(j, h, outcomes)
    PROVE  Delivery'
<1>1. PICK o \in outcomes : \E r \in Persist(j, o, disk) :
        /\ jobs' = [jobs EXCEPT ![j] = IF r.ok THEN r.job ELSE DurabilityFailure(r.job)]
        /\ disk' = r.disk
  BY Zenon DEF TaskEnd
<1>2. PICK r \in Persist(j, o, disk) :
        /\ jobs' = [jobs EXCEPT ![j] = IF r.ok THEN r.job ELSE DurabilityFailure(r.job)]
        /\ disk' = r.disk
  BY <1>1, Zenon
<1>3. /\ UNCHANGED <<phase, targets, issued, follower>>
      /\ tasks' = [tasks EXCEPT ![j][h] = "idle"]
  BY DEF TaskEnd
<1>4. "idle" \in TaskPhases  BY DEF TaskPhases
<1>5. Worked(j, o) /\ Continues(jobs[j], o) /\ o.pending = jobs[j].pending \ {h}  OBVIOUS
<1> QED BY <1>2, <1>3, <1>4, <1>5, OutcomeServed

LEMMA TaskServed ==
    ASSUME RoomEnough, TypeOK, Contents, Delivery, NEW j \in Jobs, NEW h \in Hosts,
           HubAdmitted(j, h) \/ TaskStep(j, h)
    PROVE  Delivery'
<1> DEFINE taken == [jobs[j] EXCEPT !.pending = @ \ {h}]
           hub == [jobs[j] EXCEPT !.hub = @ \cup {h}]
           failed == JobAfterError(jobs[j], h)
<1>1. CASE TaskAnswered(j, h)
  <2>1. jobs[j] # Absent /\ tasks[j][h] # "idle"  BY <1>1 DEF TaskAnswered
  <2>2. PICK a \in Answers[h] : TaskEnd(j, h, MergeResult(taken, h, a))
    BY <1>1 DEF TaskAnswered
  <2> DEFINE os == MergeResult(taken, h, a)
  <2>3. \A o \in os : Continues(jobs[j], o) /\ o.pending = jobs[j].pending \ {h}
    BY <2>1, WorkContinues, Zenon
  <2>4. \A o \in os : Worked(j, o)  BY <2>1 DEF Worked
  <2>5. TaskEnd(j, h, os)  BY <2>2
  <2> HIDE DEF os
  <2> QED BY <2>1, <2>3, <2>4, <2>5, TaskEndServed
<1>2. CASE TaskFailed(j, h)
  <2>1. jobs[j] # Absent /\ tasks[j][h] # "idle" /\ TaskEnd(j, h, {failed})
    BY <1>2 DEF TaskFailed
  <2> DEFINE os == {failed}
  <2>2. \A o \in os : Continues(jobs[j], o) /\ o.pending = jobs[j].pending \ {h}
    <3>1. Continues(jobs[j], failed) /\ failed.pending = jobs[j].pending \ {h}
      BY <2>1, WorkContinues, Zenon
    <3> HIDE DEF failed
    <3> QED BY <3>1
  <2>3. \A o \in os : Worked(j, o)  BY <2>1 DEF Worked
  <2>4. TaskEnd(j, h, os)  BY <2>1
  <2> HIDE DEF os
  <2> QED BY <2>1, <2>2, <2>3, <2>4, TaskEndServed
<1>3. ASSUME UNCHANGED <<jobs, disk, phase, targets, issued, follower>>,
             NEW t \in TaskPhases, tasks' = [tasks EXCEPT ![j][h] = t], tasks[j][h] # "idle"
      PROVE  Delivery'
  <2>1. \A k \in Jobs : \A g \in Hosts : tasks'[k][g] # "idle" => tasks[k][g] # "idle"
    BY <1>3 DEF TypeOK
  <2>2. \A k \in Jobs : Calm(View(k), View(k)')  BY <1>3, <2>1 DEF Calm, View
  <2> QED BY <1>3, <2>2, CalmServed DEF Delivery
<1>4. CASE TaskOrphaned(j, h)
  <2>1. "idle" \in TaskPhases  BY DEF TaskPhases
  <2> QED BY <1>3, <1>4, <2>1 DEF TaskOrphaned
<1>5. CASE HubAdmitted(j, h)
  <2>1. UNCHANGED <<phase, targets, issued, follower>> /\ tasks[j][h] # "idle"
    BY <1>5 DEF HubAdmitted
  <2>2. CASE jobs[j] = Absent
    <3>1. UNCHANGED <<jobs, disk>> /\ tasks' = [tasks EXCEPT ![j][h] = "doomed"]
      BY <1>5, <2>2 DEF HubAdmitted
    <3>2. "doomed" \in TaskPhases  BY DEF TaskPhases
    <3> QED BY <1>3, <2>1, <3>1, <3>2
  <2>3. CASE jobs[j] # Absent
    <3>1. PICK r \in Persist(j, hub, disk) :
            /\ jobs' = [jobs EXCEPT ![j] = r.job] /\ disk' = r.disk
            /\ tasks' = [tasks EXCEPT ![j][h] = IF r.ok THEN "admitted" ELSE "doomed"]
      BY <1>5, <2>3, Zenon DEF HubAdmitted
    <3>2. Worked(j, hub) /\ Continues(jobs[j], hub) /\ hub.pending = jobs[j].pending
      BY <2>3, WorkContinues DEF Worked
    <3>3. PICK t \in TaskPhases : tasks' = [tasks EXCEPT ![j][h] = t]
      BY <3>1 DEF TaskPhases
    <3> HIDE DEF hub
    <3>4. jobs' \in {[jobs EXCEPT ![j] = r.job], [jobs EXCEPT ![j] = DurabilityFailure(r.job)]}
      BY <3>1
    <3>5. r \in Persist(j, hub, disk) /\ disk' = r.disk  BY <3>1
    <3> QED BY <2>1, <2>3, <3>2, <3>3, <3>4, <3>5, OutcomeServed
  <2> QED BY <2>2, <2>3
<1> QED BY <1>1, <1>2, <1>4, <1>5 DEF TaskStep

\* Every step of the registry.
LEMMA DeliveryStep ==
    ASSUME RoomEnough, TypeOK, FreshIds, Contents, Delivery, [Next]_vars
    PROVE  Delivery'
<1> USE DEF Stored
<1>1. jobs \in Stored /\ disk \in Stored  BY DEF TypeOK
<1>2. ASSUME NEW m, NEW d, m = Prune(jobs, disk).mem, d = Prune(jobs, disk).disk
      PROVE  /\ m \in Stored /\ d \in Stored
             /\ \A k \in Jobs : m[k] \in {jobs[k], Absent} /\ d[k] \in {disk[k], Absent}
  BY <1>1, <1>2, PruneFacts
<1>3. ASSUME Removed(Jobs), \A k \in Jobs : Calm(View(k), View(k)') PROVE Delivery'
  BY <1>3, CalmServed DEF Delivery, Removed
<1>4. ASSUME UNCHANGED <<issued, targets, tasks, phase>>, NEW k \in Jobs,
             \/ follower'[k] = follower[k]
             \/ follower'[k].state = "broken" /\ follower'[k].cursor = follower[k].cursor
      PROVE  Calm(View(k), View(k)')
  BY <1>4 DEF Calm, View
<1>5. CASE \E j \in Jobs : JobNext(j)
  <2>1. PICK j \in Jobs : JobNext(j)  BY <1>5
  <2>2. ASSUME Served(j)', Removed(Jobs \ {j}), \A k \in Jobs \ {j} : Calm(View(k), View(k)')
        PROVE  Delivery'
    BY <2>2, CalmServed DEF Delivery, Removed
  <2>3. CASE \E hs \in SUBSET Hosts : StartInsert(j, hs)
    <3>1. PICK hs \in SUBSET Hosts : StartInsert(j, hs)  BY <2>3
    <3>2. Served(j)' /\ Removed(Jobs \ {j})  BY <3>1, InsertServed DEF Delivery
    <3>3. /\ UNCHANGED <<issued, follower, tasks>>
          /\ \A k \in Jobs \ {j} : phase'[k] = phase[k] /\ targets'[k] = targets[k]
      BY <3>1, Zenon DEF StartInsert, TypeOK
    <3>4. \A k \in Jobs \ {j} : Calm(View(k), View(k)')  BY <3>3 DEF Calm, View
    <3> QED BY <2>2, <3>2, <3>4
  <2>4. CASE \E browser \in BOOLEAN : StartSpawn(j, browser)
    <3>1. PICK browser \in BOOLEAN : StartSpawn(j, browser)  BY <2>4
    <3>2. Served(j)'  BY <3>1, SpawnServed DEF Delivery
    <3>3. /\ UNCHANGED <<jobs, disk, issued, follower, targets>>
          /\ \E g : tasks' = [tasks EXCEPT ![j] = g]
          /\ \E g : phase' = [phase EXCEPT ![j] = g]
      BY <3>1, Zenon DEF StartSpawn
    <3>4. \A k \in Jobs \ {j} : phase'[k] = phase[k] /\ tasks'[k] = tasks[k]
      BY <3>3 DEF TypeOK
    <3>5. \A k \in Jobs \ {j} : Calm(View(k), View(k)')  BY <3>3, <3>4 DEF Calm, View
    <3> QED BY <2>2, <3>2, <3>3, <3>5 DEF Removed
  <2>5. CASE \E h \in Hosts : HubAdmitted(j, h) \/ TaskStep(j, h)  BY <2>5, TaskServed
  <2>6. CASE (\E n \in 1..PageMax : FollowerPoll(j, n) \/ OtherPoll(j, n)) \/ Snapshot(j)
    <3>1. Replied(j)  BY <2>6, PollShape
    <3>2. PICK start \in Nat, n \in Nat, all \in BOOLEAN, followed \in BOOLEAN :
             Reply(j, start, n, all, followed) /\ (followed => Resumes(j, start, all))
      BY <3>1 DEF Replied
    <3>3. /\ Served(j)' /\ Removed(Jobs \ {j})
          /\ \A k \in Jobs \ {j} : View(k)' = View(k)
      BY <3>1, <3>2, ReplyServed DEF Replied, Delivery
    <3>4. \A k \in Jobs \ {j} : Calm(View(k), View(k)')  BY <3>3 DEF Calm
    <3> QED BY <2>2, <3>3, <3>4
  <2>7. CASE FollowerBadCursor(j)
    <3> DEFINE m == Restore(Prune(jobs, disk).mem, Prune(jobs, disk).disk, j)
    <3>1. /\ m[j] # Absent /\ jobs' = m /\ disk' = Prune(jobs, disk).disk
          /\ follower' = [follower EXCEPT ![j].state = "broken"]
          /\ phase[j] = "returned" /\ UNCHANGED <<issued, targets, tasks, phase>>
      BY <2>7, Zenon DEF FollowerBadCursor
    <3> HIDE DEF m
    <3>2. /\ m \in Stored /\ Read(j, m[j]) /\ \A k \in Jobs \ {j} : m[k] \in {jobs[k], Absent}
      BY <1>1, <3>1, ReadFacts DEF m
    <3>3. \A k \in Jobs : disk'[k] \in {disk[k], Absent}  BY <1>2, <3>1
    <3>4. \A k \in Jobs : \/ follower'[k] = follower[k]
                          \/ follower'[k].state = "broken" /\ follower'[k].cursor = follower[k].cursor
      BY <3>1 DEF TypeOK, Follower
    <3>5. \A k \in Jobs : Calm(View(k), View(k)')  BY <1>4, <3>1, <3>4
    <3>6. Removed(Jobs) \/ Reloaded(j)
      BY <3>1, <3>2, <3>3 DEF Read, Removed, Reloaded
    <3>7. CASE Reloaded(j)
      <4>1. View(j)'.phase # "starting"  BY <3>1 DEF View
      <4>2. Served(j)'  BY <3>5, <3>7, <4>1, ReloadServed DEF Delivery
      <4> QED BY <2>2, <3>5, <3>7, <4>2 DEF Reloaded
    <3> QED BY <1>3, <3>5, <3>6, <3>7
  <2>8. CASE PollExpired(j)
    <3>1. /\ jobs' = Prune(jobs, disk).mem /\ disk' = Prune(jobs, disk).disk
          /\ follower' = [follower EXCEPT ![j].state = IF @ = "following" THEN "broken" ELSE @]
          /\ UNCHANGED <<issued, targets, tasks, phase>>
      BY <2>8, Zenon DEF PollExpired
    <3>2. follower \in [Jobs -> Follower]  BY DEF TypeOK
    <3>3. \A k \in Jobs : \/ follower'[k] = follower[k]
                          \/ follower'[k].state = "broken" /\ follower'[k].cursor = follower[k].cursor
      BY <3>1, <3>2 DEF Follower
    <3>4. \A k \in Jobs : Calm(View(k), View(k)')  BY <1>4, <3>1, <3>3
    <3>5. Removed(Jobs)  BY <1>2, <3>1 DEF Removed
    <3> QED BY <1>3, <3>4, <3>5
  <2> QED BY <2>1, <2>3, <2>4, <2>5, <2>6, <2>7, <2>8 DEF JobNext
<1>6. ASSUME Removed(Jobs), UNCHANGED <<issued, follower, targets, tasks, phase>> PROVE Delivery'
  <2>1. \A k \in Jobs : Calm(View(k), View(k)')  BY <1>4, <1>6
  <2> QED BY <1>3, <1>6, <2>1
<1>7. CASE IsVerbose
  <2>1. /\ jobs' = Prune(jobs, disk).mem /\ disk' = Prune(jobs, disk).disk
        /\ UNCHANGED <<issued, follower, targets, tasks, phase>>
    BY <1>7, Zenon DEF IsVerbose
  <2> QED BY <1>2, <1>6, <2>1 DEF Removed
<1>8. CASE PruneFails
  <2>1. UNCHANGED <<issued, follower, targets, tasks, phase>>  BY <1>8 DEF PruneFails
  <2>2. \E G, V : /\ jobs' = [k \in Jobs |-> IF k \in V THEN Absent ELSE jobs[k]]
                  /\ disk' = [k \in Jobs |-> IF k \in G THEN Absent ELSE disk[k]]
    BY <1>8, Zenon DEF PruneFails
  <2> QED BY <1>6, <2>1, <2>2 DEF Removed
<1>9. CASE Restart
  <2>1. /\ jobs' = [j \in Jobs |-> Absent]
        /\ tasks' = [j \in Jobs |-> [h \in Hosts |-> "idle"]]
        /\ phase' = [j \in Jobs |-> IF phase[j] = "starting" THEN "orphan" ELSE phase[j]]
        /\ UNCHANGED <<disk, targets, issued, follower>>
    BY <1>9 DEF Restart
  <2>2. Removed(Jobs)  BY <2>1 DEF Removed
  <2>3. \A k \in Jobs : Calm(View(k), View(k)')  BY <2>1 DEF Calm, View
  <2> QED BY <1>3, <2>2, <2>3
<1>10. CASE Tick \/ UNCHANGED vars
  <2>1. UNCHANGED <<jobs, disk, issued, follower, targets, tasks, phase>>
    BY <1>10 DEF Tick, vars
  <2> QED BY <1>6, <2>1 DEF Removed
<1> QED BY <1>5, <1>7, <1>8, <1>9, <1>10 DEF Next

\* Initially every client waits for its first reply.
LEMMA InitDelivery == Init => Delivery
<1> SUFFICES ASSUME Init, NEW j \in Jobs PROVE Served(j)
  BY DEF Delivery
<1> QED BY DEF Init, Served, Waiting, View, Told

\* As long as no artifact has to be trimmed: what a client following the cursors has
\* received is the beginning of the job's results, whatever is evicted, reloaded or
\* restarted, and whatever cursors other clients drive out (status_inner, add_cursor,
\* merge_result).
THEOREM DeliveredIsPrefixHolds == ASSUME RoomEnough PROVE Spec => []DeliveredIsPrefix
<1>1. Init => Contents  BY DEF Init, Contents
<1>2. TypeOK /\ Contents /\ [Next]_vars => Contents'  BY ContentsStep
<1>3. IInv => TypeOK /\ FreshIds  BY DEF IInv
<1>4. TypeOK /\ FreshIds /\ Contents /\ Delivery /\ [Next]_vars => Delivery'  BY DeliveryStep
<1>5. Delivery => DeliveredIsPrefix
  BY DEF Delivery, Served, Held, Agrees, Told, View, DeliveredIsPrefix
<1> QED BY <1>1, <1>2, <1>3, <1>4, <1>5, InitDelivery, Invariance, PTL DEF Spec

\* Under the same condition a client whose last reply carried no cursor has every result of
\* a job that was neither lost nor failed to persist (status_inner, the "next cursor" rule).
THEOREM FollowerCompleteHolds == ASSUME RoomEnough PROVE Spec => []FollowerComplete
<1>1. Init => Contents  BY DEF Init, Contents
<1>2. TypeOK /\ Contents /\ [Next]_vars => Contents'  BY ContentsStep
<1>3. IInv => TypeOK /\ FreshIds  BY DEF IInv
<1>4. TypeOK /\ FreshIds /\ Contents /\ Delivery /\ [Next]_vars => Delivery'  BY DeliveryStep
<1>5. Delivery => FollowerComplete
  BY DEF Delivery, Served, Held, Final, Broken, View, FollowerComplete
<1> QED BY <1>1, <1>2, <1>3, <1>4, <1>5, InitDelivery, Invariance, PTL DEF Spec

-----------------------------------------------------------------------------
(* The budgets of the store. *)

StoredIn(d) == {j \in Jobs : d[j] # Absent}
InBudget(d) ==
    /\ IsFiniteSet(StoredIn(d)) /\ Cardinality(StoredIn(d)) <= MaxJobs
    /\ StoreBytes(d, StoredIn(d)) <= StoreMaxBytes
Crowd(m, n) == IsFiniteSet(StoredIn(m)) /\ Cardinality(StoredIn(m)) <= n
Budget == InBudget(disk) /\ Crowd(jobs, MaxJobs + 1)

\* Fewer artifacts take up less.
LEMMA BytesFacts ==
    ASSUME NEW d \in Stored, NEW e \in Stored, NEW S, IsFiniteSet(S), NEW T \in SUBSET S,
           S \subseteq StoredIn(d), \A k \in T : e[k] = d[k]
    PROVE  /\ StoreBytes(d, S) \in Nat /\ StoreBytes(e, T) \in Nat
           /\ StoreBytes(e, T) <= StoreBytes(d, S)
<1> DEFINE f == [k \in S |-> {k} \X (1 .. Size(d[k]))]
           U == {{k} \X (1 .. Size(d[k])) : k \in S}
           V == {{k} \X (1 .. Size(e[k])) : k \in T}
<1>1. \A k \in S : IsFiniteSet({k} \X (1 .. Size(d[k])))
  <2> SUFFICES ASSUME NEW k \in S PROVE IsFiniteSet({k} \X (1 .. Size(d[k])))
    OBVIOUS
  <2>1. d[k] \in SearchJob  BY DEF Stored, StoredIn
  <2>2. Size(d[k]) \in Nat  BY <2>1, OverheadType DEF Size, SearchJob
  <2>3. IsFiniteSet(1 .. Size(d[k]))  BY <2>2, FS_Interval
  <2> QED BY <2>3, FS_Singleton, FS_Product
<1>2. f \in Surjection(S, U)  BY Zenon DEF Surjection
<1>3. IsFiniteSet(U)
  <2> HIDE DEF f, U
  <2> QED BY <1>2, FS_Surjection
<1>4. \A t \in U : IsFiniteSet(t)  BY <1>1
<1>5. V \subseteq U
  <2> SUFFICES ASSUME NEW k \in T PROVE {k} \X (1 .. Size(e[k])) \in U  OBVIOUS
  <2>1. e[k] = d[k] /\ k \in S  OBVIOUS
  <2> QED BY <2>1
<1>6. (UNION V) \in SUBSET (UNION U)
  <2> HIDE DEF U, V
  <2> QED BY <1>5
<1>7. IsFiniteSet(UNION U)
  <2> HIDE DEF U
  <2> QED BY <1>3, <1>4, FS_UNION
<1>8. /\ Cardinality(UNION U) \in Nat /\ Cardinality(UNION V) \in Nat
      /\ Cardinality(UNION V) <= Cardinality(UNION U)
  <2> HIDE DEF U, V
  <2> QED BY <1>6, <1>7, FS_Subset, FS_CardinalityType
<1> QED BY <1>8 DEF StoreBytes

\* A store that only loses artifacts stays within the budgets.
LEMMA BudgetShrinks ==
    ASSUME NEW d \in Stored, NEW e \in Stored, InBudget(d),
           \A k \in Jobs : e[k] \in {d[k], Absent}
    PROVE  InBudget(e)
<1> DEFINE S == StoredIn(d)
           T == StoredIn(e)
<1>1. T \in SUBSET S /\ \A k \in T : e[k] = d[k]  BY DEF StoredIn
<1>2. IsFiniteSet(S) /\ Cardinality(S) <= MaxJobs /\ StoreBytes(d, S) <= StoreMaxBytes
  BY DEF InBudget
<1> HIDE DEF S, T
<1>3. /\ IsFiniteSet(T) /\ Cardinality(T) \in Nat /\ Cardinality(S) \in Nat
      /\ Cardinality(T) <= Cardinality(S)
  BY <1>1, <1>2, FS_Subset, FS_CardinalityType
<1>4. S \subseteq StoredIn(d)  BY DEF S
<1>5. StoreBytes(d, S) \in Nat /\ StoreBytes(e, T) \in Nat /\ StoreBytes(e, T) <= StoreBytes(d, S)
  BY <1>1, <1>2, <1>4, BytesFacts
<1>6. Cardinality(T) <= MaxJobs /\ StoreBytes(e, T) <= StoreMaxBytes
  BY <1>2, <1>3, <1>5, BoundsAssumption
<1> QED BY <1>3, <1>6 DEF InBudget, T

LEMMA CrowdShrinks ==
    ASSUME NEW m, NEW w, NEW n \in Nat, Crowd(m, n), \A k \in Jobs : w[k] \in {m[k], Absent}
    PROVE  Crowd(w, n)
<1>1. StoredIn(w) \in SUBSET StoredIn(m)  BY DEF StoredIn
<1>2. /\ IsFiniteSet(StoredIn(w)) /\ Cardinality(StoredIn(w)) \in Nat
      /\ Cardinality(StoredIn(m)) \in Nat /\ Cardinality(StoredIn(w)) <= Cardinality(StoredIn(m))
  BY <1>1, FS_Subset, FS_CardinalityType DEF Crowd
<1> QED BY <1>2 DEF Crowd

LEMMA CrowdGrows ==
    ASSUME NEW m, NEW w, NEW n \in Nat, Crowd(m, n), NEW j \in Jobs,
           \A k \in Jobs \ {j} : w[k] \in {m[k], Absent}
    PROVE  Crowd(w, n + 1)
<1> DEFINE S == StoredIn(m) \cup {j}
<1>1. StoredIn(w) \in SUBSET S  BY DEF StoredIn
<1>2. IsFiniteSet(S) /\ Cardinality(S) <= n + 1 /\ Cardinality(S) \in Nat
  BY FS_AddElement, FS_CardinalityType DEF Crowd
<1> HIDE DEF S
<1>3. /\ IsFiniteSet(StoredIn(w)) /\ Cardinality(StoredIn(w)) \in Nat
      /\ Cardinality(StoredIn(w)) <= Cardinality(S)
  BY <1>1, <1>2, FS_Subset, FS_CardinalityType
<1> QED BY <1>2, <1>3 DEF Crowd

\* A nonempty bounded set of naturals has a greatest member.
LEMMA Greatest ==
    ASSUME NEW S \in SUBSET Nat, NEW n \in Nat, \A i \in S : i <= n, S # {}
    PROVE  \E x \in S : \A y \in S : y <= x
<1> DEFINE above(x) == {y \in S : y > x}
           rank == [x \in S |-> Cardinality(above(x))]
           N == Cardinality(S)
<1>1. IsFiniteSet(S)  BY FS_BoundedSetOfNaturals
<1>2. N \in Nat /\ N # 0  BY <1>1, FS_CardinalityType, FS_EmptySet
<1>3. \A x : IsFiniteSet(above(x)) /\ Cardinality(above(x)) \in Nat
  BY <1>1, FS_Subset, FS_CardinalityType
<1> SUFFICES ASSUME \A x \in S : \E y \in S : y > x PROVE FALSE
  <2>1. ASSUME NEW x \in S, NEW y \in S, ~(y <= x) PROVE y > x
    <3>1. x \in Nat /\ y \in Nat  OBVIOUS
    <3> QED BY <2>1, <3>1
  <2>2. ASSUME ~ \E x \in S : \A y \in S : y <= x PROVE \A x \in S : \E y \in S : y > x
    BY <2>1, <2>2
  <2> QED BY <2>2
<1>4. \A x \in S : rank[x] \in 1 .. (N - 1)
  <2> SUFFICES ASSUME NEW x \in S PROVE Cardinality(above(x)) \in 1 .. (N - 1)  OBVIOUS
  <2>1. above(x) \in SUBSET S /\ x \notin above(x) /\ above(x) # {}  OBVIOUS
  <2> DEFINE A == above(x)
  <2> HIDE DEF above
  <2>2. Cardinality(A) <= N /\ Cardinality(A) # N /\ Cardinality(A) \in Nat /\ Cardinality(A) # 0
    BY <1>1, <1>3, <2>1, FS_Subset, FS_EmptySet
  <2> QED BY <1>2, <2>2
<1>5. ASSUME NEW x \in S, NEW y \in S, x < y PROVE rank[x] # rank[y]
  <2>1. x \in Nat /\ y \in Nat /\ \A z \in S : z \in Nat /\ (z > y => z > x)
    <3>1. x \in Nat /\ y \in Nat /\ \A z \in S : z \in Nat  OBVIOUS
    <3> QED BY <1>5, <3>1
  <2>2. Cardinality(above(x)) # Cardinality(above(y))
    <3> DEFINE A == above(x)
               B == above(y)
    <3>1. B \in SUBSET A /\ y \in A /\ y \notin B
      <4>1. y > x /\ ~(y > y)  BY <1>5, <2>1
      <4>2. B \in SUBSET A  BY <2>1
      <4> QED BY <4>1, <4>2
    <3>2. IsFiniteSet(A)  BY <1>3
    <3> HIDE DEF above
    <3>3. A # B  BY <3>1
    <3> QED BY <3>1, <3>2, <3>3, FS_Subset
  <2> QED BY <2>2
<1>6. rank \in [S -> 1 .. (N - 1)]  BY <1>4
<1> HIDE DEF rank
<1>7. \A x, y \in S : rank[x] = rank[y] => x = y
  <2>1. \A x \in S : x \in Nat  OBVIOUS
  <2> QED BY <1>5, <2>1
<1>8. rank \in Injection(S, 1 .. (N - 1))  BY <1>6, <1>7 DEF Injection, IsInjective
<1>9. IsFiniteSet(1 .. (N - 1)) /\ Cardinality(1 .. (N - 1)) <= N - 1
  <2>1. 1 \in Int /\ N - 1 \in Int  BY <1>2
  <2>2. IsFiniteSet(1 .. (N - 1))
        /\ Cardinality(1 .. (N - 1)) = IF 1 > N - 1 THEN 0 ELSE (N - 1) - 1 + 1
    BY <2>1, FS_Interval
  <2> QED BY <1>2, <2>2
<1>10. N <= Cardinality(1 .. (N - 1)) /\ Cardinality(1 .. (N - 1)) \in Nat
  BY <1>8, <1>9, FS_Injection, FS_CardinalityType
<1> QED BY <1>2, <1>9, <1>10

\* The sweep leaves a store within the budgets: what it keeps is not older than the oldest
\* artifact it keeps.
LEMMA SweepFits ==
    ASSUME NEW d \in Stored, IsFiniteSet(StoredIn(d))
    PROVE  InBudget(EnforceStoreBudget(d))
<1> DEFINE e == EnforceStoreBudget(d)
           S == StoredIn(d)
           T == StoredIn(e)
           from(j) == {k \in S : k = j \/ Older(d[j].created, j, d[k].created, k)}
           sizes == {Cardinality(from(j)) : j \in T}
<1>1. /\ T \in SUBSET S /\ e \in Stored
      /\ \A j \in T : e[j] = d[j] /\ Cardinality(from(j)) <= MaxJobs
                      /\ StoreBytes(d, from(j)) <= StoreMaxBytes
  BY DEF EnforceStoreBudget, StoredIn, Stored
<1>2. \A j \in S : j \in Nat /\ d[j].created \in Nat
  BY JobsAssumption DEF StoredIn, Stored, SearchJob
<1>3. \A j : from(j) \in SUBSET S /\ IsFiniteSet(from(j)) /\ Cardinality(from(j)) \in Nat
  BY FS_Subset, FS_CardinalityType
<1> HIDE DEF e, S, T
<1>4. CASE T = {}
  <2>1. StoreBytes(e, T) = 0
    <3>1. UNION {{k} \X (1 .. Size(e[k])) : k \in T} = {}  BY <1>4
    <3> QED BY <3>1, FS_EmptySet DEF StoreBytes
  <2> QED BY <1>4, <2>1, FS_EmptySet, BoundsAssumption DEF InBudget, T, e
<1>5. CASE T # {}
  <2>1. PICK o \in T : \A j \in T : Cardinality(from(j)) <= Cardinality(from(o))
    <3>1. sizes \in SUBSET Nat /\ sizes # {} /\ \A n \in sizes : n <= MaxJobs
      BY <1>1, <1>3, <1>5
    <3> HIDE DEF sizes
    <3>2. PICK n \in sizes : \A i \in sizes : i <= n  BY <3>1, Greatest, BoundsAssumption
    <3> QED BY <3>2 DEF sizes
  <2>2. ASSUME NEW j \in T, j \notin from(o) PROVE FALSE
    <3>1. j \in S /\ o \in S  BY <1>1
    <3>2. Older(d[j].created, j, d[o].created, o)
      BY <1>2, <2>2, <3>1 DEF Older
    <3>3. from(o) \in SUBSET from(j)
      <4> SUFFICES ASSUME NEW k \in S, k = o \/ Older(d[o].created, o, d[k].created, k)
                   PROVE  Older(d[j].created, j, d[k].created, k)
        OBVIOUS
      <4> QED BY <1>2, <3>1, <3>2 DEF Older
    <3>4. j \in from(j)  BY <3>1
    <3> DEFINE A == from(j)
               B == from(o)
    <3>5. B \in SUBSET A /\ j \in A /\ j \notin B  BY <2>2, <3>3, <3>4
    <3>6. IsFiniteSet(A) /\ Cardinality(A) \in Nat /\ Cardinality(B) \in Nat
          /\ Cardinality(A) <= Cardinality(B)
      BY <1>3, <2>1
    <3> HIDE DEF A, B
    <3>7. Cardinality(B) <= Cardinality(A) /\ (Cardinality(A) = Cardinality(B) => A = B)
      BY <3>5, <3>6, FS_Subset
    <3> QED BY <3>5, <3>6, <3>7
  <2> DEFINE F == from(o)
  <2>3. T \in SUBSET F  BY <1>1, <2>2
  <2>4. F \in SUBSET S /\ IsFiniteSet(F) /\ Cardinality(F) <= MaxJobs /\ Cardinality(F) \in Nat
        /\ StoreBytes(d, F) <= StoreMaxBytes
    BY <1>1, <1>3
  <2> HIDE DEF F
  <2>5. IsFiniteSet(T) /\ Cardinality(T) \in Nat /\ Cardinality(T) <= Cardinality(F)
    BY <2>3, <2>4, FS_Subset, FS_CardinalityType
  <2>6. StoreBytes(d, F) \in Nat /\ StoreBytes(e, T) \in Nat /\ StoreBytes(e, T) <= StoreBytes(d, F)
    <3>1. F \subseteq StoredIn(d)  BY <2>4 DEF S
    <3> QED BY <1>1, <2>3, <2>4, <3>1, BytesFacts
  <2>7. Cardinality(T) <= MaxJobs /\ StoreBytes(e, T) <= StoreMaxBytes
    BY <2>4, <2>5, <2>6, BoundsAssumption
  <2> QED BY <2>5, <2>7 DEF InBudget, T, e
<1> QED BY <1>4, <1>5 DEF e

\* Without I/O errors persist keeps the store within the budgets.
LEMMA PersistFits ==
    ASSUME ~IoFaults, NEW j \in Jobs, NEW job \in SearchJob, NEW d \in Stored, InBudget(d),
           NEW r \in Persist(j, job, d)
    PROVE  InBudget(r.disk)
<1> DEFINE t == Trim(job)
           written == [d EXCEPT ![j] = FromJob(t)]
<1>1. r.disk = EnforceStoreBudget(written) \/ r.disk = d
  <2>1. \/ r = [ok |-> TRUE, job |-> t, disk |-> EnforceStoreBudget(written)]
        \/ r = [ok |-> FALSE, job |-> t, disk |-> d]
    BY DEF Persist
  <2> HIDE DEF t, written
  <2> QED BY <2>1
<1>2. t \in SearchJob  BY TrimFacts
<1> HIDE DEF t
<1>3. written \in Stored
  <2>1. FromJob(t) \in SearchJob  BY <1>2 DEF FromJob, SearchJob
  <2> QED BY <2>1 DEF Stored
<1>4. IsFiniteSet(StoredIn(written))
  <2>1. StoredIn(written) \in SUBSET (StoredIn(d) \cup {j})  BY DEF StoredIn, Stored
  <2>2. IsFiniteSet(StoredIn(d) \cup {j})  BY FS_AddElement DEF InBudget
  <2> QED BY <2>1, <2>2, FS_Subset
<1> HIDE DEF written
<1> QED BY <1>1, <1>3, <1>4, SweepFits

\* What prune leaves in the map are at most MaxJobs jobs.
LEMMA PruneFits ==
    ASSUME NEW m \in Stored, NEW d, IsFiniteSet(StoredIn(m))
    PROVE  Crowd(Prune(m, d).mem, MaxJobs)
<1> DEFINE live == {j \in Jobs : m[j] # Absent /\ ~Expired(m[j].created)}
           newer == [j \in live |-> {k \in live : Older(m[j].created, j, m[k].created, k)}]
           w == Prune(m, d).mem
<1>1. StoredIn(w) = KeptJobs(m)
  <2>1. w = [j \in Jobs |-> IF j \in KeptJobs(m) THEN m[j] ELSE Absent]
    BY Zenon DEF Prune
  <2>2. KeptJobs(m) \in SUBSET {j \in Jobs : m[j] # Absent}  BY DEF KeptJobs
  <2> HIDE DEF w
  <2> QED BY <2>1, <2>2 DEF StoredIn
<1>2. KeptJobs(m) = {j \in live : Cardinality(newer[j]) < MaxJobs}
  BY DEF KeptJobs
<1>3. IsFiniteSet(live)
  <2>1. live \in SUBSET StoredIn(m)  BY DEF StoredIn
  <2> QED BY <2>1, FS_Subset
<1>4. \A j \in live : j \in Nat /\ m[j].created \in Nat
  BY JobsAssumption DEF Stored, SearchJob
<1>5. /\ newer \in [live -> SUBSET live]
      /\ \A k \in live : k \notin newer[k]
      /\ \A k, n \in live : k \in newer[n] => newer[k] \subseteq newer[n]
      /\ \A k, n \in live : k # n => k \in newer[n] \/ n \in newer[k]
  <2> HIDE DEF live
  <2> QED BY <1>4 DEF Older
<1> DEFINE kept == {j \in live : Cardinality(newer[j]) < MaxJobs}
<1>6. kept \in SUBSET live /\ \A j \in kept : Cardinality(newer[j]) < MaxJobs  OBVIOUS
<1>7. kept = KeptJobs(m)  BY <1>2
<1> HIDE DEF live, newer, kept
<1>8. IsFiniteSet(kept) /\ Cardinality(kept) <= MaxJobs
  BY <1>3, <1>5, <1>6, Ranked, BoundsAssumption
<1> QED BY <1>1, <1>7, <1>8 DEF Crowd

\* A search, a task of it, or a poll of it, puts at most one job into the map.
LEMMA OperationFits ==
    ASSUME ~IoFaults, TypeOK, Budget, NEW j \in Jobs, NEW x \in SearchJob,
           NEW d \in Stored, InBudget(d), NEW r \in Persist(j, x, d), disk' = r.disk,
           NEW m, NEW n \in {MaxJobs, MaxJobs + 1}, Crowd(m, n),
           \A k \in Jobs \ {j} : jobs'[k] \in {m[k], Absent},
           n = MaxJobs \/ m[j] # Absent
    PROVE  Budget'
<1>1. InBudget(disk')
  <2>1. InBudget(r.disk)  BY PersistFits
  <2> QED BY <2>1
<1>2. Crowd(jobs', MaxJobs + 1)
  <2>1. CASE n = MaxJobs  BY <2>1, BoundsAssumption, CrowdGrows
  <2>2. CASE n = MaxJobs + 1 /\ m[j] # Absent
    <3>1. StoredIn(jobs') \in SUBSET StoredIn(m)  BY <2>2 DEF StoredIn
    <3>2. /\ IsFiniteSet(StoredIn(jobs')) /\ Cardinality(StoredIn(jobs')) \in Nat
          /\ Cardinality(StoredIn(m)) \in Nat
          /\ Cardinality(StoredIn(jobs')) <= Cardinality(StoredIn(m))
      BY <3>1, FS_Subset, FS_CardinalityType DEF Crowd
    <3> QED BY <2>2, <3>2, BoundsAssumption DEF Crowd
  <2> QED BY <2>1, <2>2
<1> QED BY <1>1, <1>2 DEF Budget

\* A reload touches no other job.
LEMMA RestoreOne ==
    ASSUME NEW m \in Stored, NEW d, NEW j \in Jobs, NEW k \in Jobs \ {j}
    PROVE  Restore(m, d, j)[k] = m[k]
<1>1. Restore(m, d, j) = m \/ \E g : Restore(m, d, j) = [m EXCEPT ![j] = g]
  BY Zenon DEF Restore
<1> QED BY <1>1 DEF Stored

LEMMA ReplyFits ==
    ASSUME ~IoFaults, TypeOK, Budget, NEW j \in Jobs, NEW start, NEW n, NEW all, NEW followed,
           start \in Nat, n \in Nat, all \in BOOLEAN, followed \in BOOLEAN,
           Reply(j, start, n, all, followed),
           NEW p, p = Prune(jobs, disk), p.disk \in Stored, p.mem \in Stored,
           InBudget(p.disk), Crowd(p.mem, MaxJobs)
    PROVE  Budget'
<1> DEFINE m == Restore(p.mem, p.disk, j)
           job == m[j]
           len == Len(job.results)
           from == IF start < len THEN start ELSE len
           end == IF all \/ from + n > len THEN len ELSE from + n
           more == CursorDue(job, end, all)
           next(c) == IF more THEN AddCursor(job, c, end) ELSE job
<1>1. job # Absent  BY Zenon DEF Reply
<1>2. PICK c \in IF more THEN Handles \ issued[j] ELSE {NoOffset} :
      \E r \in Persist(j, next(c), p.disk) :
         /\ jobs' = [m EXCEPT ![j] = IF r.ok THEN r.job ELSE DurabilityFailure(r.job)]
         /\ disk' = r.disk
  BY Zenon DEF Reply
<1>3. PICK r \in Persist(j, next(c), p.disk) :
         /\ jobs' = [m EXCEPT ![j] = IF r.ok THEN r.job ELSE DurabilityFailure(r.job)]
         /\ disk' = r.disk
  BY <1>2, Zenon
<1>4. jobs \in Stored /\ disk \in Stored  BY DEF TypeOK, Stored
<1> HIDE DEF m
<1>5. m \in Stored  BY <1>1, <1>4, ReadFacts DEF m
<1>6. job \in SearchJob  BY <1>1, <1>5 DEF Stored
<1>7. end \in Nat  BY <1>6 DEF SearchJob
<1> HIDE DEF end, job
<1>8. next(c) \in SearchJob  BY <1>6, <1>7, AddCursorType
<1> DEFINE x == next(c)
<1> HIDE DEF more, next
<1>9. \A k \in Jobs \ {j} : m[k] = p.mem[k]  BY RestoreOne DEF m
<1>10. \A k \in Jobs \ {j} : jobs'[k] \in {p.mem[k], Absent}  BY <1>3, <1>5, <1>9 DEF Stored
<1> QED BY <1>3, <1>8, <1>10, OperationFits

LEMMA BudgetStep ==
    ASSUME ~IoFaults, TypeOK, Budget, [Next]_vars
    PROVE  Budget'
<1> USE DEF Stored
<1>1. jobs \in Stored /\ disk \in Stored  BY DEF TypeOK
<1> DEFINE p == Prune(jobs, disk)
<1>2. /\ p.mem \in Stored /\ p.disk \in Stored
      /\ \A k \in Jobs : p.mem[k] \in {jobs[k], Absent} /\ p.disk[k] \in {disk[k], Absent}
  BY <1>1, PruneFacts
<1>3. InBudget(p.disk)  BY <1>1, <1>2, BudgetShrinks DEF Budget
<1>4. Crowd(p.mem, MaxJobs)  BY <1>1, PruneFits DEF Budget, Crowd
<1>5. ASSUME \A k \in Jobs : jobs'[k] \in {jobs[k], Absent} /\ disk'[k] \in {disk[k], Absent},
             disk' \in Stored
      PROVE  Budget'
  <2>1. InBudget(disk')  BY <1>1, <1>5, BudgetShrinks DEF Budget
  <2>2. Crowd(jobs', MaxJobs + 1)  BY <1>5, CrowdShrinks, BoundsAssumption DEF Budget
  <2> QED BY <2>1, <2>2 DEF Budget
<1> HIDE DEF p
<1>6. CASE \E j \in Jobs : JobNext(j)
  <2>1. PICK j \in Jobs : JobNext(j)  BY <1>6
  <2>2. CASE \E hs \in SUBSET Hosts : StartInsert(j, hs)
    <3>1. PICK hs \in SUBSET Hosts : StartInsert(j, hs)  BY <2>2
    <3> DEFINE x == NewJob(hs)
    <3>2. PICK r \in Persist(j, x, p.disk) :
             jobs' = [p.mem EXCEPT ![j] = r.job] /\ disk' = r.disk
      BY <3>1, Zenon DEF StartInsert, p
    <3>3. x \in SearchJob  BY DEF NewJob, SearchJob, TypeOK
    <3> HIDE DEF x
    <3>4. \A k \in Jobs \ {j} : jobs'[k] \in {p.mem[k], Absent}  BY <1>2, <3>2
    <3> QED BY <1>2, <1>3, <1>4, <3>2, <3>3, <3>4, OperationFits
  <2>3. CASE \E browser \in BOOLEAN : StartSpawn(j, browser)
    <3>1. UNCHANGED <<jobs, disk>>  BY <2>3 DEF StartSpawn
    <3> QED BY <1>1, <1>5, <3>1
  <2>4. CASE \E h \in Hosts : HubAdmitted(j, h) \/ TaskStep(j, h)
    <3>1. PICK h \in Hosts : HubAdmitted(j, h) \/ TaskStep(j, h)  BY <2>4
    <3>2. ASSUME jobs[j] # Absent, NEW x \in SearchJob, NEW r \in Persist(j, x, disk),
                 disk' = r.disk, \A k \in Jobs \ {j} : jobs'[k] = jobs[k]
          PROVE  Budget'
      <4>1. InBudget(disk) /\ Crowd(jobs, MaxJobs + 1)  BY DEF Budget
      <4> QED BY <1>1, <3>2, <4>1, OperationFits
    <3>3. ASSUME jobs[j] # Absent, NEW os \in SUBSET SearchJob, TaskEnd(j, h, os)
          PROVE  Budget'
      <4>1. PICK x \in os : \E r \in Persist(j, x, disk) :
               /\ jobs' = [jobs EXCEPT ![j] = IF r.ok THEN r.job ELSE DurabilityFailure(r.job)]
               /\ disk' = r.disk
        BY <3>3, Zenon DEF TaskEnd
      <4>2. PICK r \in Persist(j, x, disk) :
               /\ jobs' = [jobs EXCEPT ![j] = IF r.ok THEN r.job ELSE DurabilityFailure(r.job)]
               /\ disk' = r.disk
        BY <4>1, Zenon
      <4>3. \A k \in Jobs \ {j} : jobs'[k] = jobs[k]  BY <1>1, <4>2
      <4> QED BY <3>2, <3>3, <4>2, <4>3
    <3> DEFINE taken == [jobs[j] EXCEPT !.pending = @ \ {h}]
               hub == [jobs[j] EXCEPT !.hub = @ \cup {h}]
               failed == JobAfterError(jobs[j], h)
    <3>4. jobs[j] # Absent => taken \in SearchJob /\ hub \in SearchJob /\ failed \in SearchJob
      <4>1. jobs[j] # Absent => jobs[j] \in SearchJob  BY <1>1
      <4> QED BY <4>1 DEF SearchJob, JobAfterError, HostStates
    <3>5. CASE TaskAnswered(j, h)
      <4>1. jobs[j] # Absent  BY <3>5 DEF TaskAnswered
      <4>2. PICK a \in Answers[h] : TaskEnd(j, h, MergeResult(taken, h, a))
        BY <3>5 DEF TaskAnswered
      <4> DEFINE os == MergeResult(taken, h, a)
      <4>3. taken \in SearchJob  BY <3>4, <4>1
      <4>4. TaskEnd(j, h, os)  BY <4>2
      <4> HIDE DEF taken
      <4>5. os \in SUBSET SearchJob  BY <4>3, MergeFacts
      <4> HIDE DEF os
      <4> QED BY <3>3, <4>1, <4>4, <4>5
    <3>6. CASE TaskFailed(j, h)
      <4>1. jobs[j] # Absent /\ TaskEnd(j, h, {failed})  BY <3>6 DEF TaskFailed
      <4> DEFINE os == {failed}
      <4>2. os \in SUBSET SearchJob  BY <3>4, <4>1
      <4>3. TaskEnd(j, h, os)  BY <4>1
      <4> HIDE DEF os
      <4> QED BY <3>3, <4>1, <4>2, <4>3
    <3>7. CASE TaskOrphaned(j, h)
      <4>1. UNCHANGED <<jobs, disk>>  BY <3>7 DEF TaskOrphaned
      <4> QED BY <1>1, <1>5, <4>1
    <3>8. CASE HubAdmitted(j, h)
      <4>1. CASE jobs[j] = Absent
        <5>1. UNCHANGED <<jobs, disk>>  BY <3>8, <4>1 DEF HubAdmitted
        <5> QED BY <1>1, <1>5, <5>1
      <4>2. CASE jobs[j] # Absent
        <5>1. PICK r \in Persist(j, hub, disk) :
                jobs' = [jobs EXCEPT ![j] = r.job] /\ disk' = r.disk
          BY <3>8, <4>2, Zenon DEF HubAdmitted
        <5>2. hub \in SearchJob  BY <3>4, <4>2
        <5> HIDE DEF hub
        <5>3. \A k \in Jobs \ {j} : jobs'[k] = jobs[k]  BY <1>1, <5>1
        <5> QED BY <3>2, <4>2, <5>1, <5>2, <5>3
      <4> QED BY <4>1, <4>2
    <3> QED BY <3>1, <3>5, <3>6, <3>7, <3>8 DEF TaskStep
  <2>5. CASE (\E n \in 1..PageMax : FollowerPoll(j, n) \/ OtherPoll(j, n)) \/ Snapshot(j)
    <3>1. Replied(j)  BY <2>5, PollShape
    <3>2. PICK start \in Nat, n \in Nat, all \in BOOLEAN, followed \in BOOLEAN :
             Reply(j, start, n, all, followed)
      BY <3>1 DEF Replied
    <3> QED BY <1>2, <1>3, <1>4, <3>2, ReplyFits DEF p
  <2>6. CASE FollowerBadCursor(j)
    <3> DEFINE m == Restore(p.mem, p.disk, j)
    <3>1. m[j] # Absent /\ jobs' = m /\ disk' = p.disk
      BY <2>6, Zenon DEF FollowerBadCursor, p
    <3> HIDE DEF m
    <3>2. \A k \in Jobs \ {j} : m[k] \in {p.mem[k], Absent}
      BY <1>2, RestoreOne DEF m
    <3>3. Crowd(jobs', MaxJobs + 1)  BY <1>4, <3>1, <3>2, CrowdGrows, BoundsAssumption
    <3> QED BY <1>3, <3>1, <3>3 DEF Budget
  <2>7. CASE PollExpired(j)
    <3>1. jobs' = p.mem /\ disk' = p.disk  BY <2>7, Zenon DEF PollExpired, p
    <3> QED BY <1>2, <1>5, <3>1
  <2> QED BY <2>1, <2>2, <2>3, <2>4, <2>5, <2>6, <2>7 DEF JobNext
<1>7. CASE IsVerbose
  <2>1. jobs' = p.mem /\ disk' = p.disk  BY <1>7, Zenon DEF IsVerbose, p
  <2> QED BY <1>2, <1>5, <2>1
<1>8. CASE PruneFails  BY <1>8 DEF PruneFails
<1>9. CASE Restart
  <2>1. jobs' = [j \in Jobs |-> Absent] /\ disk' = disk  BY <1>9 DEF Restart
  <2> QED BY <1>1, <1>5, <2>1
<1>10. CASE Tick \/ UNCHANGED vars
  <2>1. UNCHANGED <<jobs, disk>>  BY <1>10 DEF Tick, vars
  <2> QED BY <1>1, <1>5, <2>1
<1> QED BY <1>6, <1>7, <1>8, <1>9, <1>10 DEF Next

\* While the file system works, the store keeps within its two budgets, whatever jobs are
\* started, answered, polled and reloaded, and the map holds at most one job more than
\* MaxJobs (persist, enforce_store_budget, prune).
THEOREM StoreWithinBudgetHolds == ASSUME ~IoFaults PROVE Spec => []StoreWithinBudget
<1>1. Init => Budget
  <2> SUFFICES ASSUME Init PROVE Budget  OBVIOUS
  <2>1. StoredIn(disk) = {} /\ StoredIn(jobs) = {}  BY DEF Init, StoredIn
  <2>2. UNION {{k} \X (1 .. Size(disk[k])) : k \in {}} = {}  OBVIOUS
  <2>3. StoreBytes(disk, {}) = 0  BY <2>2, FS_EmptySet DEF StoreBytes
  <2> QED BY <2>1, <2>3, FS_EmptySet, BoundsAssumption DEF Budget, InBudget, Crowd
<1>2. TypeOK /\ Budget /\ [Next]_vars => Budget'  BY BudgetStep
<1>3. Budget => StoreWithinBudget
  BY DEF Budget, InBudget, Crowd, StoredIn, StoreWithinBudget
<1> QED BY <1>1, <1>2, <1>3, TypeCorrect, PTL DEF Spec
=============================================================================
