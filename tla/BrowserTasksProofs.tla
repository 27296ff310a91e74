------------------------- MODULE BrowserTasksProofs -------------------------
(***************************************************************************)
(* Theorems about BrowserTasks, for any number of callers, handles,       *)
(* receipts and restarts: no operation is submitted to the hub twice      *)
(* (SubmittedOnce), what a reply hands out can be used (HandedOutUsable), *)
(* and what a preview shows is what it claims to be (PreviewHonest).      *)
(***************************************************************************)
EXTENDS BrowserTasks, FiniteSetTheorems, WellFoundedInduction, TLAPS

-----------------------------------------------------------------------------
(* The inductive invariant. *)

\* One step of a handle's life: what it keeps of the result it was issued for.
PreviewShape(p) == p = [age |-> p.age, entry |-> p.entry, lines |-> p.lines, cut |-> p.cut]

CallType(k) ==
    k \in [pc : Steps, op : Operations \cup {<<0, "none">>}, expected : {0, 1}, task : {0, 1},
           reconnects : 0 .. MaxReconnects, age : {0, 1}, target : {k.target}]

\* TypeOK in one piece for each variable; a task is the only one of its operation.
Typed ==
    /\ routed \in BOOLEAN /\ issued \in 0 .. MaxIssued
    /\ DOMAIN previews \subseteq 1 .. issued /\ Cardinality(DOMAIN previews) <= MaxHandles
    /\ \A h \in DOMAIN previews :
        previews[h].age \in 0 .. HandleTtl /\ previews[h].entry \in Entries /\ PreviewShape(previews[h])
    /\ \A i \in DOMAIN page : page[i] \in 0 .. issued /\ (page[i] # 0 => page[i] \in DOMAIN previews)
    /\ DOMAIN receipts \subseteq Operations /\ Cardinality(DOMAIN receipts) <= MaxReceipts
    /\ \A op \in DOMAIN receipts : receipts[op] \in [age : 0 .. ReceiptTtl, task : {0, 1}]
    /\ call = [c \in Callers |-> call[c]]
    /\ \A c \in Callers : CallType(call[c]) /\ (call[c].pc # "idle" => call[c].op \in Operations)
    /\ hub \in [Operations -> [runs : {0, 1}, state : {"none", "running", "over"}]]
    /\ told \in [Operations -> {0, 1}]
    /\ searched \in 0 .. MaxSearches /\ asked \in 0 .. MaxCalls /\ restarts \in 0 .. MaxRestarts

Busy(c) == call[c].pc # "idle"
Following(c) == call[c].pc \in {"top", "listen"}

\* Numbers that were not given out belong to nothing.
Numbered ==
    /\ \A op \in Previewed : op[1] > issued => hub[op].runs = 0
    /\ \A op \in Searched : op[1] > searched => hub[op].runs = 0
    /\ \A c \in Callers : Busy(c) =>
        call[c].op[1] <= IF call[c].op \in Previewed THEN issued ELSE searched

\* A search of a host belongs to one call, which has not submitted it yet when it is admitted.
SearchedOnce ==
    \A c \in Callers : Busy(c) /\ call[c].op \in Searched =>
        /\ \A d \in Callers : Busy(d) /\ call[d].op = call[c].op => d = c
        /\ call[c].pc = "admit" => hub[call[c].op].runs = 0

\* A submission on its way is the first one and the only one.
FirstSubmission ==
    \A c \in Callers : Submitting(c) =>
        /\ hub[call[c].op].runs = 0
        /\ \A d \in Callers : Submitting(d) /\ call[d].op = call[c].op => d = c

Started(op) == hub[op].runs > 0 \/ \E c \in Callers : Submitting(c) /\ call[c].op = op

\* What was started through a live handle has a receipt younger than the handle.
Receipted ==
    \A op \in Previewed : op[1] \in LiveHandles /\ Started(op) =>
        op \in DOMAIN receipts /\ receipts[op].age <= previews[op[1]].age

\* A call that is about to be admitted had a live handle, a call's time ago.
Admitting ==
    \A c \in Callers : call[c].pc = "admit" /\ call[c].op \in Previewed /\ Started(call[c].op) =>
        call[c].op \in DOMAIN receipts /\ receipts[call[c].op].age < HandleTtl + call[c].age

\* A task that anyone knows of was submitted.
Tasks ==
    /\ \A op \in DOMAIN receipts : receipts[op].task = 1 => hub[op].runs = 1
    /\ \A op \in Operations : told[op] = 1 => hub[op].runs = 1
    /\ \A c \in Callers : call[c].pc \in {"record", "top", "listen"} =>
        call[c].task = 1 /\ hub[call[c].op].runs = 1

\* The receipt names the task that somebody follows or was told of.
Noted ==
    \A op \in Previewed :
        /\ told[op] = 1 \/ \E c \in Callers : Following(c) /\ call[c].op = op
        /\ op[1] \in LiveHandles
        => op \in DOMAIN receipts /\ receipts[op].task = 1

IInv ==
    /\ Typed /\ Numbered /\ SearchedOnce /\ FirstSubmission
    /\ Receipted /\ Admitting /\ Tasks /\ Noted

-----------------------------------------------------------------------------
(* Lemmas about the operators. *)

LEMMA Limits ==
    /\ MaxHandles \in Nat /\ MaxReceipts \in Nat /\ MaxReconnects \in Nat /\ MaxIssued \in Nat
    /\ MaxSearches \in Nat /\ MaxCalls \in Nat /\ MaxRestarts \in Nat
    /\ HandleTtl \in Nat /\ HandleTtl > 0 /\ ReceiptTtl \in Nat /\ HandleTtl < ReceiptTtl
<1>1. HandleTtl \in Nat /\ HandleTtl > 0  BY TtlAssumption
<1> QED BY <1>1, TtlAssumption, LimitsAssumption

LEMMA TypedTypeOK == Typed => TypeOK
<1> SUFFICES ASSUME Typed PROVE TypeOK  OBVIOUS
<1>1. \A op \in DOMAIN receipts : receipts[op].age \in 0 .. ReceiptTtl /\ receipts[op].task \in Nat
  BY DEF Typed
<1>2. \A c \in Callers :
        /\ call[c].pc \in Steps /\ (call[c].pc # "idle" => call[c].op \in Operations)
        /\ call[c].reconnects \in 0 .. MaxReconnects
  BY DEF Typed, CallType
<1>3. \A op \in Operations :
        hub[op].runs \in Nat /\ hub[op].state \in {"none", "running", "over"}
  BY DEF Typed
<1>4. told \in [Operations -> Nat]  BY DEF Typed
<1>5. \A i \in DOMAIN page : page[i] \in 0 .. issued  BY DEF Typed
<1> QED BY <1>1, <1>2, <1>3, <1>4, <1>5 DEF Typed, TypeOK

\* A preview and a search are never the same operation.
LEMMA OperationFacts ==
    /\ \A op \in Operations : op \in Previewed \/ op \in Searched
    /\ \A op \in Previewed : op \in Operations /\ op[1] \in 1 .. MaxIssued /\ op[2] \in Views
                             /\ op \notin Searched
    /\ \A op \in Searched : op \in Operations /\ op[1] \in 1 .. MaxSearches /\ op \notin Previewed
    /\ \A h \in 1 .. MaxIssued, view \in Views : <<h, view>> \in Previewed
    /\ \A n \in 1 .. MaxSearches : <<n, "search">> \in Searched
<1>1. \A op \in Previewed : op[1] \in 1 .. MaxIssued /\ op[2] \in {"match", "window", "document"}
  BY DEF Previewed, Views
<1>2. \A op \in Searched : op[1] \in 1 .. MaxSearches /\ op[2] = "search"
  BY DEF Searched
<1> QED BY <1>1, <1>2 DEF Operations, Previewed, Searched, Views

LEMMA IdleFacts == CallType(Idle) /\ Idle.pc = "idle" /\ Idle.age = 0
BY Limits DEF CallType, Idle, Steps, NoTask

LEMMA FiniteTables ==
    ASSUME Typed
    PROVE  IsFiniteSet(DOMAIN receipts) /\ IsFiniteSet(DOMAIN previews)
<1>1. IsFiniteSet(Operations)
  <2>1. IsFiniteSet(1 .. MaxIssued) /\ IsFiniteSet(1 .. MaxSearches)  BY Limits, FS_Interval
  <2>2. IsFiniteSet({"match"}) /\ IsFiniteSet({"search"})  BY FS_Singleton
  <2>3. IsFiniteSet({"match"} \cup {"window"})  BY <2>2, FS_AddElement
  <2>4. IsFiniteSet({"match"} \cup {"window"} \cup {"document"})  BY <2>3, FS_AddElement
  <2>5. Views = {"match"} \cup {"window"} \cup {"document"}  BY DEF Views
  <2>6. IsFiniteSet(Previewed)  BY <2>1, <2>4, <2>5, FS_Product DEF Previewed
  <2>7. IsFiniteSet(Searched)  BY <2>1, <2>2, FS_Product DEF Searched
  <2> QED BY <2>6, <2>7, FS_Union DEF Operations
<1>2. IsFiniteSet(1 .. issued)
  <2>1. issued \in Int  BY Limits DEF Typed
  <2> QED BY <2>1, FS_Interval
<1> QED BY <1>1, <1>2, FS_Subset DEF Typed

-----------------------------------------------------------------------------
(* The steps of a submitted call and of the hub. *)

\* One call goes a step or ends: tables keep their entries, a receipt may learn its
\* task, the hub may run the operation of a submission that leaves.
LEMMA TaskStep ==
    ASSUME IInv, Typed', NEW c \in Callers,
           UNCHANGED <<previews, issued, searched>>,
           DOMAIN receipts' = DOMAIN receipts,
           \A op \in DOMAIN receipts :
               /\ receipts'[op].age = receipts[op].age
               /\ receipts[op].task = 1 => receipts'[op].task = 1
               /\ receipts'[op].task = 1 => receipts[op].task = 1 \/ hub[op].runs = 1,
           \A d \in Callers \ {c} : call'[d] = call[d],
           call'[c].pc # "idle" =>
               /\ Busy(c) /\ call'[c].op = call[c].op /\ call'[c].age = call[c].age
               /\ call'[c].pc # "admit",
           Submitting(c)' => Submitting(c) /\ hub' = hub,
           \A op \in Operations :
               /\ hub[op].runs = 1 => hub'[op].runs = 1
               /\ hub'[op].runs = 1 => \/ hub[op].runs = 1
                                       \/ Submitting(c) /\ op = call[c].op,
           call'[c].pc \in {"record", "top", "listen"} =>
               call'[c].task = 1 /\ hub'[call[c].op].runs = 1,
           call'[c].pc \in {"top", "listen"} =>
               \/ Following(c)
               \/ call[c].op \in DOMAIN receipts /\ receipts'[call[c].op].task = 1,
           \A op \in Operations : told'[op] = 1 => told[op] = 1 \/ (Following(c) /\ op = call[c].op)
    PROVE  IInv'
<1>1. Typed  BY DEF IInv
<1>2. \A op \in Operations : hub[op].runs \in {0, 1} /\ hub'[op].runs \in {0, 1}
  BY <1>1 DEF Typed
<1>3. \A d \in Callers : /\ Submitting(d)' => Submitting(d) /\ call'[d].op = call[d].op
                         /\ Busy(d)' => Busy(d) /\ call'[d].op = call[d].op
                                        /\ call'[d].age = call[d].age
                         /\ call'[d].pc = "admit" => call[d].pc = "admit"
  BY DEF Submitting, Busy
<1>4. \A d \in Callers : Submitting(d) => Busy(d)  BY DEF Submitting, Busy
<1>5. \A d \in Callers : Busy(d) => call[d].op \in Operations  BY <1>1 DEF Typed, Busy
<1>6. \A op \in Operations : Started(op)' => Started(op)
  BY <1>2, <1>3, <1>4 DEF Started
<1>7. Numbered'
  <2>1. ASSUME NEW op \in Operations, hub'[op].runs # 0, hub[op].runs = 0
        PROVE  Busy(c) /\ op = call[c].op
    BY <1>2, <1>4, <2>1
  <2>2. \A op \in Previewed : op[1] > issued => hub'[op].runs = 0
    BY <1>2, <2>1, Limits, OperationFacts DEF IInv, Numbered, Typed
  <2>3. \A op \in Searched : op[1] > searched => hub'[op].runs = 0
    BY <1>2, <2>1, Limits, OperationFacts DEF IInv, Numbered, Typed
  <2> QED BY <1>3, <2>2, <2>3 DEF IInv, Numbered
<1>8. SearchedOnce'
  <2> SUFFICES ASSUME NEW d \in Callers, Busy(d)', call'[d].op \in Searched
               PROVE  /\ \A e \in Callers : Busy(e)' /\ call'[e].op = call'[d].op => e = d
                      /\ call'[d].pc = "admit" => hub'[call'[d].op].runs = 0
    BY DEF SearchedOnce
  <2>1. /\ \A e \in Callers : Busy(e) /\ call[e].op = call[d].op => e = d
        /\ call[d].pc = "admit" => hub[call[d].op].runs = 0
    BY <1>3 DEF IInv, SearchedOnce
  <2>2. call'[d].pc = "admit" => hub'[call'[d].op].runs = 0
    BY <1>2, <1>3, <1>4, <1>5, <2>1 DEF Submitting
  <2> QED BY <1>3, <2>1, <2>2
<1>9. FirstSubmission'
  <2> SUFFICES ASSUME NEW d \in Callers, Submitting(d)'
               PROVE  /\ hub'[call'[d].op].runs = 0
                      /\ \A e \in Callers : Submitting(e)' /\ call'[e].op = call'[d].op => e = d
    BY DEF FirstSubmission
  <2>1. Submitting(d) /\ hub[call[d].op].runs = 0 /\ call[d].op \in Operations
        /\ \A e \in Callers : Submitting(e) /\ call[e].op = call[d].op => e = d
    BY <1>3, <1>4, <1>5 DEF IInv, FirstSubmission
  <2>2. hub'[call[d].op].runs = 0
    BY <1>2, <2>1
  <2> QED BY <1>3, <2>1, <2>2
<1>10. LiveHandles' = LiveHandles  BY DEF LiveHandles
<1>11. Receipted'  BY <1>6, <1>10, OperationFacts DEF IInv, Receipted
<1>12. Admitting'  BY <1>3, <1>6, OperationFacts DEF IInv, Admitting, Busy
<1>13. Tasks'
  <2>1. \A op \in DOMAIN receipts : receipts'[op].task = 1 => hub'[op].runs = 1
    BY <1>1 DEF IInv, Tasks, Typed
  <2>2. \A op \in Operations : told'[op] = 1 => hub'[op].runs = 1
    BY <1>5 DEF IInv, Tasks, Following, Busy
  <2>3. ASSUME NEW d \in Callers, call'[d].pc \in {"record", "top", "listen"}
        PROVE  call'[d].task = 1 /\ hub'[call'[d].op].runs = 1
    <3>1. CASE d = c
      BY <1>3, <2>3, <3>1 DEF Busy
    <3>2. CASE d # c
      BY <1>5, <2>3, <3>2 DEF IInv, Tasks, Busy
    <3> QED BY <3>1, <3>2
  <2> QED BY <2>1, <2>2, <2>3 DEF Tasks
<1>14. Noted'
  <2> SUFFICES ASSUME NEW op \in Previewed,
                      told'[op] = 1 \/ \E d \in Callers : Following(d)' /\ call'[d].op = op,
                      op[1] \in LiveHandles
               PROVE  op \in DOMAIN receipts /\ receipts'[op].task = 1
    BY <1>10 DEF Noted
  <2>1. ASSUME told[op] = 1 \/ \E d \in Callers : Following(d) /\ call[d].op = op
        PROVE  op \in DOMAIN receipts /\ receipts'[op].task = 1
    BY <2>1 DEF IInv, Noted
  <2>2. CASE told'[op] = 1  BY <2>1, <2>2, OperationFacts
  <2>3. ASSUME NEW d \in Callers, Following(d)', call'[d].op = op
        PROVE  op \in DOMAIN receipts /\ receipts'[op].task = 1
    <3>1. CASE d = c  BY <1>3, <2>1, <2>3, <3>1 DEF Following, Busy
    <3>2. CASE d # c  BY <2>1, <2>3, <3>2 DEF Following
    <3> QED BY <3>1, <3>2
  <2> QED BY <2>2, <2>3
<1> QED BY <1>7, <1>8, <1>9, <1>11, <1>12, <1>13, <1>14 DEF IInv

\* The types after a step of one call.
LEMMA TypedStep ==
    ASSUME Typed, NEW c \in Callers, NEW k, CallType(k), k.pc # "idle" => k.op \in Operations,
           call' = [call EXCEPT ![c] = k],
           UNCHANGED <<routed, previews, issued, searched, asked, restarts>>, page' = <<>>,
           DOMAIN receipts' = DOMAIN receipts,
           \A op \in DOMAIN receipts : receipts'[op] \in [age : 0 .. ReceiptTtl, task : {0, 1}],
           hub' \in [Operations -> [runs : {0, 1}, state : {"none", "running", "over"}]],
           told' \in [Operations -> {0, 1}]
    PROVE  Typed' /\ call'[c] = k /\ \A d \in Callers \ {c} : call'[d] = call[d]
<1>1. call = [d \in Callers |-> call[d]]  BY DEF Typed
<1>2. call'[c] = k /\ \A d \in Callers \ {c} : call'[d] = call[d]  BY <1>1
<1>3. call' = [d \in Callers |-> call'[d]]  BY <1>1
<1>4. \A d \in Callers : CallType(call'[d]) /\ (call'[d].pc # "idle" => call'[d].op \in Operations)
  BY <1>2 DEF Typed
<1>5. DOMAIN page' = {}  OBVIOUS
<1> QED BY <1>2, <1>3, <1>4, <1>5 DEF Typed, PreviewShape

\* A call that goes on to another of its steps.
Moved(c, pc, task, reconnects) ==
    [call[c] EXCEPT !.pc = pc, !.task = task, !.reconnects = reconnects]
Becomes(c, k) == call' = [call EXCEPT ![c] = k]

LEMMA MovedFacts ==
    ASSUME Typed, NEW c \in Callers, NEW pc \in Steps, NEW task \in {0, 1},
           NEW reconnects \in 0 .. MaxReconnects
    PROVE  /\ CallType(Moved(c, pc, task, reconnects))
           /\ Moved(c, pc, task, reconnects).pc = pc
           /\ Moved(c, pc, task, reconnects).task = task
           /\ Moved(c, pc, task, reconnects).op = call[c].op
           /\ Moved(c, pc, task, reconnects).age = call[c].age
<1>1. CallType(call[c])  BY DEF Typed
<1> QED BY <1>1 DEF CallType, Moved

\* A call that goes on keeps what the step does not set.
LEMMA GoesMoved ==
    ASSUME Typed, NEW c \in Callers, NEW pc, call' = [call EXCEPT ![c].pc = pc]
    PROVE  Becomes(c, Moved(c, pc, call[c].task, call[c].reconnects))
<1>1. CallType(call[c]) /\ call = [d \in Callers |-> call[d]]  BY DEF Typed
<1>2. Moved(c, pc, call[c].task, call[c].reconnects) = [call[c] EXCEPT !.pc = pc]
  BY <1>1 DEF CallType, Moved
<1> QED BY <1>1, <1>2 DEF Becomes

\* What a call has when a step of it changes neither the receipts nor what was told.
LEMMA OwnFields ==
    ASSUME Typed, NEW c \in Callers
    PROVE  /\ CallType(call[c]) /\ call[c].task \in {0, 1}
           /\ call[c].reconnects \in 0 .. MaxReconnects
           /\ call[c].pc # "idle" => call[c].op \in Operations
BY DEF Typed, CallType

\* A call ends; the operation may have become a task that nobody will hear of.
LEMMA EndStep ==
    ASSUME IInv, NEW c \in Callers, call' = [call EXCEPT ![c] = Idle],
           UNCHANGED <<routed, previews, issued, receipts, searched, asked, restarts>>,
           page' = <<>>,
           \/ hub' = hub
           \/ Submitting(c) /\ \E s \in {"running", "over"} :
                hub' = [hub EXCEPT ![call[c].op] = [runs |-> @.runs + 1, state |-> s]],
           \/ told' = told
           \/ call[c].pc = "top" /\ told' = [told EXCEPT ![call[c].op] = call[c].task]
    PROVE  IInv'
<1>1. Typed  BY DEF IInv
<1>2. Submitting(c) => call[c].op \in Operations /\ hub[call[c].op].runs = 0
  BY <1>1 DEF IInv, FirstSubmission, Submitting, Typed
<1>3. call[c].pc = "top" => call[c].op \in Operations /\ call[c].task = 1
  BY <1>1 DEF IInv, Tasks, Typed
<1>4. /\ hub' \in [Operations -> [runs : {0, 1}, state : {"none", "running", "over"}]]
      /\ \A op \in Operations : /\ hub[op].runs = 1 => hub'[op].runs = 1
                                /\ hub'[op].runs = 1 => \/ hub[op].runs = 1
                                                        \/ Submitting(c) /\ op = call[c].op
  <2>1. CASE hub' = hub  BY <1>1, <2>1 DEF Typed
  <2>2. CASE Submitting(c) /\ \E s \in {"running", "over"} :
                hub' = [hub EXCEPT ![call[c].op] = [runs |-> @.runs + 1, state |-> s]]
    <3>1. PICK s \in {"running", "over"} :
             hub' = [hub EXCEPT ![call[c].op] = [runs |-> @.runs + 1, state |-> s]]
      BY <2>2
    <3>2. hub[call[c].op].runs + 1 = 1  BY <1>2, <2>2
    <3>3. hub' = [hub EXCEPT ![call[c].op] = [runs |-> 1, state |-> s]]  BY <3>1, <3>2
    <3> QED BY <1>1, <1>2, <2>2, <3>3 DEF Typed
  <2> QED BY <2>1, <2>2
<1>5. told' \in [Operations -> {0, 1}]
  BY <1>1, <1>3 DEF Typed
<1>6. \A op \in Operations : told'[op] = 1 => told[op] = 1 \/ (Following(c) /\ op = call[c].op)
  BY <1>1, <1>3 DEF Typed, Following
<1>7. Typed' /\ call'[c] = Idle /\ \A d \in Callers \ {c} : call'[d] = call[d]
  <2>1. \A op \in DOMAIN receipts : receipts'[op] \in [age : 0 .. ReceiptTtl, task : {0, 1}]
    BY <1>1 DEF Typed
  <2> QED BY <1>1, <1>4, <1>5, <2>1, IdleFacts, TypedStep
<1>8. call'[c].pc = "idle" /\ ~Submitting(c)'  BY <1>7, IdleFacts DEF Submitting
<1> QED BY <1>4, <1>6, <1>7, <1>8, TaskStep

LEMMA TaskAdmittedStep == ASSUME IInv, NEW c \in Callers, TaskAdmitted(c) PROVE IInv'
<1> DEFINE op == call[c].op
<1>1. Typed /\ Submitting(c) /\ op \in Operations /\ hub[op].runs = 0 /\ Busy(c)
  BY DEF TaskAdmitted, IInv, FirstSubmission, Submitting, Typed, Busy
<1>2. /\ hub' = [hub EXCEPT ![op] = [runs |-> @.runs + 1, state |-> "running"]]
      /\ call' = [call EXCEPT ![c].pc = "record", ![c].task = hub[op].runs + 1]
      /\ UNCHANGED <<routed, previews, issued, receipts, told, searched, asked, restarts>>
      /\ page' = <<>>
  BY DEF TaskAdmitted, Accepted, Silent
<1>3. hub[op].runs + 1 = 1  BY <1>1
<1>4. hub' = [hub EXCEPT ![op] = [runs |-> 1, state |-> "running"]]  BY <1>2, <1>3
<1>5. /\ hub' \in [Operations -> [runs : {0, 1}, state : {"none", "running", "over"}]]
      /\ \A o \in Operations : /\ hub[o].runs = 1 => hub'[o].runs = 1
                               /\ hub'[o].runs = 1 => hub[o].runs = 1 \/ o = op
      /\ hub'[op].runs = 1
  BY <1>1, <1>4 DEF Typed
<1> DEFINE k == Moved(c, "record", 1, call[c].reconnects)
<1>6. "record" \in Steps  BY DEF Steps
<1>7. /\ CallType(k) /\ k.pc = "record" /\ k.task = 1 /\ k.op = op /\ k.age = call[c].age
  BY <1>1, <1>6, OwnFields, MovedFacts
<1>8. call' = [call EXCEPT ![c] = k]
  <2>1. CallType(call[c]) /\ call = [d \in Callers |-> call[d]]  BY <1>1 DEF Typed
  <2>2. k = [call[c] EXCEPT !.pc = "record", !.task = 1]  BY <2>1 DEF CallType, Moved
  <2> QED BY <1>2, <1>3, <2>1, <2>2
<1> HIDE DEF k
<1>9. Typed' /\ call'[c] = k /\ \A d \in Callers \ {c} : call'[d] = call[d]
  <2>1. \A o \in DOMAIN receipts : receipts'[o] \in [age : 0 .. ReceiptTtl, task : {0, 1}]
    BY <1>1, <1>2 DEF Typed
  <2>2. told' \in [Operations -> {0, 1}]  BY <1>1, <1>2 DEF Typed
  <2> QED BY <1>1, <1>2, <1>5, <1>7, <1>8, <2>1, <2>2, TypedStep
<1>10. ~Submitting(c)'  BY <1>7, <1>9 DEF Submitting
<1> QED BY <1>1, <1>2, <1>5, <1>7, <1>9, <1>10, TaskStep

\* A call that goes on while nothing else changes.
LEMMA OnlyGoes ==
    ASSUME IInv, NEW c \in Callers, NEW pc \in Steps \ {"idle", "admit"},
           NEW reconnects \in 0 .. MaxReconnects, Busy(c),
           Becomes(c, Moved(c, pc, call[c].task, reconnects)),
           pc \in {"submit", "continue"} => Submitting(c),
           pc = "record" => call[c].pc = "record",
           pc \in {"top", "listen"} => Following(c),
           UNCHANGED <<routed, previews, issued, receipts, hub, told, searched, asked, restarts>>,
           page' = <<>>
    PROVE  IInv'
<1> DEFINE k == Moved(c, pc, call[c].task, reconnects)
<1>1. Typed /\ call[c].op \in Operations  BY DEF IInv, Typed, Busy
<1>2. /\ CallType(k) /\ k.pc = pc /\ k.task = call[c].task /\ k.op = call[c].op
      /\ k.age = call[c].age
  BY <1>1, OwnFields, MovedFacts
<1> HIDE DEF k
<1>3. Typed' /\ call'[c] = k /\ \A d \in Callers \ {c} : call'[d] = call[d]
  <2>1. \A o \in DOMAIN receipts : receipts'[o] \in [age : 0 .. ReceiptTtl, task : {0, 1}]
    BY <1>1 DEF Typed
  <2>2. /\ told' \in [Operations -> {0, 1}]
        /\ hub' \in [Operations -> [runs : {0, 1}, state : {"none", "running", "over"}]]
    BY <1>1 DEF Typed
  <2> QED BY <1>1, <1>2, <2>1, <2>2, TypedStep DEF k, Becomes
<1>4. Submitting(c)' => Submitting(c) /\ hub' = hub  BY <1>2, <1>3 DEF Submitting
<1>5. pc \in {"record", "top", "listen"} => call[c].task = 1 /\ hub[call[c].op].runs = 1
  BY DEF IInv, Tasks, Following
<1>6. pc \in {"top", "listen"} => Following(c)  OBVIOUS
<1> QED BY <1>2, <1>3, <1>4, <1>5, <1>6, TaskStep

LEMMA InstructionsStep == ASSUME IInv, NEW c \in Callers, InstructionsRequired(c) PROVE IInv'
<1>1. Typed /\ call[c].pc = "submit" /\ call' = [call EXCEPT ![c].pc = "continue"]
      /\ Busy(c) /\ Submitting(c)
  BY DEF IInv, InstructionsRequired, Goes, Busy, Submitting
<1>2. "continue" \in Steps  BY DEF Steps
<1>3. Becomes(c, Moved(c, "continue", call[c].task, call[c].reconnects))
  BY <1>1, GoesMoved
<1> QED BY <1>1, <1>2, <1>3, OnlyGoes, OwnFields DEF IInv, InstructionsRequired

LEMMA WaitStep == ASSUME IInv, NEW c \in Callers, WaitOn(c) PROVE IInv'
<1>1. Typed /\ call[c].pc = "top" /\ Busy(c) /\ Following(c)
  BY DEF IInv, WaitOn, Busy, Following
<1>2. CASE Goes(c, "listen") /\ UNCHANGED told
  <2>1. "listen" \in Steps  BY DEF Steps
  <2>2. Becomes(c, Moved(c, "listen", call[c].task, call[c].reconnects))
    BY <1>1, <1>2, GoesMoved DEF Goes
  <2> QED BY <1>1, <1>2, <2>1, <2>2, OnlyGoes, OwnFields DEF WaitOn
<1>3. CASE Ends(c) /\ told' = IF call[c].op \in Previewed
                              THEN [told EXCEPT ![call[c].op] = call[c].task] ELSE told
  BY <1>1, <1>3, EndStep DEF WaitOn, Ends
<1> QED BY <1>2, <1>3 DEF WaitOn

LEMMA InterruptedStep == ASSUME IInv, NEW c \in Callers, Interrupted(c) PROVE IInv'
<1>1. Typed /\ call[c].pc = "listen" /\ Busy(c) /\ Following(c)
  BY DEF IInv, Interrupted, Busy, Following
<1>2. CASE /\ call[c].reconnects < MaxReconnects
           /\ call' = [call EXCEPT ![c].pc = "top", ![c].reconnects = @ + 1]
  <2>1. "top" \in Steps  BY DEF Steps
  <2>2. call[c].reconnects + 1 \in 0 .. MaxReconnects
    BY <1>1, <1>2, OwnFields, Limits
  <2>3. call' = [call EXCEPT ![c].pc = "top", ![c].reconnects = call[c].reconnects + 1]
    BY <1>1, <1>2 DEF Typed
  <2>4. Becomes(c, Moved(c, "top", call[c].task, call[c].reconnects + 1))
    <3>1. CallType(call[c]) /\ call = [d \in Callers |-> call[d]]  BY <1>1 DEF Typed
    <3>2. Moved(c, "top", call[c].task, call[c].reconnects + 1)
            = [call[c] EXCEPT !.pc = "top", !.reconnects = call[c].reconnects + 1]
      BY <3>1 DEF CallType, Moved
    <3> QED BY <2>3, <3>1, <3>2 DEF Becomes
  <2> QED BY <1>1, <2>1, <2>2, <2>4, OnlyGoes DEF Interrupted
<1>3. CASE Ends(c)
  BY <1>3, EndStep DEF Interrupted, Ends
<1> QED BY <1>2, <1>3 DEF Interrupted

LEMMA CallEndSteps ==
    ASSUME IInv, NEW c \in Callers,
           SubmissionFails(c) \/ AnsweredAtOnce(c) \/ SubscriptionFails(c) \/ TaskEnds(c)
    PROVE  IInv'
<1>1. CASE SubmissionFails(c)  BY <1>1, EndStep DEF SubmissionFails, Accepted, Ends
<1>2. CASE AnsweredAtOnce(c)  BY <1>2, EndStep DEF AnsweredAtOnce
<1>3. CASE SubscriptionFails(c)  BY <1>3, EndStep DEF SubscriptionFails, Ends
<1>4. CASE TaskEnds(c)  BY <1>4, EndStep DEF TaskEnds
<1> QED BY <1>1, <1>2, <1>3, <1>4

LEMMA RecordStep == ASSUME IInv, NEW c \in Callers, Record(c) PROVE IInv'
<1> DEFINE op == call[c].op
<1>1. /\ Typed /\ call[c].pc = "record" /\ Busy(c) /\ op \in Operations
      /\ call[c].task = 1 /\ hub[op].runs = 1
  BY DEF IInv, Record, Busy, Tasks, Typed
<1>2. /\ receipts' = IF op \in DOMAIN receipts
                     THEN [receipts EXCEPT ![op].task = 1] ELSE receipts
      /\ UNCHANGED <<routed, previews, issued, hub, told, searched, asked, restarts>>
      /\ page' = <<>>
  BY <1>1 DEF Record
<1>3. /\ DOMAIN receipts' = DOMAIN receipts
      /\ \A o \in DOMAIN receipts :
           /\ receipts'[o] \in [age : 0 .. ReceiptTtl, task : {0, 1}]
           /\ receipts'[o].age = receipts[o].age
           /\ receipts[o].task = 1 => receipts'[o].task = 1
           /\ receipts'[o].task = 1 => receipts[o].task = 1 \/ hub[o].runs = 1
      /\ op \in DOMAIN receipts => receipts'[op].task = 1
  BY <1>1, <1>2 DEF Typed
<1>4. /\ told' \in [Operations -> {0, 1}]
      /\ hub' \in [Operations -> [runs : {0, 1}, state : {"none", "running", "over"}]]
  BY <1>1, <1>2 DEF Typed
<1>5. PICK k : /\ CallType(k) /\ (k.pc # "idle" => k.op \in Operations)
               /\ call' = [call EXCEPT ![c] = k]
               /\ \/ k.pc = "idle"
                  \/ /\ k.pc = "top" /\ k.task = 1 /\ k.op = op /\ k.age = call[c].age
                     /\ op \in DOMAIN receipts
  <2>1. CASE op \in DOMAIN receipts /\ Goes(c, "top")
    <3>1. "top" \in Steps  BY DEF Steps
    <3> DEFINE k == Moved(c, "top", call[c].task, call[c].reconnects)
    <3>2. CallType(k) /\ k.pc = "top" /\ k.task = 1 /\ k.op = op /\ k.age = call[c].age
      BY <1>1, <3>1, OwnFields, MovedFacts
    <3>3. call' = [call EXCEPT ![c] = k]  BY <1>1, <2>1, GoesMoved DEF Goes, Becomes, k
    <3> HIDE DEF k
    <3> QED BY <1>1, <2>1, <3>2, <3>3
  <2>2. CASE Ends(c)
    <3>1. call' = [call EXCEPT ![c] = Idle]  BY <2>2 DEF Ends
    <3> QED BY <3>1, IdleFacts
  <2> QED BY <2>1, <2>2 DEF Record
<1>6. Typed' /\ call'[c] = k /\ \A d \in Callers \ {c} : call'[d] = call[d]
  BY <1>1, <1>2, <1>3, <1>4, <1>5, TypedStep
<1>7. ~Submitting(c)'  BY <1>5, <1>6 DEF Submitting
<1> QED BY <1>1, <1>2, <1>3, <1>5, <1>6, <1>7, TaskStep

LEMMA HubFinishesStep == ASSUME IInv, NEW op \in Operations, HubFinishes(op) PROVE IInv'
<1>1. Typed /\ hub' = [hub EXCEPT ![op].state = "over"]
      /\ UNCHANGED <<routed, previews, issued, receipts, call, told, searched, asked, restarts>>
      /\ page' = <<>>
  BY DEF IInv, HubFinishes, Silent
<1>2. /\ hub' \in [Operations -> [runs : {0, 1}, state : {"none", "running", "over"}]]
      /\ \A o \in Operations : hub'[o].runs = hub[o].runs
  BY <1>1 DEF Typed
<1>3. Typed'
  BY <1>1, <1>2 DEF Typed, PreviewShape
<1>4. \A c \in Callers : call[c].pc # "idle" => call[c].op \in Operations  BY <1>1 DEF Typed
<1>5. \A c : /\ Submitting(c)' <=> Submitting(c)
             /\ Busy(c)' <=> Busy(c)
             /\ Following(c)' <=> Following(c)
             /\ Submitting(c) => Busy(c)
  BY <1>1 DEF Submitting, Busy, Following
<1>6. \A o \in Operations : Started(o)' <=> Started(o)  BY <1>1, <1>2, <1>5 DEF Started
<1>7. LiveHandles' = LiveHandles  BY <1>1 DEF LiveHandles
<1>8. Numbered' /\ SearchedOnce' /\ FirstSubmission'
  BY <1>1, <1>2, <1>4, <1>5, OperationFacts
     DEF IInv, Numbered, SearchedOnce, FirstSubmission, Busy
<1>9. Receipted' /\ Admitting' /\ Noted'
  BY <1>1, <1>4, <1>5, <1>6, <1>7, OperationFacts DEF IInv, Receipted, Admitting, Noted
<1>10. Tasks'
  BY <1>1, <1>2, <1>4 DEF IInv, Tasks, Typed
<1> QED BY <1>3, <1>8, <1>9, <1>10 DEF IInv

-----------------------------------------------------------------------------
(* Admission. *)

\* The receipt that keeps an operation from being started again is a live one.
LEMMA LiveFacts ==
    ASSUME IInv
    PROVE  /\ \A op \in Previewed : Started(op) /\ op[1] \in LiveHandles => op \in LiveReceipts
           /\ \A c \in Callers : call[c].pc = "admit" /\ Started(call[c].op) =>
                call[c].op \in LiveReceipts
           /\ \A op \in Operations : hub[op].runs = 1 => Started(op)
<1>1. Typed  BY DEF IInv
<1>2. \A op \in DOMAIN receipts : receipts[op].age \in Nat  BY <1>1 DEF Typed
<1>3. \A h \in DOMAIN previews : previews[h].age \in Nat  BY <1>1 DEF Typed
<1>4. ASSUME NEW op \in Previewed, Started(op), op[1] \in LiveHandles PROVE op \in LiveReceipts
  <2>1. op \in DOMAIN receipts /\ receipts[op].age <= previews[op[1]].age
    BY <1>4 DEF IInv, Receipted
  <2>2. op[1] \in DOMAIN previews /\ previews[op[1]].age < HandleTtl  BY <1>4 DEF LiveHandles
  <2> QED BY <1>2, <1>3, <2>1, <2>2, Limits DEF LiveReceipts
<1>5. ASSUME NEW c \in Callers, call[c].pc = "admit", Started(call[c].op)
      PROVE  call[c].op \in LiveReceipts
  <2>1. call[c].op \in Operations /\ call[c].age \in {0, 1}
    BY <1>1, <1>5 DEF Typed, CallType
  <2>2. CASE call[c].op \in Previewed
    <3>1. call[c].op \in DOMAIN receipts /\ receipts[call[c].op].age < HandleTtl + call[c].age
      BY <1>5, <2>2 DEF IInv, Admitting
    <3> QED BY <1>2, <2>1, <3>1, Limits DEF LiveReceipts
  <2>3. CASE call[c].op \in Searched
    <3>1. hub[call[c].op].runs = 0 /\ Busy(c)
      BY <1>5, <2>3 DEF IInv, SearchedOnce, Busy
    <3>2. PICK d \in Callers : Submitting(d) /\ call[d].op = call[c].op
      BY <1>5, <3>1 DEF Started
    <3>3. d = c
      BY <2>3, <3>1, <3>2 DEF IInv, SearchedOnce, Submitting, Busy
    <3> QED BY <1>5, <3>2, <3>3 DEF Submitting
  <2> QED BY <2>1, <2>2, <2>3, OperationFacts
<1>6. \A op \in Operations : hub[op].runs = 1 => Started(op)  BY DEF Started
<1> QED BY <1>4, <1>5, <1>6

\* Receipts are pruned, and the call goes on or ends, or starts what was not started.
LEMMA AdmitStep == ASSUME IInv, NEW c \in Callers, Admit(c) PROVE IInv'
<1> DEFINE op == call[c].op
           held == op \in LiveReceipts
           task == IF held THEN receipts[op].task ELSE NoTask
           new == ~held /\ call[c].expected = NoTask /\ Cardinality(LiveReceipts) < MaxReceipts
           kept == LiveReceipts \cup (IF new THEN {op} ELSE {})
<1>1. /\ Typed /\ call[c].pc = "admit" /\ Busy(c) /\ op \in Operations
      /\ page' = <<>>
      /\ UNCHANGED <<routed, previews, issued, hub, told, searched, asked, restarts>>
  BY DEF IInv, Admit, Busy, Typed
<1>2. receipts' = [o \in kept |->
                      IF o \in LiveReceipts THEN receipts[o] ELSE [age |-> 0, task |-> NoTask]]
  BY DEF Admit
<1>3. LiveReceipts \subseteq DOMAIN receipts  BY DEF LiveReceipts
<1>4. /\ DOMAIN receipts' = kept
      /\ \A o \in LiveReceipts : receipts'[o] = receipts[o]
      /\ new => receipts'[op].age = 0 /\ receipts'[op].task = 0 /\ op \in kept
      /\ \A o \in kept : receipts'[o] \in [age : 0 .. ReceiptTtl, task : {0, 1}]
  <2>1. \A o \in LiveReceipts : receipts[o] \in [age : 0 .. ReceiptTtl, task : {0, 1}]
    BY <1>1, <1>3 DEF Typed
  <2> QED BY <1>2, <2>1, Limits DEF NoTask
<1>5. new => ~Started(op)  BY <1>1, LiveFacts
<1>6. kept \subseteq Operations /\ Cardinality(kept) <= MaxReceipts
  <2>1. IsFiniteSet(LiveReceipts) /\ Cardinality(LiveReceipts) <= Cardinality(DOMAIN receipts)
    BY <1>1, <1>3, FiniteTables, FS_Subset
  <2>2. Cardinality(DOMAIN receipts) \in Nat /\ Cardinality(LiveReceipts) \in Nat
    BY <1>1, <2>1, FiniteTables, FS_CardinalityType
  <2>3. CASE new
    <3>1. Cardinality(LiveReceipts \cup {op}) = Cardinality(LiveReceipts) + 1
      BY <2>1, <2>3, FS_AddElement
    <3> QED BY <1>1, <1>3, <2>2, <2>3, <3>1, Limits DEF Typed
  <2>4. CASE ~new
    <3>1. kept = LiveReceipts  BY <2>4
    <3> HIDE DEF kept, new
    <3> QED BY <1>1, <1>3, <2>1, <2>2, <3>1, Limits DEF Typed
  <2> QED BY <2>3, <2>4
<1>7. PICK k : /\ CallType(k) /\ (k.pc # "idle" => k.op = op /\ k.age = call[c].age)
               /\ Becomes(c, k)
               /\ \/ new /\ k.pc = "submit"
                  \/ held /\ receipts[op].task = 1 /\ k.pc = "top" /\ k.task = 1
                  \/ ~new /\ k.pc = "idle"
  <2>1. CASE new /\ Goes(c, "submit")
    <3> DEFINE k == Moved(c, "submit", call[c].task, call[c].reconnects)
    <3>1. Becomes(c, k)  BY <1>1, <2>1, GoesMoved DEF Goes
    <3>2. "submit" \in Steps  BY DEF Steps
    <3>3. CallType(k) /\ k.pc = "submit" /\ k.op = op /\ k.age = call[c].age
      BY <1>1, <3>2, OwnFields, MovedFacts
    <3> HIDE DEF k
    <3> QED BY <2>1, <3>1, <3>3
  <2>2. CASE task # NoTask /\ call' = [call EXCEPT ![c].pc = "top", ![c].task = task]
    <3>1. held /\ receipts[op].task = 1 /\ task = 1
      BY <1>1, <1>3, <2>2 DEF Typed, NoTask
    <3> DEFINE k == Moved(c, "top", 1, call[c].reconnects)
    <3>2. "top" \in Steps  BY DEF Steps
    <3>3. CallType(k) /\ k.pc = "top" /\ k.task = 1 /\ k.op = op /\ k.age = call[c].age
      BY <1>1, <3>2, OwnFields, MovedFacts
    <3>4. Becomes(c, k)
      <4>1. CallType(call[c]) /\ call = [d \in Callers |-> call[d]]  BY <1>1 DEF Typed
      <4>2. k = [call[c] EXCEPT !.pc = "top", !.task = 1]  BY <4>1 DEF CallType, Moved
      <4>3. call' = [call EXCEPT ![c].pc = "top", ![c].task = 1]  BY <2>2, <3>1
      <4> QED BY <4>1, <4>2, <4>3 DEF Becomes
    <3> HIDE DEF k
    <3> QED BY <3>1, <3>3, <3>4
  <2>3. CASE ~new /\ Ends(c)
    <3>1. Becomes(c, Idle)  BY <2>3 DEF Ends, Becomes
    <3> QED BY <2>3, <3>1, IdleFacts
  <2> QED BY <2>1, <2>2, <2>3 DEF Admit
<1> HIDE DEF new, held, kept
<1>8. call'[c] = k /\ \A d \in Callers \ {c} : call'[d] = call[d]
  BY <1>1, <1>7 DEF Typed, Becomes
<1>9. Typed'
  <2>1. call' = [d \in Callers |-> call'[d]]  BY <1>1, <1>7 DEF Typed, Becomes
  <2>2. \A d \in Callers : CallType(call'[d]) /\ (call'[d].pc # "idle" => call'[d].op \in Operations)
    BY <1>1, <1>7, <1>8 DEF Typed
  <2>3. DOMAIN page' = {}  BY <1>1
  <2> QED BY <1>1, <1>4, <1>6, <2>1, <2>2, <2>3 DEF Typed, PreviewShape
<1>10. \A d \in Callers : Busy(d)' => Busy(d) /\ call'[d].op = call[d].op
                                      /\ call'[d].age = call[d].age
  BY <1>1, <1>7, <1>8 DEF Busy
<1>11. \A d \in Callers : Busy(d) => call[d].op \in Operations  BY <1>1 DEF Typed, Busy
<1>12. /\ \A d \in Callers : Submitting(d)' => Busy(d)' /\ (Submitting(d) \/ (d = c /\ new))
       /\ \A d \in Callers : Submitting(d) => Submitting(d)' /\ d # c /\ Busy(d)
  BY <1>1, <1>7, <1>8 DEF Submitting, Busy
<1>13. \A o \in Operations : Started(o)' => Started(o) \/ (o = op /\ new)
  BY <1>1, <1>10, <1>12 DEF Started
<1>14. LiveHandles' = LiveHandles  BY <1>1 DEF LiveHandles
<1>15. \A d \in Callers : call'[d].pc = "admit" => d # c /\ call[d].pc = "admit"
  BY <1>7, <1>8
<1>16. new => op \in kept  BY <1>4
<1>17. LiveReceipts \subseteq kept  BY DEF kept
<1>18. Numbered'  BY <1>1, <1>10 DEF IInv, Numbered
<1>19. SearchedOnce'
  BY <1>1, <1>8, <1>10, <1>15 DEF IInv, SearchedOnce
<1>20. FirstSubmission'
  <2> SUFFICES ASSUME NEW d \in Callers, Submitting(d)'
               PROVE  /\ hub[call'[d].op].runs = 0
                      /\ \A e \in Callers : Submitting(e)' /\ call'[e].op = call'[d].op => e = d
    BY <1>1 DEF FirstSubmission
  <2>1. CASE d = c /\ new
    <3>1. call'[c].op = op /\ hub[op].runs = 0
      BY <1>1, <1>5, <1>10, <1>12, <2>1 DEF Started, Typed
    <3>2. \A e \in Callers : Submitting(e)' /\ call'[e].op = op => e = c
      BY <1>5, <1>10, <1>12, <2>1 DEF Started
    <3> QED BY <2>1, <3>1, <3>2
  <2>2. CASE Submitting(d)
    <3>1. call'[d].op = call[d].op /\ hub[call[d].op].runs = 0
      BY <1>10, <1>12, <2>2 DEF IInv, FirstSubmission
    <3>2. ASSUME NEW e \in Callers, Submitting(e)', call'[e].op = call[d].op PROVE e = d
      <4>1. call'[e].op = call[e].op  BY <1>10, <1>12, <3>2
      <4>2. ~(e = c /\ new)  BY <1>5, <2>2, <3>2, <4>1 DEF Started
      <4> QED BY <1>12, <2>2, <3>2, <4>1, <4>2 DEF IInv, FirstSubmission
    <3> QED BY <3>1, <3>2
  <2> QED BY <1>12, <2>1, <2>2
<1>21. Receipted'
  <2> SUFFICES ASSUME NEW o \in Previewed, o[1] \in LiveHandles, Started(o)'
               PROVE  o \in kept /\ receipts'[o].age <= previews[o[1]].age
    BY <1>1, <1>4, <1>14 DEF Receipted
  <2>1. previews[o[1]].age \in Nat  BY <1>1 DEF Typed, LiveHandles
  <2>2. CASE o = op /\ new  BY <1>4, <1>16, <2>1, <2>2
  <2>3. CASE Started(o)
    <3>1. o \in LiveReceipts  BY <2>3, LiveFacts
    <3> QED BY <1>4, <1>17, <2>3, <3>1 DEF IInv, Receipted
  <2> QED BY <1>13, <2>2, <2>3, OperationFacts
<1>22. Admitting'
  <2> SUFFICES ASSUME NEW d \in Callers, call'[d].pc = "admit", call'[d].op \in Previewed,
                      Started(call[d].op)'
               PROVE  /\ call'[d].op \in kept
                      /\ receipts'[call'[d].op].age < HandleTtl + call'[d].age
    BY <1>4 DEF Admitting
  <2>1. /\ d # c /\ call[d].pc = "admit" /\ call'[d] = call[d] /\ call[d].op \in Operations
        /\ call[d].age \in {0, 1}
    BY <1>1, <1>8, <1>15 DEF Typed, CallType
  <2>2. CASE call[d].op = op /\ new
    <3>1. receipts'[op].age = 0 /\ op \in kept /\ call'[d].op = op  BY <1>4, <2>1, <2>2
    <3> QED BY <2>1, <3>1, Limits
  <2>3. CASE Started(call[d].op)
    <3>1. call[d].op \in LiveReceipts  BY <2>1, <2>3, LiveFacts
    <3>2. receipts[call[d].op].age < HandleTtl + call[d].age
      BY <2>1, <2>3 DEF IInv, Admitting
    <3> QED BY <1>4, <1>17, <2>1, <3>1, <3>2
  <2>4. Started(call[d].op) \/ (call[d].op = op /\ new)
    <3>1. Started(call[d].op)' <=> hub[call[d].op].runs > 0
                                    \/ \E e \in Callers : Submitting(e)' /\ call'[e].op = call[d].op
      BY <1>1, <2>1 DEF Started
    <3> QED BY <1>1, <1>10, <1>12, <2>1, <3>1 DEF Started
  <2> QED BY <2>2, <2>3, <2>4
<1>23. Tasks'
  <2>1. \A o \in kept : receipts'[o].task = 1 => o \in LiveReceipts
    BY <1>4 DEF kept, new
  <2>2. \A o \in DOMAIN receipts' : receipts'[o].task = 1 => hub[o].runs = 1
    BY <1>3, <1>4, <2>1 DEF IInv, Tasks
  <2>3. ASSUME NEW d \in Callers, call'[d].pc \in {"record", "top", "listen"}
        PROVE  call'[d].task = 1 /\ hub[call'[d].op].runs = 1
    <3>1. CASE d = c  BY <1>3, <1>7, <1>8, <2>3, <3>1 DEF IInv, Tasks, held
    <3>2. CASE d # c  BY <1>8, <2>3, <3>2 DEF IInv, Tasks
    <3> QED BY <3>1, <3>2
  <2> QED BY <1>1, <2>2, <2>3 DEF IInv, Tasks
<1>24. Noted'
  <2> SUFFICES ASSUME NEW o \in Previewed,
                      told[o] = 1 \/ \E d \in Callers : Following(d)' /\ call'[d].op = o,
                      o[1] \in LiveHandles
               PROVE  o \in kept /\ receipts'[o].task = 1
    BY <1>1, <1>4, <1>14 DEF Noted
  <2>1. ASSUME told[o] = 1 \/ \E d \in Callers : Following(d) /\ call[d].op = o
        PROVE  o \in kept /\ receipts'[o].task = 1
    <3>1. o \in DOMAIN receipts /\ receipts[o].task = 1  BY <2>1 DEF IInv, Noted
    <3>2. hub[o].runs = 1  BY <3>1 DEF IInv, Tasks
    <3>3. o \in LiveReceipts  BY <3>2, OperationFacts, LiveFacts
    <3> QED BY <1>4, <1>17, <3>1, <3>3
  <2>2. ASSUME NEW d \in Callers, Following(d)', call'[d].op = o
        PROVE  o \in kept /\ receipts'[o].task = 1
    <3>1. CASE d = c
      <4>1. o = op /\ held /\ receipts[op].task = 1
        BY <1>7, <1>8, <2>2, <3>1 DEF Following
      <4> QED BY <1>4, <1>17, <4>1 DEF held
    <3>2. CASE d # c  BY <1>8, <2>1, <2>2, <3>2 DEF Following
    <3> QED BY <3>1, <3>2
  <2> QED BY <2>1, <2>2
<1> QED BY <1>9, <1>18, <1>19, <1>20, <1>21, <1>22, <1>23, <1>24 DEF IInv

-----------------------------------------------------------------------------
(* New calls and new handles. *)

\* Handles go, or come with new numbers; nothing else changes but what was asked.
LEMMA PreviewsStep ==
    ASSUME IInv, Typed', UNCHANGED <<receipts, call, hub, told, searched>>,
           issued' >= issued,
           \A h \in LiveHandles' : \/ h > issued
                                   \/ h \in LiveHandles /\ previews'[h].age = previews[h].age
    PROVE  IInv'
<1>1. Typed  BY DEF IInv
<1>2. \A c \in Callers : call[c].pc # "idle" => call[c].op \in Operations  BY <1>1 DEF Typed
<1>3. \A c : /\ Submitting(c)' <=> Submitting(c)
             /\ Busy(c)' <=> Busy(c)
             /\ Following(c)' <=> Following(c)
             /\ Submitting(c) \/ Following(c) => Busy(c)
  BY DEF Submitting, Busy, Following
<1>4. \A o : Started(o)' <=> Started(o)  BY <1>3 DEF Started
<1>5. \A o \in Previewed : o[1] \in Nat /\ issued \in Nat /\ issued' \in Nat
  BY <1>1, OperationFacts DEF Typed
<1>6. Numbered'
  <2>1. \A c \in Callers : Busy(c) /\ call[c].op \in Previewed => call[c].op[1] <= issued'
    BY <1>5 DEF IInv, Numbered
  <2> QED BY <1>3, <1>5, <2>1 DEF IInv, Numbered
<1>7. SearchedOnce' /\ FirstSubmission' /\ Tasks'
  BY <1>3 DEF IInv, SearchedOnce, FirstSubmission, Tasks
<1>8. Admitting'  BY <1>4 DEF IInv, Admitting
<1>9. \A o \in Previewed : o[1] > issued =>
        /\ ~Started(o) /\ told[o] # 1 /\ \A c \in Callers : Busy(c) => call[c].op # o
  <2> SUFFICES ASSUME NEW o \in Previewed, o[1] > issued
               PROVE  /\ ~Started(o) /\ told[o] # 1
                      /\ \A c \in Callers : Busy(c) => call[c].op # o
    OBVIOUS
  <2>1. hub[o].runs = 0  BY DEF IInv, Numbered
  <2>2. \A c \in Callers : Busy(c) => call[c].op # o  BY <1>5 DEF IInv, Numbered
  <2>3. told[o] # 1  BY <2>1, OperationFacts DEF IInv, Tasks
  <2> QED BY <1>3, <2>1, <2>2, <2>3 DEF Started
<1>10. Receipted'
  <2> SUFFICES ASSUME NEW o \in Previewed, o[1] \in LiveHandles', Started(o)
               PROVE  o \in DOMAIN receipts /\ receipts[o].age <= previews'[o[1]].age
    BY <1>4 DEF Receipted
  <2> QED BY <1>9 DEF IInv, Receipted
<1>11. Noted'
  <2> SUFFICES ASSUME NEW o \in Previewed,
                      told[o] = 1 \/ \E c \in Callers : Following(c) /\ call[c].op = o,
                      o[1] \in LiveHandles'
               PROVE  o \in DOMAIN receipts /\ receipts[o].task = 1
    BY <1>3 DEF Noted
  <2> QED BY <1>3, <1>9 DEF IInv, Noted
<1> QED BY <1>6, <1>7, <1>8, <1>10, <1>11 DEF IInv

\* A call begins: for a live handle, or for a search that nobody has asked for.
LEMMA BeginStep ==
    ASSUME IInv, Typed', NEW c \in Callers, call[c].pc = "idle",
           \A d \in Callers \ {c} : call'[d] = call[d],
           call'[c].pc = "admit", call'[c].age = 0,
           \/ call'[c].op \in Previewed /\ call'[c].op[1] \in LiveHandles /\ searched' = searched
           \/ /\ call'[c].op \in Searched /\ call'[c].op[1] = searched + 1
              /\ searched' = searched + 1,
           UNCHANGED <<issued, receipts, hub, told>>,
           LiveHandles' = LiveHandles,
           \A h \in LiveHandles : previews'[h].age = previews[h].age
    PROVE  IInv'
<1>1. Typed /\ issued \in Nat /\ searched \in Nat  BY DEF IInv, Typed
<1>2. \A d \in Callers : call[d].pc # "idle" => call[d].op \in Operations  BY <1>1 DEF Typed
<1>3. /\ \A d \in Callers : Submitting(d)' <=> Submitting(d)
      /\ \A d \in Callers : Following(d)' <=> Following(d)
      /\ \A d \in Callers \ {c} : Busy(d)' <=> Busy(d)
      /\ \A d \in Callers : Submitting(d) \/ Following(d) => Busy(d) /\ d # c
  BY DEF Submitting, Busy, Following
<1>4. \A o : Started(o)' <=> Started(o)
  <2>1. \A d \in Callers : Submitting(d) => call'[d].op = call[d].op  BY <1>3
  <2> QED BY <1>3, <2>1 DEF Started
<1>5. \A h \in LiveHandles : h \in Nat /\ h <= issued
  BY <1>1 DEF LiveHandles, Typed
<1>6. call'[c].op \in Searched =>
        hub[call'[c].op].runs = 0 /\ \A d \in Callers : Busy(d) => call[d].op # call'[c].op
  <2> SUFFICES ASSUME call'[c].op \in Searched
               PROVE  /\ hub[call'[c].op].runs = 0
                      /\ \A d \in Callers : Busy(d) => call[d].op # call'[c].op
    OBVIOUS
  <2>1. call'[c].op[1] = searched + 1 /\ call'[c].op \notin Previewed  BY OperationFacts
  <2>2. hub[call'[c].op].runs = 0  BY <1>1, <2>1 DEF IInv, Numbered
  <2> QED BY <1>1, <2>1, <2>2 DEF IInv, Numbered
<1>7. Numbered'
  <2>1. \A o \in Searched : o[1] > searched' => hub[o].runs = 0
    BY <1>1, OperationFacts DEF IInv, Numbered
  <2>2. ASSUME NEW d \in Callers, Busy(d)'
        PROVE  call'[d].op[1] <= IF call'[d].op \in Previewed THEN issued ELSE searched'
    <3>1. CASE d = c
      BY <1>1, <1>5, <3>1, OperationFacts
    <3>2. CASE d # c
      <4>1. call[d].op[1] <= IF call[d].op \in Previewed THEN issued ELSE searched
        BY <1>3, <2>2, <3>2 DEF IInv, Numbered
      <4>2. call[d].op \in Operations /\ call[d].op[1] \in Nat
        BY <1>2, <1>3, <2>2, <3>2, OperationFacts, Limits DEF Busy
      <4> QED BY <1>1, <3>2, <4>1, <4>2
    <3> QED BY <3>1, <3>2
  <2> QED BY <2>1, <2>2 DEF IInv, Numbered
<1>8. SearchedOnce'
  <2> SUFFICES ASSUME NEW d \in Callers, Busy(d)', call'[d].op \in Searched
               PROVE  /\ \A e \in Callers : Busy(e)' /\ call'[e].op = call'[d].op => e = d
                      /\ call'[d].pc = "admit" => hub[call'[d].op].runs = 0
    BY DEF SearchedOnce
  <2>1. CASE d = c  BY <1>3, <1>6, <2>1
  <2>2. CASE d # c
    <3>1. /\ \A e \in Callers : Busy(e) /\ call[e].op = call[d].op => e = d
          /\ call[d].pc = "admit" => hub[call[d].op].runs = 0
      BY <1>3, <2>2 DEF IInv, SearchedOnce
    <3>2. call'[c].op # call[d].op  BY <1>3, <1>6, <2>2
    <3> QED BY <1>3, <2>2, <3>1, <3>2
  <2> QED BY <2>1, <2>2
<1>9. FirstSubmission'
  <2>1. \A d \in Callers : Submitting(d) => call'[d].op = call[d].op  BY <1>3
  <2> QED BY <1>3, <2>1 DEF IInv, FirstSubmission
<1>10. Receipted'  BY <1>4 DEF IInv, Receipted
<1>11. Admitting'
  <2> SUFFICES ASSUME NEW d \in Callers, call'[d].pc = "admit", call'[d].op \in Previewed,
                      Started(call[d].op)'
               PROVE  /\ call'[d].op \in DOMAIN receipts
                      /\ receipts[call'[d].op].age < HandleTtl + call'[d].age
    BY DEF Admitting
  <2>1. PICK o : o = call'[d].op  OBVIOUS
  <2>2. Started(o)'
    <3>1. hub[o].runs > 0 \/ \E e \in Callers : Submitting(e)' /\ call'[e].op = o
      BY <2>1 DEF Started
    <3> QED BY <3>1 DEF Started
  <2>3. Started(o)  BY <1>4, <2>2
  <2>4. CASE d = c
    <3>1. o \in Previewed /\ o[1] \in LiveHandles  BY <2>1, <2>4, OperationFacts
    <3>2. o \in DOMAIN receipts /\ receipts[o].age <= previews[o[1]].age
      BY <2>3, <3>1 DEF IInv, Receipted
    <3>3. receipts[o].age \in Nat /\ previews[o[1]].age \in Nat /\ previews[o[1]].age < HandleTtl
      BY <1>1, <3>1, <3>2 DEF Typed, LiveHandles
    <3> QED BY <2>1, <2>4, <3>2, <3>3, Limits
  <2>5. CASE d # c  BY <2>1, <2>3, <2>5 DEF IInv, Admitting
  <2> QED BY <2>4, <2>5
<1>12. Tasks'
  <2>1. \A d \in Callers : call'[d].pc \in {"record", "top", "listen"} => d # c  OBVIOUS
  <2> QED BY <2>1 DEF IInv, Tasks
<1>13. Noted'
  <2>1. \A d \in Callers : Following(d) => call'[d].op = call[d].op  BY <1>3
  <2> QED BY <1>3, <2>1 DEF IInv, Noted
<1> QED BY <1>7, <1>8, <1>9, <1>10, <1>11, <1>12, <1>13 DEF IInv

\* A new call and what it asks for.
NewCall(op, expected, target) ==
    [Idle EXCEPT !.pc = "admit", !.op = op, !.target = target, !.expected = expected]
Fresh(pc, op, expected, target) ==
    [pc |-> pc, op |-> op, expected |-> expected, task |-> 0,
     reconnects |-> 0, age |-> 0, target |-> target]

LEMMA NewCallFresh ==
    ASSUME NEW op, NEW expected, NEW target
    PROVE  /\ NewCall(op, expected, target) = Fresh("admit", op, expected, target)
           /\ [Idle EXCEPT !.pc = "admit", !.op = op] = Fresh("admit", op, 0, {})
<1> DEFINE k1 == [Idle EXCEPT !.pc = "admit"]
           k2 == [k1 EXCEPT !.op = op]
           k3 == [k2 EXCEPT !.target = target]
           k4 == [k3 EXCEPT !.expected = expected]
<1>1. PICK op0 : Idle = Fresh("idle", op0, 0, {})  BY DEF Idle, Fresh, NoTask
<1>2. k1 = Fresh("admit", op0, 0, {})  BY <1>1 DEF Fresh
<1> HIDE DEF k1
<1>3. k2 = Fresh("admit", op, 0, {})  BY <1>2 DEF Fresh
<1> HIDE DEF k2
<1>4. k3 = Fresh("admit", op, 0, target)  BY <1>3 DEF Fresh
<1> HIDE DEF k3
<1>5. k4 = Fresh("admit", op, expected, target)  BY <1>4 DEF Fresh
<1>6. NewCall(op, expected, target) = k4  BY DEF NewCall, k1, k2, k3, k4
<1>7. [Idle EXCEPT !.pc = "admit", !.op = op] = k2  BY DEF k1, k2
<1> QED BY <1>3, <1>5, <1>6, <1>7

LEMMA NewCallType ==
    ASSUME NEW op \in Operations, NEW expected \in {0, 1}, NEW target
    PROVE  /\ CallType(NewCall(op, expected, target))
           /\ NewCall(op, expected, target).pc = "admit"
           /\ NewCall(op, expected, target).op = op
           /\ NewCall(op, expected, target).age = 0
<1>1. NewCall(op, expected, target) = Fresh("admit", op, expected, target)  BY NewCallFresh
<1>2. CallType(Fresh("admit", op, expected, target))
  BY Limits DEF CallType, Fresh, Steps
<1> QED BY <1>1, <1>2 DEF Fresh

LEMMA SearchStep == ASSUME IInv, NEW c \in Callers, Search(c) PROVE IInv'
<1> DEFINE op == <<searched + 1, "search">>
           k == NewCall(op, 0, {})
<1>1. /\ Typed /\ call[c].pc = "idle" /\ searched' = searched + 1 /\ asked' = asked + 1
      /\ asked < MaxCalls /\ searched < MaxSearches
      /\ call' = [call EXCEPT ![c] = [Idle EXCEPT !.pc = "admit", !.op = op]]
      /\ UNCHANGED <<routed, previews, issued, receipts, hub, told, restarts>> /\ page' = <<>>
  BY DEF IInv, Search, Silent
<1>2. searched + 1 \in 1 .. MaxSearches  BY <1>1, Limits DEF Typed
<1>3. op \in Searched /\ op \in Operations /\ op[1] = searched + 1
  BY <1>2, OperationFacts
<1>4. CallType(k) /\ k.pc = "admit" /\ k.op = op /\ k.age = 0
  <2>1. 0 \in {0, 1}  OBVIOUS
  <2> HIDE DEF op
  <2> QED BY <1>3, <2>1, NewCallType
<1>5. k = [Idle EXCEPT !.pc = "admit", !.op = op]
  <2> HIDE DEF op
  <2>1. k = Fresh("admit", op, 0, {})  BY NewCallFresh
  <2>2. [Idle EXCEPT !.pc = "admit", !.op = op] = Fresh("admit", op, 0, {})  BY NewCallFresh, Zenon
  <2> QED BY <2>1, <2>2
<1> HIDE DEF k, op
<1>6. call'[c] = k /\ (\A d \in Callers \ {c} : call'[d] = call[d])
      /\ call' = [d \in Callers |-> call'[d]]
  BY <1>1, <1>5 DEF Typed
<1>7. Typed'
  <2>1. \A d \in Callers : CallType(call'[d]) /\ (call'[d].pc # "idle" => call'[d].op \in Operations)
    BY <1>1, <1>3, <1>4, <1>6 DEF Typed
  <2>2. searched' \in 0 .. MaxSearches /\ asked' \in 0 .. MaxCalls
    BY <1>1, Limits DEF Typed
  <2>3. DOMAIN page' = {}  BY <1>1
  <2> QED BY <1>1, <1>6, <2>1, <2>2, <2>3 DEF Typed, PreviewShape
<1>8. LiveHandles' = LiveHandles  BY <1>1 DEF LiveHandles
<1> QED BY <1>1, <1>3, <1>4, <1>6, <1>7, <1>8, BeginStep

LEMMA PreviewStep ==
    ASSUME IInv, NEW c \in Callers, NEW h \in 1 .. MaxIssued, NEW view \in Views,
           NEW continued \in BOOLEAN, Preview(c, h, view, continued)
    PROVE  IInv'
<1> DEFINE op == <<h, view>>
           expected == IF continued THEN told[op] ELSE NoTask
           target == {[previews[h] EXCEPT !.age = 0]}
           k == NewCall(op, expected, target)
<1>1. /\ Typed /\ call[c].pc = "idle" /\ asked < MaxCalls /\ asked' = asked + 1
      /\ previews' = Only(LiveHandles, previews)
      /\ UNCHANGED <<routed, issued, receipts, hub, told, searched, restarts>> /\ page' = <<>>
  BY DEF IInv, Preview
<1>2. /\ previews' = [g \in LiveHandles |-> previews[g]]
      /\ LiveHandles \subseteq DOMAIN previews
  <2>1. DOMAIN previews \cap LiveHandles = LiveHandles  BY DEF LiveHandles
  <2> QED BY <1>1, <2>1 DEF Only
<1>3. LiveHandles' = LiveHandles /\ \A g \in LiveHandles : previews'[g] = previews[g]
  <2>1. \A g \in LiveHandles : previews[g].age < HandleTtl  BY DEF LiveHandles
  <2> QED BY <1>2, <2>1 DEF LiveHandles
<1>4. /\ DOMAIN previews' = LiveHandles
      /\ DOMAIN previews' \subseteq 1 .. issued /\ Cardinality(DOMAIN previews') <= MaxHandles
      /\ \A g \in DOMAIN previews' :
           /\ previews'[g].age \in 0 .. HandleTtl /\ previews'[g].entry \in Entries
           /\ PreviewShape(previews'[g])
  <2>1. Cardinality(LiveHandles) <= Cardinality(DOMAIN previews)
    BY <1>1, <1>2, FiniteTables, FS_Subset
  <2>2. Cardinality(LiveHandles) \in Nat /\ Cardinality(DOMAIN previews) \in Nat
    BY <1>1, <1>2, FiniteTables, FS_Subset, FS_CardinalityType
  <2>3. Cardinality(LiveHandles) <= MaxHandles  BY <1>1, <2>1, <2>2, Limits DEF Typed
  <2> QED BY <1>1, <1>2, <2>3 DEF Typed
<1>5. asked' \in 0 .. MaxCalls /\ DOMAIN page' = {}  BY <1>1, Limits DEF Typed
<1>6. CASE call' = call
  <2>1. Typed'
    BY <1>1, <1>4, <1>5, <1>6 DEF Typed, PreviewShape
  <2>2. issued \in Nat  BY <1>1 DEF Typed
  <2> QED BY <1>1, <1>3, <1>6, <2>1, <2>2, PreviewsStep
<1>7. CASE h \in LiveHandles /\ call' = [call EXCEPT ![c] = k]
  <2>1. op \in Previewed /\ op \in Operations /\ op[1] = h  BY OperationFacts
  <2>2. expected \in {0, 1}  BY <1>1, <2>1 DEF Typed, NoTask
  <2> HIDE DEF expected, target, op
  <2>3. CallType(k) /\ k.pc = "admit" /\ k.op = op /\ k.age = 0  BY <2>1, <2>2, NewCallType
  <2> HIDE DEF k
  <2>4. call'[c] = k /\ (\A d \in Callers \ {c} : call'[d] = call[d])
        /\ call' = [d \in Callers |-> call'[d]]
    BY <1>1, <1>7 DEF Typed
  <2>5. \A d \in Callers : CallType(call'[d]) /\ (call'[d].pc # "idle" => call'[d].op \in Operations)
    BY <1>1, <2>1, <2>3, <2>4 DEF Typed
  <2>6. Typed'
    BY <1>1, <1>4, <1>5, <2>4, <2>5 DEF Typed
  <2> QED BY <1>1, <1>3, <1>7, <2>1, <2>3, <2>4, <2>6, BeginStep
<1>8. k = [Idle EXCEPT !.pc = "admit", !.op = op, !.target = target, !.expected = expected]
  BY DEF NewCall
<1> QED BY <1>6, <1>7, <1>8 DEF Preview

-----------------------------------------------------------------------------
(* A reply that lists files. *)

Before(S, i) == {j \in S : j < i}
FirstFew(S, n) == {i \in S : Cardinality(Before(S, i)) < n}

LEMMA BeforeCount ==
    ASSUME NEW S \in SUBSET Nat, IsFiniteSet(S)
    PROVE  /\ \A i \in S : Cardinality(Before(S, i)) \in Nat
           /\ \A i, k \in S : i < k => Cardinality(Before(S, i)) < Cardinality(Before(S, k))
<1>1. \A i : IsFiniteSet(Before(S, i)) /\ Cardinality(Before(S, i)) \in Nat
  BY FS_Subset, FS_CardinalityType DEF Before
<1>2. ASSUME NEW i \in S, NEW k \in S, i < k
      PROVE  Cardinality(Before(S, i)) < Cardinality(Before(S, k))
  <2>1. /\ Before(S, i) \in SUBSET Before(S, k)
        /\ i \in Before(S, k) /\ i \notin Before(S, i)
    <3>1. i \in Nat /\ k \in Nat /\ \A j \in S : j \in Nat /\ (j < i => j < k)
      BY <1>2
    <3>2. \A j \in Before(S, i) : j \in Before(S, k)  BY <3>1 DEF Before
    <3>3. i \in Before(S, k) /\ i \notin Before(S, i)  BY <1>2, <3>1 DEF Before
    <3> QED BY <3>2, <3>3
  <2>2. /\ Cardinality(Before(S, i)) <= Cardinality(Before(S, k))
        /\ Cardinality(Before(S, i)) # Cardinality(Before(S, k))
    BY <1>1, <2>1, FS_Subset
  <2> QED BY <1>1, <2>2
<1> QED BY <1>1, <1>2

\* The members of a set with fewer than n before them are at most n.
LEMMA FirstFewCount ==
    ASSUME NEW S \in SUBSET Nat, IsFiniteSet(S), NEW n \in Nat
    PROVE  /\ IsFiniteSet(FirstFew(S, n))
           /\ Cardinality(FirstFew(S, n)) \in Nat /\ Cardinality(FirstFew(S, n)) <= n
<1> DEFINE F == FirstFew(S, n)
           rank == [i \in F |-> Cardinality(Before(S, i))]
<1>1. F \subseteq S /\ \A i \in F : Cardinality(Before(S, i)) < n  BY DEF FirstFew
<1>2. IsFiniteSet(F) /\ Cardinality(F) \in Nat
  BY <1>1, FS_Subset, FS_CardinalityType
<1> HIDE DEF F
<1>3. \A i \in F : rank[i] \in 0 .. n - 1  BY <1>1, BeforeCount
<1>4. \A i, k \in F : rank[i] = rank[k] => i = k
  <2>1. \A i, k \in F : i < k => rank[i] < rank[k]  BY <1>1, BeforeCount
  <2>2. \A i \in F : i \in Nat  BY <1>1
  <2> HIDE DEF rank
  <2> QED BY <1>3, <2>1, <2>2
<1>5. rank \in Injection(F, 0 .. n - 1)
  <2>1. rank \in [F -> 0 .. n - 1]  BY <1>3
  <2> HIDE DEF rank
  <2> QED BY <1>4, <2>1 DEF Injection, IsInjective
<1>6. IsFiniteSet(0 .. n - 1) /\ Cardinality(0 .. n - 1) = n  BY FS_Interval
<1>7. Cardinality(F) <= n  BY <1>5, <1>6, FS_Injection
<1> QED BY <1>2, <1>7 DEF F

LEMMA IssueStep == ASSUME IInv, NEW batch \in Batches, IssueHandles(batch) PROVE IInv'
<1> DEFINE E == Eligible(batch)
           R == Reserved(batch)
           first == {i \in E : Cardinality({j \in E : j < i}) < R}
           count(i) == Cardinality({j \in first : j <= i})
           handle == [i \in first |-> issued + count(i)]
           handles == {handle[i] : i \in first}
           entry(h) == batch[CHOOSE i \in first : handle[i] = h]
<1>1. /\ Typed /\ issued + R <= MaxIssued
      /\ issued' = issued + Cardinality(first)
      /\ page' = [i \in DOMAIN batch |-> IF i \in first THEN handle[i] ELSE 0]
      /\ UNCHANGED <<routed, receipts, call, hub, told, searched, asked, restarts>>
  BY DEF IInv, IssueHandles
<1>2. PICK kept \in Survivors(batch) :
         previews' = [h \in kept \cup handles |->
                        IF h \in kept THEN previews[h] ELSE NewPreview(entry(h))]
  BY DEF IssueHandles
<1>3. IsFiniteSet(DOMAIN batch) /\ DOMAIN batch \subseteq Nat /\ E \subseteq DOMAIN batch
  <2>1. batch \in Seq(Range(batch))  BY BatchesAssumption
  <2>2. DOMAIN batch = 1 .. Len(batch) /\ Len(batch) \in Nat  BY <2>1
  <2>3. IsFiniteSet(1 .. Len(batch))  BY <2>2, FS_Interval
  <2> QED BY <2>2, <2>3 DEF Eligible
<1>4. IsFiniteSet(E) /\ E \subseteq Nat /\ Cardinality(E) \in Nat
  BY <1>3, FS_Subset, FS_CardinalityType
<1>5. R \in Nat /\ R <= MaxHandles  BY <1>4, Limits DEF Reserved, Smaller
<1>6. first = FirstFew(E, R)  BY DEF FirstFew, Before
<1>7. /\ IsFiniteSet(first) /\ first \subseteq E
      /\ Cardinality(first) \in Nat /\ Cardinality(first) <= R
  <2> HIDE DEF E, R, first
  <2>1. first \subseteq E  BY <1>6 DEF FirstFew
  <2> QED BY <1>4, <1>5, <1>6, <2>1, FirstFewCount
<1> HIDE DEF E, R
<1>8. issued \in Nat /\ issued' \in 0 .. MaxIssued /\ issued' >= issued
  BY <1>1, <1>5, <1>7, Limits DEF Typed
<1>9. \A i \in first : count(i) \in 1 .. Cardinality(first)
  <2> SUFFICES ASSUME NEW i \in first PROVE count(i) \in 1 .. Cardinality(first)
    OBVIOUS
  <2> DEFINE upto == {j \in first : j <= i}
  <2>1. i \in Nat  BY <1>4, <1>7
  <2>2. upto \subseteq first /\ i \in upto  BY <2>1
  <2> HIDE DEF first, upto
  <2>3. IsFiniteSet(upto) /\ Cardinality(upto) <= Cardinality(first)  BY <1>7, <2>2, FS_Subset
  <2>4. Cardinality(upto) \in Nat /\ Cardinality(upto) # 0
    BY <2>2, <2>3, FS_CardinalityType, FS_EmptySet
  <2>5. count(i) = Cardinality(upto)  BY DEF upto
  <2> QED BY <1>7, <2>3, <2>4, <2>5
<1> HIDE DEF first, count
<1>10. handles \subseteq (issued + 1) .. issued'
  BY <1>1, <1>7, <1>8, <1>9
<1>11. \A i \in first : handle[i] \in handles /\ handle[i] \in 1 .. issued'
  BY <1>8, <1>10
<1>12. \A h \in handles : entry(h) \in Entries
  <2> SUFFICES ASSUME NEW h \in handles PROVE entry(h) \in Entries
    OBVIOUS
  <2>1. PICK i \in first : handle[i] = h  OBVIOUS
  <2>2. (CHOOSE k \in first : handle[k] = h) \in first  BY <2>1
  <2>3. \A k \in first : batch[k] \in Range(batch)  BY <1>3, <1>7 DEF Range
  <2> QED BY <2>2, <2>3 DEF Entries
<1> HIDE DEF handle, handles, entry
<1>13. /\ kept \subseteq LiveHandles /\ LiveHandles \subseteq DOMAIN previews
       /\ Cardinality(kept) = Smaller(Cardinality(LiveHandles), MaxHandles - R)
  BY DEF Survivors, LiveHandles, R
<1>14. Cardinality(kept \cup handles) <= MaxHandles
  <2>1. IsFiniteSet(LiveHandles) /\ Cardinality(LiveHandles) \in Nat
    BY <1>1, <1>13, FiniteTables, FS_Subset, FS_CardinalityType
  <2>2. IsFiniteSet(kept) /\ Cardinality(kept) \in Nat
    BY <1>13, <2>1, FS_Subset, FS_CardinalityType
  <2>3. Cardinality(kept) <= MaxHandles - R
    BY <1>5, <1>13, <2>1, Limits DEF Smaller
  <2>4. /\ IsFiniteSet((issued + 1) .. issued')
        /\ Cardinality((issued + 1) .. issued') = Cardinality(first)
    <3>1. issued + 1 \in Int /\ issued' \in Int  BY <1>8, Limits
    <3>2. /\ IsFiniteSet((issued + 1) .. issued')
          /\ Cardinality((issued + 1) .. issued')
                = IF issued + 1 > issued' THEN 0 ELSE issued' - (issued + 1) + 1
      BY <3>1, FS_Interval
    <3> QED BY <1>1, <1>7, <1>8, <3>2
  <2>5. IsFiniteSet(handles) /\ Cardinality(handles) \in Nat
        /\ Cardinality(handles) <= Cardinality(first)
    BY <1>10, <2>4, FS_Subset, FS_CardinalityType
  <2>6. /\ Cardinality(kept \cup handles)
             = Cardinality(kept) + Cardinality(handles) - Cardinality(kept \cap handles)
        /\ Cardinality(kept \cap handles) \in Nat
    <3>1. IsFiniteSet(kept \cap handles)  BY <2>2, FS_Subset
    <3> QED BY <2>2, <2>5, <3>1, FS_Union, FS_CardinalityType
  <2> QED BY <1>5, <1>7, <2>2, <2>3, <2>5, <2>6, Limits
<1>15. /\ DOMAIN previews' = kept \cup handles
       /\ DOMAIN previews' \subseteq 1 .. issued'
       /\ \A h \in kept : previews'[h] = previews[h]
       /\ \A h \in handles \ kept : previews'[h] = NewPreview(entry(h))
  <2>1. DOMAIN previews' = kept \cup handles  BY <1>2
  <2>2. \A h \in kept : h \in 1 .. issued  BY <1>1, <1>13 DEF Typed
  <2>3. \A h \in kept \cup handles : h \in 1 .. issued'
    <3>1. issued \in Nat /\ issued' \in Nat /\ issued' >= issued  BY <1>8, Limits
    <3>2. \A h \in handles : h \in 1 .. issued'  BY <1>10, <3>1
    <3>3. \A h \in kept : h \in 1 .. issued'  BY <2>2, <3>1
    <3> QED BY <3>2, <3>3
  <2>4. \A h \in kept \cup handles :
          previews'[h] = IF h \in kept THEN previews[h] ELSE NewPreview(entry(h))
    BY <1>2, Zenon
  <2> QED BY <2>1, <2>3, <2>4
<1>16. \A h \in DOMAIN previews' :
         /\ previews'[h].age \in 0 .. HandleTtl /\ previews'[h].entry \in Entries
         /\ PreviewShape(previews'[h])
  <2>1. \A h \in kept :
          /\ previews'[h].age \in 0 .. HandleTtl /\ previews'[h].entry \in Entries
          /\ PreviewShape(previews'[h])
    BY <1>1, <1>13, <1>15 DEF Typed
  <2>2. ASSUME NEW h \in handles \ kept
        PROVE  /\ previews'[h].age \in 0 .. HandleTtl /\ previews'[h].entry \in Entries
               /\ PreviewShape(previews'[h])
    BY <1>12, <1>15, Limits DEF NewPreview, PreviewShape
  <2> QED BY <1>15, <2>1, <2>2
<1>17. \A i \in DOMAIN page' :
         page'[i] \in 0 .. issued' /\ (page'[i] # 0 => page'[i] \in DOMAIN previews')
  BY <1>1, <1>8, <1>11, <1>15
<1>18. Typed'
  BY <1>1, <1>8, <1>14, <1>15, <1>16, <1>17 DEF Typed
<1>19. ASSUME NEW h \in LiveHandles'
       PROVE  h > issued \/ (h \in LiveHandles /\ previews'[h].age = previews[h].age)
  <2>1. h \in kept \cup handles  BY <1>15 DEF LiveHandles
  <2>2. CASE h \in kept  BY <1>13, <1>15, <2>2
  <2>3. CASE h \in handles  BY <1>8, <1>10, <2>3
  <2> QED BY <2>1, <2>2, <2>3
<1> QED BY <1>1, <1>8, <1>18, <1>19, PreviewsStep

-----------------------------------------------------------------------------
(* Time and restarts. *)

\* A receipt ages no faster than the handle it belongs to.
LEMMA TickStep == ASSUME IInv, Tick PROVE IInv'
<1>1. /\ Typed /\ \A c \in Callers : call[c].age = 0
      /\ previews' = [h \in DOMAIN previews |->
                        [previews[h] EXCEPT !.age = Smaller(previews[h].age + 1, HandleTtl)]]
      /\ receipts' = [o \in DOMAIN receipts |->
                        [receipts[o] EXCEPT !.age = Smaller(receipts[o].age + 1, ReceiptTtl)]]
      /\ call' = [c \in Callers |-> IF call[c].pc = "idle" THEN Idle ELSE [call[c] EXCEPT !.age = 1]]
      /\ UNCHANGED <<routed, issued, hub, told, searched, asked, restarts>> /\ page' = <<>>
  BY DEF IInv, Tick, Older, Silent
<1>2. /\ DOMAIN previews' = DOMAIN previews
      /\ \A h \in DOMAIN previews :
           /\ previews[h].age \in 0 .. HandleTtl
           /\ previews'[h].age = Smaller(previews[h].age + 1, HandleTtl)
           /\ previews'[h].entry = previews[h].entry /\ PreviewShape(previews'[h])
  <2>1. \A h \in DOMAIN previews :
          previews[h] = [age |-> previews[h].age, entry |-> previews[h].entry,
                         lines |-> previews[h].lines, cut |-> previews[h].cut]
          /\ previews[h].age \in 0 .. HandleTtl
    BY <1>1 DEF Typed, PreviewShape
  <2>2. \A h \in DOMAIN previews :
          previews'[h] = [age |-> Smaller(previews[h].age + 1, HandleTtl),
                          entry |-> previews[h].entry,
                          lines |-> previews[h].lines, cut |-> previews[h].cut]
    BY <1>1, <2>1
  <2> QED BY <1>1, <2>1, <2>2 DEF PreviewShape
<1>3. /\ DOMAIN receipts' = DOMAIN receipts
      /\ \A o \in DOMAIN receipts :
           /\ receipts[o] \in [age : 0 .. ReceiptTtl, task : {0, 1}]
           /\ receipts'[o] \in [age : 0 .. ReceiptTtl, task : {0, 1}]
           /\ receipts'[o].age = Smaller(receipts[o].age + 1, ReceiptTtl)
           /\ receipts'[o].task = receipts[o].task
  <2>1. \A o \in DOMAIN receipts : receipts[o] \in [age : 0 .. ReceiptTtl, task : {0, 1}]
    BY <1>1 DEF Typed
  <2>2. \A o \in DOMAIN receipts : Smaller(receipts[o].age + 1, ReceiptTtl) \in 0 .. ReceiptTtl
    BY <2>1, Limits DEF Smaller
  <2> QED BY <1>1, <2>1, <2>2
<1>4. /\ call' = [c \in Callers |-> call'[c]]
      /\ \A c \in Callers :
           /\ CallType(call'[c]) /\ call'[c].pc = call[c].pc
           /\ call[c].pc # "idle" => /\ call'[c].op = call[c].op /\ call'[c].age = 1
                                     /\ call'[c].task = call[c].task
  <2>1. \A c \in Callers : CallType(call[c])  BY <1>1 DEF Typed
  <2>2. ASSUME NEW c \in Callers, call[c].pc # "idle"
        PROVE  /\ CallType(call'[c]) /\ call'[c].pc = call[c].pc /\ call'[c].op = call[c].op
               /\ call'[c].age = 1 /\ call'[c].task = call[c].task
    <3>1. call'[c] = [call[c] EXCEPT !.age = 1]  BY <1>1, <2>2
    <3> QED BY <2>1, <3>1 DEF CallType
  <2>3. \A c \in Callers : call[c].pc = "idle" => call'[c] = Idle  BY <1>1
  <2> QED BY <1>1, <2>2, <2>3, IdleFacts
<1>5. Typed'
  <2>1. DOMAIN page' = {}  BY <1>1
  <2>2. \A h \in DOMAIN previews : previews'[h].age \in 0 .. HandleTtl
    BY <1>2, Limits DEF Smaller
  <2> QED BY <1>1, <1>2, <1>3, <1>4, <2>1, <2>2 DEF Typed
<1>6. \A h \in LiveHandles' : h \in LiveHandles /\ previews'[h].age = previews[h].age + 1
  BY <1>2, Limits DEF LiveHandles, Smaller
<1>7. \A o \in DOMAIN receipts :
        receipts[o].age \in Nat /\ receipts'[o].age \in Nat /\ receipts'[o].age <= receipts[o].age + 1
  BY <1>3, Limits DEF Smaller
<1>8. \A c \in Callers : /\ Submitting(c)' <=> Submitting(c)
                         /\ Busy(c)' <=> Busy(c)
                         /\ Following(c)' <=> Following(c)
                         /\ Busy(c) => call'[c].op = call[c].op /\ call[c].op \in Operations
                         /\ Submitting(c) \/ Following(c) => Busy(c)
  BY <1>1, <1>4 DEF Submitting, Busy, Following, Typed
<1>9. \A o : Started(o)' <=> Started(o)  BY <1>1, <1>8 DEF Started
<1>10. Numbered'  BY <1>1, <1>8 DEF IInv, Numbered
<1>11. SearchedOnce'
  <2> SUFFICES ASSUME NEW c \in Callers, Busy(c)', call'[c].op \in Searched
               PROVE  /\ \A d \in Callers : Busy(d)' /\ call'[d].op = call'[c].op => d = c
                      /\ call'[c].pc = "admit" => hub'[call'[c].op].runs = 0
    BY DEF SearchedOnce
  <2>1. /\ \A d \in Callers : Busy(d) /\ call[d].op = call[c].op => d = c
        /\ call[c].pc = "admit" => hub[call[c].op].runs = 0
    BY <1>8 DEF IInv, SearchedOnce
  <2>2. Busy(c) /\ call'[c].op = call[c].op /\ call'[c].pc = call[c].pc  BY <1>4, <1>8
  <2>3. \A d \in Callers : Busy(d)' => Busy(d) /\ call'[d].op = call[d].op  BY <1>8
  <2>4. hub' = hub  BY <1>1
  <2> QED BY <2>1, <2>2, <2>3, <2>4
<1>12. FirstSubmission'  BY <1>1, <1>8 DEF IInv, FirstSubmission
<1>13. Receipted'
  <2> SUFFICES ASSUME NEW o \in Previewed, o[1] \in LiveHandles', Started(o)
               PROVE  o \in DOMAIN receipts /\ receipts'[o].age <= previews'[o[1]].age
    BY <1>3, <1>9 DEF Receipted
  <2>1. o[1] \in LiveHandles /\ previews'[o[1]].age = previews[o[1]].age + 1  BY <1>6
  <2>2. o \in DOMAIN receipts /\ receipts[o].age <= previews[o[1]].age
    BY <2>1 DEF IInv, Receipted
  <2>3. previews[o[1]].age \in Nat  BY <1>2, <2>1 DEF LiveHandles
  <2> QED BY <1>7, <2>1, <2>2, <2>3
<1>14. Admitting'
  <2> SUFFICES ASSUME NEW c \in Callers, call'[c].pc = "admit", call'[c].op \in Previewed,
                      Started(call[c].op)'
               PROVE  /\ call'[c].op \in DOMAIN receipts
                      /\ receipts'[call'[c].op].age < HandleTtl + call'[c].age
    BY <1>3, <1>4, <1>9 DEF Admitting, Started
  <2>1. call[c].pc = "admit" /\ call'[c].op = call[c].op /\ call'[c].age = 1  BY <1>4
  <2>2. Started(call[c].op)
    BY <1>1, <1>8, <2>1 DEF Started
  <2>3. call[c].op \in DOMAIN receipts /\ receipts[call[c].op].age < HandleTtl + 0
    BY <1>1, <2>1, <2>2 DEF IInv, Admitting
  <2> QED BY <1>7, <2>1, <2>3, Limits
<1>15. Tasks'
  <2>1. \A c \in Callers : call'[c].pc \in {"record", "top", "listen"} =>
          call'[c].task = 1 /\ hub[call'[c].op].runs = 1
    BY <1>4 DEF IInv, Tasks
  <2> QED BY <1>1, <1>3, <2>1 DEF IInv, Tasks
<1>16. Noted'
  <2> SUFFICES ASSUME NEW o \in Previewed,
                      told[o] = 1 \/ \E c \in Callers : Following(c) /\ call[c].op = o,
                      o[1] \in LiveHandles'
               PROVE  o \in DOMAIN receipts /\ receipts'[o].task = 1
    <3>1. \A c \in Callers : Following(c)' => Following(c) /\ call'[c].op = call[c].op
      BY <1>8
    <3>2. told' = told /\ DOMAIN receipts' = DOMAIN receipts  BY <1>1, <1>3
    <3> QED BY <3>1, <3>2 DEF Noted
  <2> QED BY <1>3, <1>6 DEF IInv, Noted
<1> QED BY <1>5, <1>10, <1>11, <1>12, <1>13, <1>14, <1>15, <1>16 DEF IInv

\* After a restart no handle is known that could ask for what was started before.
LEMMA RestartStep == ASSUME IInv, Restart PROVE IInv'
<1>1. /\ Typed /\ restarts < MaxRestarts /\ restarts' = restarts + 1
      /\ previews' = <<>> /\ receipts' = <<>> /\ page' = <<>>
      /\ call' = [c \in Callers |-> Idle]
      /\ UNCHANGED <<routed, issued, hub, told, searched, asked>>
  BY DEF IInv, Restart, Silent
<1>2. DOMAIN previews' = {} /\ DOMAIN receipts' = {} /\ DOMAIN page' = {}  BY <1>1
<1>3. \A c \in Callers : call'[c] = Idle /\ call'[c].pc = "idle"  BY <1>1, IdleFacts
<1>4. \A c \in Callers : ~Busy(c)' /\ ~Submitting(c)' /\ ~Following(c)'
  BY <1>3 DEF Busy, Submitting, Following
<1>5. Typed'
  <2>1. restarts' \in 0 .. MaxRestarts  BY <1>1, Limits DEF Typed
  <2>2. Cardinality({}) = 0  BY FS_EmptySet
  <2> QED BY <1>1, <1>2, <1>3, <2>1, <2>2, IdleFacts, Limits DEF Typed
<1>6. LiveHandles' = {}  BY <1>2 DEF LiveHandles
<1>7. Numbered' /\ SearchedOnce' /\ FirstSubmission'
  BY <1>1, <1>4 DEF IInv, Numbered, SearchedOnce, FirstSubmission
<1>8. Receipted' /\ Noted'  BY <1>6 DEF Receipted, Noted
<1>9. Admitting' /\ Tasks'
  BY <1>1, <1>2, <1>3 DEF IInv, Admitting, Tasks
<1> QED BY <1>5, <1>7, <1>8, <1>9 DEF IInv

-----------------------------------------------------------------------------
(* The theorems. *)

LEMMA InitIInv == Init => IInv
<1> SUFFICES ASSUME Init PROVE IInv  OBVIOUS
<1>1. /\ routed \in BOOLEAN /\ previews = <<>> /\ issued = 0 /\ page = <<>>
      /\ receipts = <<>> /\ call = [c \in Callers |-> Idle]
      /\ hub = [op \in Operations |-> [runs |-> 0, state |-> "none"]]
      /\ told = [op \in Operations |-> 0] /\ searched = 0 /\ asked = 0 /\ restarts = 0
  BY DEF Init, NoTask
<1>2. DOMAIN previews = {} /\ DOMAIN receipts = {} /\ DOMAIN page = {}  BY <1>1
<1>3. \A c \in Callers : call[c] = Idle /\ call[c].pc = "idle"  BY <1>1, IdleFacts
<1>4. \A c \in Callers : ~Busy(c) /\ ~Submitting(c) /\ ~Following(c)
  BY <1>3 DEF Busy, Submitting, Following
<1>5. \A op \in Operations : hub[op].runs = 0 /\ told[op] = 0  BY <1>1
<1>6. Typed
  <2>1. Cardinality({}) = 0  BY FS_EmptySet
  <2>2. /\ hub \in [Operations -> [runs : {0, 1}, state : {"none", "running", "over"}]]
        /\ told \in [Operations -> {0, 1}]
    BY <1>1
  <2> QED BY <1>1, <1>2, <1>3, <2>1, <2>2, IdleFacts, Limits DEF Typed
<1>7. LiveHandles = {}  BY <1>2 DEF LiveHandles
<1>8. Numbered /\ SearchedOnce /\ FirstSubmission
  BY <1>4, <1>5, OperationFacts DEF Numbered, SearchedOnce, FirstSubmission
<1>9. Receipted /\ Noted  BY <1>7 DEF Receipted, Noted
<1>10. Admitting /\ Tasks
  BY <1>2, <1>3, <1>5 DEF Admitting, Tasks
<1> QED BY <1>6, <1>8, <1>9, <1>10 DEF IInv

LEMMA NextIInv == IInv /\ [Next]_vars => IInv'
<1> SUFFICES ASSUME IInv, [Next]_vars PROVE IInv'  OBVIOUS
<1>1. ASSUME NEW batch \in Batches, IssueHandles(batch) PROVE IInv'
  BY <1>1, IssueStep
<1>2. ASSUME NEW c \in Callers, NEW h \in 1 .. MaxIssued, NEW view \in Views,
             NEW continued \in BOOLEAN, Preview(c, h, view, continued)
      PROVE  IInv'
  BY <1>2, PreviewStep
<1>3. ASSUME NEW c \in Callers, Search(c) PROVE IInv'  BY <1>3, SearchStep
<1>4. ASSUME NEW c \in Callers, Progress(c) \/ SubscriptionFails(c) \/ TaskEnds(c)
      PROVE  IInv'
  BY <1>4, AdmitStep, TaskAdmittedStep, CallEndSteps, InstructionsStep, RecordStep,
     WaitStep, InterruptedStep DEF Progress
<1>5. ASSUME NEW op \in Operations, HubFinishes(op) PROVE IInv'  BY <1>5, HubFinishesStep
<1>6. CASE Tick  BY <1>6, TickStep
<1>7. CASE Restart  BY <1>7, RestartStep
<1>8. CASE UNCHANGED vars
  <2>1. UNCHANGED <<routed, previews, issued, page, receipts, call, hub, told,
                    searched, asked, restarts>>
    BY <1>8 DEF vars
  <2> QED BY <2>1 DEF IInv, Typed, Numbered, SearchedOnce, FirstSubmission, Receipted, Admitting,
               Tasks, Noted, Busy, Following, Submitting, Started, LiveHandles, PreviewShape
<1> QED BY <1>1, <1>2, <1>3, <1>4, <1>5, <1>6, <1>7, <1>8 DEF Next

\* The inductive invariant holds.
THEOREM Invariance == Spec => []IInv
BY InitIInv, NextIInv, PTL DEF Spec

\* An operation becomes a task of the hub at most once, however its reply is lost,
\* however many callers ask for it and however often the process restarts.
THEOREM SubmittedOnceHolds == Spec => []SubmittedOnce
<1>1. IInv => SubmittedOnce  BY DEF IInv, Typed, SubmittedOnce
<1> QED BY <1>1, Invariance, PTL

\* Tables within their capacities, handles that are known when they are listed,
\* and running reads that can be continued while their handle lives.
THEOREM HandedOutUsableHolds == Spec => []HandedOutUsable
<1>1. IInv => HandedOutUsable
  <2> SUFFICES ASSUME IInv PROVE HandedOutUsable  OBVIOUS
  <2>1. Typed /\ TypeOK  BY TypedTypeOK DEF IInv
  <2>2. ASSUME NEW op \in Previewed, told[op] # NoTask, op[1] \in LiveHandles
        PROVE  op \in LiveReceipts /\ receipts[op].task = told[op]
    <3>1. told[op] = 1  BY <2>1, <2>2, OperationFacts DEF Typed, NoTask
    <3>2. op \in DOMAIN receipts /\ receipts[op].task = 1
      BY <2>2, <3>1 DEF IInv, Noted
    <3>3. Started(op)  BY <3>2 DEF IInv, Tasks, Started
    <3> QED BY <2>2, <3>1, <3>2, <3>3, LiveFacts
  <2> QED BY <2>1, <2>2 DEF HandedOutUsable, Resumable, Typed
<1> QED BY <1>1, Invariance, PTL

-----------------------------------------------------------------------------
(* What a preview keeps and shows. *)

\* A set of naturals that is not empty has a least element.
LEMMA LeastNumber ==
    ASSUME NEW S \in SUBSET Nat, S # {}
    PROVE  \E m \in S : \A k \in S : m <= k
<1> DEFINE T == {0 .. (i - 1) : i \in S}
<1>1. T \subseteq FiniteSubsetsOf(Nat) /\ T # {}
  <2>1. ASSUME NEW i \in S PROVE 0 .. (i - 1) \in FiniteSubsetsOf(Nat)
    <3>1. 0 .. (i - 1) \in SUBSET Nat /\ i - 1 \in Int  OBVIOUS
    <3> QED BY <3>1, FS_Interval DEF FiniteSubsetsOf
  <2> QED BY <2>1
<1>2. PICK least \in T : \A t \in T : ~(<<t, least>> \in StrictSubsetOrdering(Nat))
  <2> HIDE DEF T
  <2> QED BY <1>1, FS_StrictSubsetOrderingWellFounded, WFMin, Zenon
<1>3. PICK m \in S : least = 0 .. (m - 1)  OBVIOUS
<1>4. ASSUME NEW k \in S, k < m PROVE FALSE
  <2>0. k \in Nat /\ m \in Nat  OBVIOUS
  <2>3. 0 .. (k - 1) \in T  OBVIOUS
  <2> HIDE DEF T
  <2>1. \A x \in 0 .. (k - 1) : x \in least
    <3> SUFFICES ASSUME NEW x \in 0 .. (k - 1) PROVE x \in 0 .. (m - 1)  BY <1>3
    <3> QED BY <1>4, <2>0
  <2>2. k \in least /\ k \notin 0 .. (k - 1)
    <3>1. k \in 0 .. (m - 1) /\ k \notin 0 .. (k - 1)  BY <1>4, <2>0
    <3> QED BY <1>3, <3>1
  <2>4. 0 .. (k - 1) \in SUBSET Nat /\ least \in SUBSET Nat
    <3>1. \A i \in Nat : 0 .. (i - 1) \in SUBSET Nat  OBVIOUS
    <3> QED BY <1>3, <2>0, <3>1
  <2>5. <<0 .. (k - 1), least>> \in StrictSubsetOrdering(Nat)
    BY <2>1, <2>2, <2>4 DEF StrictSubsetOrdering
  <2> QED BY <1>2, <2>3, <2>5
<1>5. \A k \in S : m <= k  BY <1>4
<1> QED BY <1>5

\* The bytes of a text, one by one.
Spread(l) == {l.n} \X (1 .. l.bytes)
Spreads(lines) == UNION {Spread(l) : l \in lines}

LEMMA SpreadOne ==
    ASSUME NEW l \in Lines
    PROVE  IsFiniteSet(Spread(l)) /\ Cardinality(Spread(l)) = l.bytes /\ l.bytes \in Nat
<1> DEFINE bytes == l.bytes
<1>1. bytes \in Nat  BY DEF Lines
<1>2. IsFiniteSet(1 .. bytes) /\ Cardinality(1 .. bytes) = bytes
  <2> HIDE DEF bytes
  <2>1. /\ IsFiniteSet(1 .. bytes)
        /\ Cardinality(1 .. bytes) = IF 1 > bytes THEN 0 ELSE bytes - 1 + 1
    BY <1>1, FS_Interval
  <2> QED BY <1>1, <2>1
<1>3. IsFiniteSet({l.n}) /\ Cardinality({l.n}) = 1  BY FS_Singleton
<1>4. /\ IsFiniteSet({l.n} \X (1 .. bytes))
      /\ Cardinality({l.n} \X (1 .. bytes)) = Cardinality({l.n}) * Cardinality(1 .. bytes)
  <2> HIDE DEF bytes
  <2> QED BY <1>2, <1>3, FS_Product, Zenon
<1>5. 1 * bytes = bytes  BY <1>1
<1>6. Spread(l) = {l.n} \X (1 .. bytes)  BY Zenon DEF Spread, bytes
<1> QED BY <1>1, <1>2, <1>3, <1>4, <1>5, <1>6, Zenon

LEMMA TextBytes ==
    ASSUME NEW S, IsText(S)
    PROVE  /\ IsFiniteSet(S) /\ Cardinality(S) \in Nat
           /\ TotalBytes(S) = Cardinality(Spreads(S))
           /\ IsFiniteSet(Spreads(S)) /\ TotalBytes(S) \in Nat
<1> DEFINE f == [l \in S |-> Spread(l)]
           U == {Spread(l) : l \in S}
<1>1. \A l \in S : IsFiniteSet(Spread(l))  BY SpreadOne DEF IsText
<1>2. f \in Surjection(S, U)  BY Zenon DEF Surjection
<1>3. IsFiniteSet(S)  BY DEF IsText
<1>4. IsFiniteSet(U)
  <2> HIDE DEF f, U
  <2> QED BY <1>2, <1>3, FS_Surjection
<1>5. \A t \in U : IsFiniteSet(t)  BY <1>1
<1>6. IsFiniteSet(UNION U)
  <2> HIDE DEF U
  <2> QED BY <1>4, <1>5, FS_UNION
<1>7. TotalBytes(S) = Cardinality(Spreads(S))  BY DEF TotalBytes, Spreads, Spread
<1> QED BY <1>3, <1>6, <1>7, FS_CardinalityType DEF Spreads

\* A part of a text is a text, and no larger.
LEMMA PartOfText ==
    ASSUME NEW S, IsText(S), NEW T \in SUBSET S
    PROVE  IsText(T) /\ TotalBytes(T) <= TotalBytes(S) /\ Cardinality(T) <= Cardinality(S)
<1>1. IsText(T) /\ Cardinality(T) <= Cardinality(S)  BY FS_Subset DEF IsText
<1>2. Spreads(T) \in SUBSET Spreads(S)  BY DEF Spreads
<1>3. Cardinality(Spreads(T)) <= Cardinality(Spreads(S))
  BY <1>2, TextBytes, FS_Subset
<1> QED BY <1>1, <1>3, TextBytes

\* A text with one more line.
LEMMA TextWith ==
    ASSUME NEW S, IsText(S), NEW l \in Lines, \A k \in S : k.n # l.n
    PROVE  /\ IsText(S \cup {l}) /\ TotalBytes(S \cup {l}) = TotalBytes(S) + l.bytes
           /\ Cardinality(S \cup {l}) = Cardinality(S) + 1
<1>1. IsFiniteSet(S \cup {l}) /\ Cardinality(S \cup {l}) = Cardinality(S) + 1
  BY FS_AddElement DEF IsText
<1>2. IsText(S \cup {l})  BY <1>1 DEF IsText
<1>3. Spreads(S \cup {l}) = Spreads(S) \cup Spread(l)  BY DEF Spreads
<1>4. Spreads(S) \cap Spread(l) = {}
  <2> SUFFICES ASSUME NEW k \in S, NEW x \in Spread(k), x \in Spread(l) PROVE FALSE
    BY Zenon DEF Spreads
  <2> QED BY DEF Spread
<1>5. Cardinality(Spreads(S) \cup Spread(l)) = Cardinality(Spreads(S)) + Cardinality(Spread(l)) - 0
  BY <1>4, TextBytes, SpreadOne, FS_Union, FS_EmptySet
<1>6. /\ TotalBytes(S \cup {l}) = Cardinality(Spreads(S) \cup Spread(l))
      /\ TotalBytes(S) = Cardinality(Spreads(S)) /\ TotalBytes(S) \in Nat
  <2>1. TotalBytes(S \cup {l}) = Cardinality(Spreads(S \cup {l}))  BY <1>2, TextBytes
  <2> QED BY <1>3, <2>1, TextBytes
<1> QED BY <1>1, <1>2, <1>5, <1>6, SpreadOne

LEMMA EmptyText == IsText({}) /\ TotalBytes({}) = 0 /\ Cardinality({}) = 0
<1>1. IsText({}) /\ Cardinality({}) = 0  BY FS_EmptySet DEF IsText
<1>2. Spreads({}) = {}  BY DEF Spreads
<1> QED BY <1>1, <1>2, TextBytes

\* A text has a last line.
LEMMA LastLine ==
    ASSUME NEW S, IsText(S), S # {}
    PROVE  \E l \in S : \A k \in S : k.n <= l.n
<1> DEFINE Below(l) == {k \in S : k.n > l.n}
           T == {Cardinality(Below(l)) : l \in S}
<1>1. ASSUME NEW l \in S PROVE IsFiniteSet(Below(l)) /\ Cardinality(Below(l)) \in Nat
  BY FS_Subset, FS_CardinalityType DEF IsText
<1>2. T \in SUBSET Nat /\ T # {}  BY <1>1
<1>3. PICK m \in T : \A k \in T : m <= k
  <2> HIDE DEF T
  <2> QED BY <1>2, LeastNumber
<1>4. PICK l \in S : m = Cardinality(Below(l))  OBVIOUS
<1>5. ASSUME NEW k \in S, k.n > l.n PROVE FALSE
  <2>1. \A j \in S : j.n \in Nat  BY DEF IsText, Lines
  <2>2. Below(k) \in SUBSET Below(l) /\ k \in Below(l) /\ k \notin Below(k)  BY <1>5, <2>1
  <2>3. Cardinality(Below(l)) <= Cardinality(Below(k))  BY <1>3, <1>4
  <2> HIDE DEF Below
  <2>4. Cardinality(Below(k)) = Cardinality(Below(l))
    BY <1>1, <2>2, <2>3, FS_Subset
  <2> QED BY <1>1, <2>2, <2>4, FS_Subset
<1>6. \A k \in S : k.n <= l.n
  <2>1. \A j \in S : j.n \in Nat  BY DEF IsText, Lines
  <2> QED BY <1>5, <2>1
<1> QED BY <1>6

\* truncate_utf8.
LEMMA TruncatedFacts ==
    ASSUME NEW l \in Lines, NEW room \in Nat
    PROVE  LET k == Truncated(l, room)
           IN  /\ k \in Lines /\ k.n = l.n /\ k.bytes <= room /\ k.bytes <= l.bytes
               /\ l.bytes <= room => k = l
               /\ l.bytes > 0 /\ room >= l.width => k.bytes > 0
<1>1. l.bytes \in Nat /\ l.n \in Nat \ {0} /\ l.width \in Nat \ {0} /\ l.width <= MaxBytes
  BY PreviewAssumption DEF Lines
<1>2. CASE l.bytes <= room  BY <1>1, <1>2 DEF Truncated
<1>3. CASE ~(l.bytes <= room)
  <2>1. room % l.width \in Nat /\ room % l.width < l.width /\ room % l.width <= room
    <3>1. \A w \in Nat \ {0} : room % w \in 0 .. (w - 1)  OBVIOUS
    <3>2. \A w \in Nat \ {0} : room % w <= room  BY Z3
    <3> QED BY <1>1, <3>1, <3>2
  <2>2. Truncated(l, room) = [l EXCEPT !.bytes = room - (room % l.width)]
    BY <1>3 DEF Truncated
  <2>3. l = [n |-> l.n, bytes |-> l.bytes, width |-> l.width]  BY DEF Lines
  <2>4. Truncated(l, room) = [n |-> l.n, bytes |-> room - (room % l.width), width |-> l.width]
    BY <2>2, <2>3
  <2>5. room - (room % l.width) \in Nat  BY <2>1
  <2> QED BY <1>1, <1>3, <2>1, <2>4, <2>5 DEF Lines
<1> QED BY <1>2, <1>3

\* The lines above a line, together with it.
LEMMA AboveFacts ==
    ASSUME NEW S, IsText(S), NEW l \in S
    PROVE  /\ Above(S, l) \in SUBSET S /\ Above(S, l) \cup {l} \in SUBSET S
           /\ IsText(Above(S, l)) /\ IsText(Above(S, l) \cup {l})
           /\ Cardinality(Above(S, l) \cup {l}) = Cardinality(Above(S, l)) + 1
           /\ Cardinality(Above(S, l)) \in Nat
<1>1. Above(S, l) \in SUBSET S /\ Above(S, l) \cup {l} \in SUBSET S  BY DEF Above
<1>2. IsText(Above(S, l)) /\ IsText(Above(S, l) \cup {l})  BY <1>1, PartOfText
<1>3. l.n \in Nat /\ l \in Lines  BY DEF IsText, Lines
<1>4. \A k \in Above(S, l) : k.n # l.n  BY <1>3 DEF Above
<1>5. Cardinality(Above(S, l) \cup {l}) = Cardinality(Above(S, l)) + 1
  BY <1>2, <1>3, <1>4, TextWith
<1> QED BY <1>1, <1>2, <1>5, TextBytes

\* What is shown whole is the beginning of the text, and fits the reply.
LEMMA WholeFits ==
    ASSUME NEW S, IsText(S)
    PROVE  /\ Whole(S) \in SUBSET S /\ IsText(Whole(S))
           /\ Cardinality(Whole(S)) <= MaxLines /\ TotalBytes(Whole(S)) <= MaxBytes
<1> DEFINE W == Whole(S)
<1>1. W \in SUBSET S  BY DEF Whole
<1>2. IsText(W)
  <2> HIDE DEF W
  <2> QED BY <1>1, PartOfText
<1>3. CASE W = {}  BY <1>2, <1>3, EmptyText, PreviewAssumption
<1>4. CASE W # {}
  <2>1. PICK l \in W : \A k \in W : k.n <= l.n
    <3> HIDE DEF W
    <3> QED BY <1>2, <1>4, LastLine
  <2>2. l \in S /\ Cardinality(Above(S, l)) < MaxLines /\ TotalBytes(Above(S, l) \cup {l}) <= MaxBytes
    BY <2>1 DEF Whole
  <2>3. \A k \in W : k.n \in Nat /\ (k.n = l.n => k = l)
    BY <1>1, <2>2 DEF IsText, Lines
  <2>4. W \in SUBSET (Above(S, l) \cup {l})
    <3> HIDE DEF W
    <3> QED BY <1>1, <2>1, <2>3 DEF Above
  <2>5. /\ TotalBytes(W) <= TotalBytes(Above(S, l) \cup {l})
        /\ Cardinality(W) <= Cardinality(Above(S, l) \cup {l})
    <3> HIDE DEF W
    <3> QED BY <2>2, <2>4, AboveFacts, PartOfText
  <2>6. TotalBytes(W) \in Nat /\ Cardinality(W) \in Nat /\ TotalBytes(Above(S, l) \cup {l}) \in Nat
    BY <1>2, <2>2, AboveFacts, TextBytes
  <2>7. /\ Cardinality(Above(S, l) \cup {l}) = Cardinality(Above(S, l)) + 1
        /\ Cardinality(Above(S, l)) \in Nat
    BY <2>2, AboveFacts
  <2> HIDE DEF W
  <2>8. Cardinality(W) <= MaxLines /\ TotalBytes(W) <= MaxBytes
    BY <2>2, <2>5, <2>6, <2>7, PreviewAssumption
  <2> QED BY <1>1, <1>2, <2>8 DEF W
<1> QED BY <1>3, <1>4

\* At most one line is shown in part, the one after those that are shown whole.
LEMMA PartialOne ==
    ASSUME NEW S, IsText(S), NEW k \in Partial(S)
    PROVE  /\ Partial(S) = {k} /\ k \in Lines /\ Cardinality(Whole(S)) < MaxLines
           /\ k.bytes <= MaxBytes - TotalBytes(Whole(S)) /\ \A l \in Whole(S) : l.n # k.n
<1> DEFINE W == Whole(S)
           room == MaxBytes - TotalBytes(W)
           rest == {l \in S \ W : Above(S, l) \subseteq W /\ Cardinality(W) < MaxLines}
<1>1. Partial(S) = {j \in {Truncated(l, room) : l \in rest} : j.bytes > 0}  BY DEF Partial
<1>2. W \in SUBSET S /\ room \in Nat  BY WholeFits, TextBytes, PreviewAssumption
<1>3. PICK l \in rest : k = Truncated(l, room)  BY <1>1
<1>4. \A i, j \in S : i.n \in Nat /\ (i.n = j.n => i = j) /\ i \in Lines  BY DEF IsText, Lines
<1> HIDE DEF W, room
<1>5. rest = {l}
  <2> SUFFICES ASSUME NEW m \in rest, m # l PROVE FALSE  BY <1>3
  <2>1. m.n < l.n \/ l.n < m.n  BY <1>3, <1>4
  <2>2. m \in Above(S, l) \/ l \in Above(S, m)  BY <1>3, <2>1 DEF Above
  <2> QED BY <1>3, <2>2
<1>6. Partial(S) = {k}
  <2> HIDE DEF rest
  <2> QED BY <1>1, <1>3, <1>5
<1>7. k \in Lines /\ k.n = l.n /\ k.bytes <= room  BY <1>2, <1>3, <1>4, TruncatedFacts
<1>8. \A i \in W : i.n # k.n  BY <1>2, <1>3, <1>4, <1>7
<1> QED BY <1>3, <1>6, <1>7, <1>8 DEF W, room

\* A reply is within its limits, and unless it is marked it shows all there is.
LEMMA BoundedFits ==
    ASSUME NEW S, IsText(S), NEW cut \in BOOLEAN
    PROVE  LET shown == Bounded(S, cut)
           IN  /\ Cardinality(shown.lines) <= MaxLines /\ TotalBytes(shown.lines) <= MaxBytes
               /\ shown.cut \in BOOLEAN
               /\ ~shown.cut => ~cut /\ Whole(S) = S /\ shown.lines = S
<1> DEFINE W == Whole(S)
<1>1. /\ W \in SUBSET S /\ IsText(W) /\ Cardinality(W) <= MaxLines /\ TotalBytes(W) <= MaxBytes
      /\ Cardinality(W) \in Nat /\ TotalBytes(W) \in Nat
  BY WholeFits, TextBytes
<1>2. Bounded(S, cut) = [lines |-> W \cup Partial(S), cut |-> cut \/ W # S]  BY DEF Bounded
<1>3. W = S => Partial(S) = {}  BY DEF Partial
<1>4. Cardinality(W \cup Partial(S)) <= MaxLines /\ TotalBytes(W \cup Partial(S)) <= MaxBytes
  <2>1. CASE Partial(S) = {}  BY <1>1, <2>1
  <2>2. CASE Partial(S) # {}
    <3>1. PICK k \in Partial(S) : TRUE  BY <2>2
    <3>2. /\ Partial(S) = {k} /\ k \in Lines /\ Cardinality(W) < MaxLines
          /\ k.bytes <= MaxBytes - TotalBytes(W) /\ \A l \in W : k.n # l.n
      BY <3>1, PartialOne
    <3>3. /\ TotalBytes(W \cup {k}) = TotalBytes(W) + k.bytes
          /\ Cardinality(W \cup {k}) = Cardinality(W) + 1
      BY <1>1, <3>2, TextWith
    <3>4. k.bytes \in Nat  BY <3>2 DEF Lines
    <3> QED BY <1>1, <3>2, <3>3, <3>4, PreviewAssumption
  <2> QED BY <2>1, <2>2
<1> HIDE DEF W
<1>5. /\ Bounded(S, cut).lines = W \cup Partial(S)
      /\ Bounded(S, cut).cut = (cut \/ W # S)
  BY <1>2
<1> QED BY <1>3, <1>4, <1>5 DEF W

\* A text within the limits is shown whole.
LEMMA BoundedAll ==
    ASSUME NEW S, IsText(S), NEW cut \in BOOLEAN,
           Cardinality(S) <= MaxLines, TotalBytes(S) <= MaxBytes
    PROVE  Bounded(S, cut).lines = S
<1>1. ASSUME NEW l \in S PROVE l \in Whole(S)
  <2> DEFINE A == Above(S, l)
  <2>1. /\ A \cup {l} \in SUBSET S /\ Cardinality(A \cup {l}) = Cardinality(A) + 1
        /\ IsText(A \cup {l}) /\ Cardinality(A) \in Nat
    BY AboveFacts
  <2>2. Cardinality(A \cup {l}) <= Cardinality(S) /\ TotalBytes(A \cup {l}) <= TotalBytes(S)
    <3> HIDE DEF A
    <3> QED BY <2>1, PartOfText
  <2>3. TotalBytes(A \cup {l}) \in Nat /\ TotalBytes(S) \in Nat /\ Cardinality(S) \in Nat
    BY <2>1, TextBytes
  <2>4. Cardinality(A) < MaxLines /\ TotalBytes(A \cup {l}) <= MaxBytes
    BY <2>1, <2>2, <2>3, PreviewAssumption
  <2> QED BY <2>4 DEF Whole
<1>2. Whole(S) = S  BY <1>1 DEF Whole
<1>3. Partial(S) = {}  BY <1>2 DEF Partial
<1> QED BY <1>2, <1>3 DEF Bounded

\* What is read of a file is a text, and a document that is shown whole is the file.
LEMMA ReadFacts ==
    ASSUME NEW file, IsFile(file), NEW view \in Views, NEW at \in Nat \ {0},
           ReadView(file, view, at).ok
    PROVE  LET lines == ReadView(file, view, at).lines
           IN  IsText(lines) /\ (view = "document" /\ Whole(lines) = lines => lines = file)
<1> DEFINE start == StartLine(view, at)
           end == EndLine(view, at)
           upto == {l \in file : l.n <= Larger(start, end)}
           lines == {l \in upto : l.n >= start}
           size == Cardinality(file)
<1>1. ReadView(file, view, at).lines = lines
  <2>1. ReadView(file, view, at) = InRange(file, start, end)  BY DEF ReadView
  <2> DEFINE large == Size(file) > MaxFileBytes \/ Size(upto) > ReadLimit
  <2>2. InRange(file, start, end) =
          IF large THEN [ok |-> FALSE, lines |-> {}] ELSE [ok |-> TRUE, lines |-> lines]
    BY DEF InRange
  <2> HIDE DEF start, end, large, lines
  <2> QED BY <2>1, <2>2
<1>2. IsText(file)  BY DEF IsFile
<1>3. lines \in SUBSET file  OBVIOUS
<1>4. IsText(lines)
  <2> HIDE DEF lines
  <2> QED BY <1>2, <1>3, PartOfText
<1>5. ASSUME view = "document", Whole(lines) = lines PROVE lines = file
  <2>1. start = 1 /\ end = MaxLines + 1 /\ Larger(start, end) = MaxLines + 1
    BY <1>5, PreviewAssumption DEF StartLine, EndLine, Larger
  <2>2. size \in Nat /\ \A l \in file : l.n \in 1 .. size  BY <1>2, TextBytes DEF IsFile
  <2>3. lines = {l \in file : l.n <= MaxLines + 1}
    <3> HIDE DEF start, end
    <3> QED BY <2>1, <2>2
  <2>4. CASE size <= MaxLines  BY <2>2, <2>3, <2>4, PreviewAssumption
  <2>5. CASE size > MaxLines
    <3>1. \A i \in 1 .. size : \E l \in file : l.n = i  BY DEF IsFile
    <3>2. MaxLines + 1 \in 1 .. size  BY <2>2, <2>5, PreviewAssumption
    <3>3. PICK last \in file : last.n = MaxLines + 1  BY <3>1, <3>2
    <3> HIDE DEF lines, size
    <3>4. last \in lines  BY <2>3, <3>3, PreviewAssumption
    <3> DEFINE A == Above(lines, last)
               f == [l \in A |-> l.n]
    <3>5. IsText(A) /\ Cardinality(A) < MaxLines /\ Cardinality(A) \in Nat
      BY <1>4, <1>5, <3>4, AboveFacts DEF Whole
    <3>6. f \in Surjection(A, 1 .. MaxLines)
      <4>1. \A l \in A : l.n \in 1 .. MaxLines
        BY <1>3, <2>2, <3>3, PreviewAssumption DEF Above
      <4>2. \A i \in 1 .. MaxLines : \E l \in A : l.n = i
        <5> SUFFICES ASSUME NEW i \in 1 .. MaxLines PROVE \E l \in A : l.n = i  OBVIOUS
        <5>1. i \in 1 .. size /\ i < MaxLines + 1 /\ i <= MaxLines + 1
          BY <2>2, <2>5, PreviewAssumption
        <5>2. PICK l \in file : l.n = i  BY <3>1, <5>1
        <5>3. l \in lines  BY <2>3, <5>1, <5>2
        <5> QED BY <3>3, <5>1, <5>2, <5>3 DEF Above
      <4> HIDE DEF A
      <4> QED BY <4>1, <4>2 DEF Surjection
    <3>7. Cardinality(1 .. MaxLines) <= Cardinality(A)
      <4> HIDE DEF f, A
      <4> QED BY <3>5, <3>6, FS_Surjection DEF IsText
    <3>8. Cardinality(1 .. MaxLines) = MaxLines  BY FS_Interval, PreviewAssumption
    <3> QED BY <3>5, <3>7, <3>8, PreviewAssumption
  <2> QED BY <2>2, <2>4, <2>5, PreviewAssumption
<1> HIDE DEF lines
<1> QED BY <1>1, <1>4, <1>5

\* What holds of 0 and passes from one number to the next holds up to any number.
LEMMA StepByStep ==
    ASSUME NEW n \in Nat, NEW S, 0 \in S, \A m \in 1 .. n : m - 1 \in S => m \in S
    PROVE  \A m \in 0 .. n : m \in S
<1> SUFFICES ASSUME NEW j \in 0 .. n, j \notin S PROVE FALSE  OBVIOUS
<1> DEFINE T == {m \in 0 .. n : m \notin S}
<1>1. T \in SUBSET Nat /\ T # {}  OBVIOUS
<1>2. PICK m \in T : \A k \in T : m <= k
  <2> HIDE DEF T
  <2> QED BY <1>1, LeastNumber
<1>3. m \in 1 .. n /\ m - 1 \in 0 .. n /\ ~(m <= m - 1)  OBVIOUS
<1>4. m - 1 \in S  BY <1>2, <1>3
<1> QED BY <1>3, <1>4

\* What the index says of a result (ContentsAssumption).
IsEntry(entry) ==
    /\ entry.at \in Nat \ {0}
    /\ IsText(entry.context) /\ IsText(entry.text) /\ \A l \in entry.text : l.n = entry.at

LEMMA ContextText ==
    ASSUME NEW entry, IsEntry(entry)
    PROVE  /\ IsText(ContextLines(entry)) /\ Cardinality(ContextLines(entry)) \in Nat
           /\ Places(entry) = 1 .. Cardinality(ContextLines(entry))
<1> DEFINE more == {l \in entry.text : \A k \in entry.context : k.n # entry.at}
<1>1. more \in SUBSET entry.text  OBVIOUS
<1>2. ContextLines(entry) = entry.context \cup more  BY DEF ContextLines
<1>3. IsText(entry.context) /\ IsText(entry.text)  BY DEF IsEntry
<1>4. IsText(more)
  <2> HIDE DEF more
  <2> QED BY <1>1, <1>3, PartOfText
<1>5. IsFiniteSet(entry.context \cup more)
  <2> HIDE DEF more
  <2> QED BY <1>3, <1>4, FS_Union DEF IsText
<1>6. \A k \in entry.context, l \in more : k.n # l.n  BY DEF IsEntry
<1>7. IsText(entry.context \cup more)
  <2> HIDE DEF more
  <2> QED BY <1>3, <1>4, <1>5, <1>6 DEF IsText
<1> QED BY <1>2, <1>7, TextBytes DEF Places

\* The lines of a result are ordered by their nearness.
LEMMA NearerOrder ==
    ASSUME NEW entry, IsEntry(entry)
    PROVE  \A j, k, l \in ContextLines(entry) :
             /\ ~Nearer(entry, l, l)
             /\ k # l => Nearer(entry, k, l) \/ Nearer(entry, l, k)
             /\ Nearer(entry, j, k) /\ Nearer(entry, k, l) => Nearer(entry, j, l)
             /\ l.n = entry.at => ~Nearer(entry, k, l)
<1>1. \A k, l \in ContextLines(entry) : k.n \in Nat /\ (k.n = l.n => k = l)
  BY ContextText DEF IsText, Lines
<1>2. entry.at \in Nat  BY DEF IsEntry
<1>3. \A k \in ContextLines(entry) :
        /\ Distance(k.n, entry.at) \in Nat /\ (Distance(k.n, entry.at) = 0 <=> k.n = entry.at)
  BY <1>1, <1>2 DEF Distance, Larger
<1> QED BY <1>1, <1>2, <1>3 DEF Nearer

\* Each line has a place of its own, and the matched line the first.
LEMMA NearestFacts ==
    ASSUME NEW entry, IsEntry(entry)
    PROVE  LET near == Nearest(entry)
           IN  /\ \A i \in Places(entry) : near[i] \in ContextLines(entry)
               /\ \A i, j \in Places(entry) : near[i].n = near[j].n => i = j
               /\ \A l \in ContextLines(entry) : \E i \in Places(entry) : near[i] = l
               /\ \A l \in ContextLines(entry) : l.n = entry.at => 1 \in Places(entry) /\ near[1] = l
<1> DEFINE C == ContextLines(entry)
           near == Nearest(entry)
           N == Cardinality(C)
           Ahead(l) == {k \in C : Nearer(entry, k, l)}
           f == [l \in C |-> Place(entry, l) + 1]
<1>0. IsFiniteSet(C) /\ N \in Nat /\ Places(entry) = 1 .. N /\ \A k, l \in C : k.n = l.n => k = l
  BY ContextText DEF IsText
<1>1. ASSUME NEW l \in C
      PROVE  /\ IsFiniteSet(Ahead(l)) /\ Place(entry, l) = Cardinality(Ahead(l))
             /\ Place(entry, l) \in 0 .. (N - 1)
  <2>1. Ahead(l) \in SUBSET C /\ Ahead(l) \in SUBSET (C \ {l})  BY NearerOrder
  <2>2. Place(entry, l) = Cardinality(Ahead(l))  BY DEF Place
  <2>3. IsFiniteSet(C \ {l}) /\ Cardinality(C \ {l}) = N - 1  BY <1>0, FS_RemoveElement
  <2> HIDE DEF Ahead
  <2>4. IsFiniteSet(Ahead(l)) /\ Cardinality(Ahead(l)) <= N - 1  BY <2>1, <2>3, FS_Subset
  <2>5. Cardinality(Ahead(l)) \in Nat  BY <2>4, FS_CardinalityType
  <2> QED BY <1>0, <2>2, <2>4, <2>5
<1>2. ASSUME NEW k \in C, NEW l \in C, Nearer(entry, k, l)
      PROVE  Place(entry, k) # Place(entry, l)
  <2>1. Ahead(k) \in SUBSET Ahead(l) /\ k \in Ahead(l) /\ k \notin Ahead(k)
    BY <1>2, NearerOrder
  <2> SUFFICES ASSUME Place(entry, k) = Place(entry, l) PROVE FALSE  OBVIOUS
  <2> HIDE DEF Ahead
  <2>2. Cardinality(Ahead(l)) = Cardinality(Ahead(k))  BY <1>1
  <2>3. Ahead(l) = Ahead(k)  BY <1>1, <2>1, <2>2, FS_Subset
  <2> QED BY <2>1, <2>3
<1>3. \A k, l \in C : Place(entry, k) = Place(entry, l) => k = l  BY <1>2, NearerOrder
<1>4. \A l \in C : Place(entry, l) \in Nat /\ Place(entry, l) + 1 \in 1 .. N
  <2> SUFFICES ASSUME NEW l \in C
               PROVE  Place(entry, l) \in Nat /\ Place(entry, l) + 1 \in 1 .. N
    OBVIOUS
  <2>1. Place(entry, l) \in 0 .. (N - 1)  BY <1>1
  <2> HIDE DEF N
  <2> QED BY <1>0, <2>1
<1>5. f \in Injection(C, 1 .. N)
  <2>1. \A k, l \in C : Place(entry, k) + 1 = Place(entry, l) + 1 => k = l
    <3> HIDE DEF C, N
    <3> QED BY <1>3, <1>4
  <2> HIDE DEF C, N
  <2> QED BY <1>4, <2>1 DEF Injection, IsInjective
<1>6. f \in Surjection(C, 1 .. N)
  <2>1. IsFiniteSet(1 .. N) /\ Cardinality(1 .. N) = N  BY <1>0, FS_Interval
  <2> HIDE DEF f
  <2> QED BY <1>5, <2>1, FS_Injection
<1>7. \A i \in 1 .. N : \E l \in C : Place(entry, l) + 1 = i
  <2>1. \A i \in 1 .. N : \E l \in C : f[l] = i
    <3> HIDE DEF f
    <3> QED BY <1>6 DEF Surjection
  <2> HIDE DEF C, N
  <2> QED BY <2>1
<1>8. ASSUME NEW i \in 1 .. N PROVE near[i] \in C /\ Place(entry, near[i]) = i - 1
  <2>1. PICK l \in C : Place(entry, l) + 1 = i  BY <1>7
  <2>2. Place(entry, l) = i - 1
    <3> HIDE DEF C, N
    <3> QED BY <1>4, <2>1
  <2>3. near[i] = CHOOSE k \in C : Place(entry, k) = i - 1  BY <1>0 DEF Nearest
  <2> HIDE DEF C, near
  <2> QED BY <2>2, <2>3
<1>9. ASSUME NEW l \in C PROVE Place(entry, l) + 1 \in 1 .. N /\ near[Place(entry, l) + 1] = l
  <2> DEFINE i == Place(entry, l) + 1
  <2>1. i \in 1 .. N /\ i - 1 = Place(entry, l)
    <3> HIDE DEF C, N
    <3> QED BY <1>4
  <2>2. near[i] \in C /\ Place(entry, near[i]) = i - 1
    <3> HIDE DEF i, N, C, near
    <3> QED BY <1>8, <2>1
  <2> HIDE DEF C, near, N, i
  <2>3. near[i] = l  BY <1>3, <2>1, <2>2
  <2> QED BY <2>1, <2>3 DEF i
<1>10. ASSUME NEW l \in C, l.n = entry.at PROVE 1 \in 1 .. N /\ near[1] = l
  <2>1. Ahead(l) = {}  BY <1>10, NearerOrder
  <2>2. Place(entry, l) = 0  BY <1>1, <2>1, FS_EmptySet
  <2> HIDE DEF C, near, N
  <2> QED BY <1>9, <2>2
<1>11. \A i, j \in 1 .. N : near[i].n = near[j].n => i = j
  <2> SUFFICES ASSUME NEW i \in 1 .. N, NEW j \in 1 .. N, near[i].n = near[j].n PROVE i = j
    OBVIOUS
  <2>1. near[i] = near[j]
    <3> HIDE DEF C, near, N
    <3> QED BY <1>0, <1>8
  <2>2. i - 1 = j - 1
    <3> HIDE DEF C, near, N
    <3> QED BY <1>8, <2>1
  <2> QED BY <1>0, <2>2
<1> HIDE DEF C, near, N
<1> QED BY <1>0, <1>8, <1>9, <1>10, <1>11 DEF C, near

\* The room that is left is what the nearest lines have not taken.
LEMMA RoomFacts ==
    ASSUME NEW entry, IsEntry(entry)
    PROVE  LET near == Nearest(entry)
               room == Room(entry)
           IN  /\ \A i \in Places(entry) \cup {0} : room[i] \in 0 .. MaxBytes
               /\ room[0] = MaxBytes
               /\ \A i \in Places(entry) :
                    i - 1 \in Places(entry) \cup {0}
                    /\ room[i] = room[i - 1] - Truncated(near[i], room[i - 1]).bytes
<1> DEFINE near == Nearest(entry)
           N == Cardinality(ContextLines(entry))
           P == Places(entry) \cup {0}
           Left(i, r) == r - Truncated(near[i], r).bytes
           Solves(g, m) ==
               /\ g \in [0 .. m -> 0 .. MaxBytes] /\ g[0] = MaxBytes
               /\ \A i \in 1 .. m : g[i] = Left(i, g[i - 1])
           Found == {m \in Nat : \E g : Solves(g, m)}
           IsRoom(g) == g = [i \in P |-> IF i = 0 THEN MaxBytes ELSE Left(i, g[i - 1])]
<1>1. N \in Nat /\ P = 0 .. N /\ Places(entry) = 1 .. N  BY ContextText
<1>2. \A i \in 1 .. N : near[i] \in Lines
  BY <1>1, NearestFacts, ContextText DEF IsText
<1>3. ASSUME NEW i \in 1 .. N, NEW r \in 0 .. MaxBytes PROVE Left(i, r) \in 0 .. MaxBytes
  <2>1. /\ Truncated(near[i], r) \in Lines /\ Truncated(near[i], r).bytes <= r
    BY <1>2, TruncatedFacts, PreviewAssumption
  <2>2. Truncated(near[i], r).bytes \in Nat  BY <2>1 DEF Lines
  <2> QED BY <2>1, <2>2, PreviewAssumption
<1>4. 0 \in Found
  <2>1. Solves([i \in 0 .. 0 |-> MaxBytes], 0)  BY PreviewAssumption
  <2> HIDE DEF Solves
  <2> QED BY <2>1
<1>5. ASSUME NEW m \in 1 .. N, m - 1 \in Found PROVE m \in Found
  <2>1. PICK g : Solves(g, m - 1)  BY <1>5
  <2> DEFINE h == [i \in 0 .. m |-> IF i = m THEN Left(m, g[m - 1]) ELSE g[i]]
  <2> HIDE DEF Left
  <2>2. m \in Nat /\ m - 1 \in 0 .. (m - 1) /\ \A i \in 0 .. m : i # m => i \in 0 .. (m - 1)
    BY <1>1
  <2>3. g[m - 1] \in 0 .. MaxBytes /\ Left(m, g[m - 1]) \in 0 .. MaxBytes
    BY <1>3, <2>1, <2>2
  <2>4. h \in [0 .. m -> 0 .. MaxBytes]  BY <2>1, <2>2, <2>3
  <2>5. h[0] = MaxBytes  BY <2>1, <2>2
  <2>6. ASSUME NEW i \in 1 .. m PROVE h[i] = Left(i, h[i - 1])
    <3>1. i - 1 \in 0 .. m /\ i - 1 # m /\ i \in 0 .. m  BY <2>2
    <3>2. h[i - 1] = g[i - 1]  BY <3>1
    <3>3. CASE i = m  BY <3>1, <3>2, <3>3
    <3>4. CASE i # m
      <4>1. i \in 1 .. (m - 1)  BY <2>2, <3>4
      <4> QED BY <2>1, <3>1, <3>2, <3>4, <4>1
    <3> QED BY <3>3, <3>4
  <2> HIDE DEF h
  <2>7. Solves(h, m)  BY <2>4, <2>5, <2>6
  <2> HIDE DEF Solves
  <2> QED BY <2>2, <2>7
<1>6. N \in Found
  <2>1. N \in 0 .. N  BY <1>1
  <2> HIDE DEF Found, N
  <2> QED BY <1>1, <1>4, <1>5, <2>1, StepByStep
<1>7. PICK g : Solves(g, N)  BY <1>6
<1>8. IsRoom(g)
  <2> HIDE DEF N, P, Left
  <2>1. DOMAIN g = P /\ g = [i \in P |-> g[i]]  BY <1>1, <1>7
  <2>2. \A i \in P : g[i] = IF i = 0 THEN MaxBytes ELSE Left(i, g[i - 1])  BY <1>1, <1>7
  <2> QED BY <2>1, <2>2
<1>9. IsRoom(Room(entry))
  <2>1. Room(entry) = CHOOSE h : IsRoom(h)  BY DEF Room
  <2> HIDE DEF IsRoom
  <2> QED BY <1>8, <2>1
<1> DEFINE room == Room(entry)
           InRoom == {m \in Nat : room[m] \in 0 .. MaxBytes}
<1> HIDE DEF N, P, Left, room
<1>10. room[0] = MaxBytes /\ \A i \in 1 .. N : room[i] = Left(i, room[i - 1])
  <2>1. room = [i \in P |-> IF i = 0 THEN MaxBytes ELSE Left(i, room[i - 1])]
    BY <1>9 DEF room
  <2> QED BY <1>1, <2>1
<1>11. \A m \in 0 .. N : m \in InRoom
  <2>1. 0 \in InRoom  BY <1>10, PreviewAssumption
  <2>2. ASSUME NEW m \in 1 .. N, m - 1 \in InRoom PROVE m \in InRoom
    BY <1>1, <1>3, <1>10, <2>2
  <2> HIDE DEF InRoom
  <2> QED BY <1>1, <2>1, <2>2, StepByStep
<1>12. \A i \in 1 .. N : i - 1 \in P  BY <1>1
<1> QED BY <1>1, <1>10, <1>11, <1>12 DEF P, Left, room

\* The nearest m lines, as far as they are kept.
KeptTo(entry, m) ==
    {Truncated(Nearest(entry)[i], Room(entry)[i - 1]) :
        i \in {j \in 1 .. m : j <= MaxLines /\ Room(entry)[j - 1] > 0}}

LEMMA KeptFits ==
    ASSUME NEW entry, IsEntry(entry), NEW m \in Places(entry) \cup {0}
    PROVE  /\ IsText(KeptTo(entry, m)) /\ Cardinality(KeptTo(entry, m)) <= MaxLines
           /\ TotalBytes(KeptTo(entry, m)) <= MaxBytes
<1> DEFINE near == Nearest(entry)
           room == Room(entry)
           N == Cardinality(ContextLines(entry))
           K(i) == KeptTo(entry, i)
           Fits(i) == /\ IsText(K(i)) /\ Cardinality(K(i)) <= MaxLines /\ Cardinality(K(i)) <= i
                      /\ TotalBytes(K(i)) <= MaxBytes - room[i]
                      /\ \A k \in K(i) : \E j \in 1 .. i : k.n = near[j].n
           Good == {i \in Nat : Fits(i)}
<1>1. N \in Nat /\ Places(entry) = 1 .. N /\ m \in 0 .. N  BY ContextText
<1>2. /\ \A i \in 0 .. N : room[i] \in 0 .. MaxBytes
      /\ \A i \in 1 .. N : room[i] = room[i - 1] - Truncated(near[i], room[i - 1]).bytes
      /\ room[0] = MaxBytes
  <2>1. Places(entry) \cup {0} = 0 .. N  BY <1>1
  <2> HIDE DEF N, near, room
  <2> QED BY <1>1, <2>1, RoomFacts DEF near, room
<1>3. \A i \in 1 .. N : near[i] \in Lines
  BY <1>1, NearestFacts, ContextText DEF IsText
<1>4. \A i, j \in 1 .. N : near[i].n = near[j].n => i = j  BY <1>1, NearestFacts
<1>5. 0 \in Good
  <2>1. K(0) = {}  BY DEF KeptTo
  <2> HIDE DEF K
  <2> QED BY <1>2, <2>1, EmptyText, PreviewAssumption
<1>6. ASSUME NEW i \in 1 .. N, i - 1 \in Good PROVE i \in Good
  <2> DEFINE t == Truncated(near[i], room[i - 1])
             taken == i <= MaxLines /\ room[i - 1] > 0
  <2>1. /\ i - 1 \in 0 .. N /\ room[i - 1] \in 0 .. MaxBytes /\ room[i] \in 0 .. MaxBytes
        /\ room[i] = room[i - 1] - t.bytes
    BY <1>1, <1>2
  <2>2. t \in Lines /\ t.n = near[i].n /\ t.bytes <= room[i - 1] /\ t.bytes \in Nat
    <3>1. room[i - 1] \in Nat /\ near[i] \in Lines  BY <1>3, <2>1, PreviewAssumption
    <3>2. t \in Lines /\ t.n = near[i].n /\ t.bytes <= room[i - 1]  BY <3>1, TruncatedFacts
    <3> QED BY <3>2 DEF Lines
  <2>3. K(i) = IF taken THEN K(i - 1) \cup {t} ELSE K(i - 1)
    <3>1. /\ {j \in 1 .. i : j <= MaxLines /\ room[j - 1] > 0} =
             {j \in 1 .. (i - 1) : j <= MaxLines /\ room[j - 1] > 0} \cup IF taken THEN {i} ELSE {}
      BY <1>1
    <3> QED BY <3>1 DEF KeptTo
  <2>4. Fits(i - 1)  BY <1>6
  <2>5. \A k \in K(i - 1) : k.n # t.n
    <3> SUFFICES ASSUME NEW k \in K(i - 1), k.n = t.n PROVE FALSE  OBVIOUS
    <3> HIDE DEF K, near, t, N
    <3>1. PICK j \in 1 .. (i - 1) : k.n = near[j].n  BY <2>4
    <3>2. j \in 1 .. N /\ j # i  BY <1>1
    <3> QED BY <1>4, <2>2, <3>1, <3>2
  <2>6. IsText(K(i - 1)) /\ Cardinality(K(i - 1)) \in Nat /\ TotalBytes(K(i - 1)) \in Nat
    <3> HIDE DEF K
    <3> QED BY <2>4, TextBytes
  <2> HIDE DEF K, t, near, room, N
  <2>7. \A k \in K(i) : \E j \in 1 .. i : k.n = near[j].n
    <3> SUFFICES ASSUME NEW k \in K(i) PROVE \E j \in 1 .. i : k.n = near[j].n  OBVIOUS
    <3>1. CASE k \in K(i - 1)
      <4>1. PICK j \in 1 .. (i - 1) : k.n = near[j].n  BY <2>4, <3>1
      <4> QED BY <1>1, <4>1
    <3>2. CASE k = t  BY <1>1, <2>2, <3>2
    <3> QED BY <2>3, <3>1, <3>2
  <2>8. CASE taken
    <3>1. /\ IsText(K(i)) /\ TotalBytes(K(i)) = TotalBytes(K(i - 1)) + t.bytes
          /\ Cardinality(K(i)) = Cardinality(K(i - 1)) + 1
      BY <2>2, <2>3, <2>5, <2>6, <2>8, TextWith
    <3>2. TotalBytes(K(i)) <= MaxBytes - room[i]
      BY <2>1, <2>2, <2>4, <2>6, <3>1, PreviewAssumption
    <3>3. Cardinality(K(i)) <= MaxLines /\ Cardinality(K(i)) <= i
      BY <1>1, <2>4, <2>6, <2>8, <3>1, PreviewAssumption
    <3> QED BY <1>1, <2>7, <3>1, <3>2, <3>3
  <2>9. CASE ~taken
    <3>1. K(i) = K(i - 1)  BY <2>3, <2>9
    <3>2. TotalBytes(K(i)) <= MaxBytes - room[i]
      BY <2>1, <2>2, <2>4, <2>6, <3>1, PreviewAssumption
    <3>3. Cardinality(K(i)) <= MaxLines /\ Cardinality(K(i)) <= i
      BY <1>1, <2>4, <2>6, <3>1, PreviewAssumption
    <3> QED BY <1>1, <2>4, <2>7, <3>1, <3>2, <3>3
  <2> QED BY <2>8, <2>9
<1>7. m \in Good
  <2> HIDE DEF Good, N
  <2> QED BY <1>1, <1>5, <1>6, StepByStep
<1> DEFINE total == TotalBytes(K(m))
<1>8. total \in Nat /\ room[m] \in 0 .. MaxBytes
  <2>1. IsText(K(m))  BY <1>7
  <2> HIDE DEF K
  <2> QED BY <1>1, <1>2, <2>1, TextBytes
<1> HIDE DEF K, room
<1> QED BY <1>7, <1>8, PreviewAssumption DEF K

\* What is kept with a handle.
LEMMA MatchFacts ==
    ASSUME NEW entry, IsEntry(entry)
    PROVE  LET kept == MatchLines(entry)
           IN  /\ IsText(kept.lines) /\ kept.cut \in BOOLEAN
               /\ Cardinality(kept.lines) <= MaxLines /\ TotalBytes(kept.lines) <= MaxBytes
               /\ ~kept.cut => kept.lines = ContextLines(entry)
               /\ kept.lines = {} => ContextLines(entry) = {}
               /\ \A l \in ContextLines(entry) : l.n = entry.at /\ l.bytes > 0 =>
                    \E k \in kept.lines : k.n = l.n /\ k.bytes > 0
<1> DEFINE near == Nearest(entry)
           room == Room(entry)
           C == ContextLines(entry)
           N == Cardinality(C)
           first == {i \in Places(entry) : i <= MaxLines /\ room[i - 1] > 0}
           lines == {Truncated(near[i], room[i - 1]) : i \in first}
           cut == \E i \in Places(entry) : i \notin first \/ near[i].bytes > room[i - 1]
<1>1. MatchLines(entry) = [lines |-> lines, cut |-> cut]  BY DEF MatchLines
<1>2. N \in Nat /\ Places(entry) = 1 .. N /\ N \in Places(entry) \cup {0}  BY ContextText
<1>3. lines = KeptTo(entry, N)  BY <1>2 DEF KeptTo
<1>4. IsText(lines) /\ Cardinality(lines) <= MaxLines /\ TotalBytes(lines) <= MaxBytes
  <2> HIDE DEF lines, N
  <2> QED BY <1>2, <1>3, KeptFits
<1>5. /\ \A i \in Places(entry) : room[i - 1] \in Nat /\ near[i] \in C /\ near[i] \in Lines
      /\ room[0] = MaxBytes
  BY RoomFacts, NearestFacts, ContextText, PreviewAssumption DEF IsText
<1>6. \A l \in C : \E i \in Places(entry) : near[i] = l  BY NearestFacts
<1>7. ASSUME ~cut PROVE lines = C
  <2>1. \A i \in Places(entry) : i \in first /\ near[i].bytes <= room[i - 1]
    <3>1. \A i \in Places(entry) : near[i].bytes \in Nat  BY <1>5 DEF Lines
    <3> QED BY <1>5, <1>7, <3>1
  <2>2. \A i \in Places(entry) : Truncated(near[i], room[i - 1]) = near[i]
    BY <2>1 DEF Truncated
  <2> HIDE DEF near, room, C
  <2> QED BY <1>5, <1>6, <2>1, <2>2
<1>8. ASSUME 1 \in Places(entry)
      PROVE  /\ Truncated(near[1], MaxBytes) \in lines /\ Truncated(near[1], MaxBytes).n = near[1].n
             /\ near[1].bytes > 0 => Truncated(near[1], MaxBytes).bytes > 0
  <2>1. room[1 - 1] = MaxBytes  BY <1>5
  <2>2. 1 \in first  BY <1>8, <2>1, PreviewAssumption
  <2>3. near[1] \in Lines /\ MaxBytes \in Nat /\ near[1].width <= MaxBytes
    BY <1>5, <1>8, PreviewAssumption DEF Lines
  <2> HIDE DEF near, room, first
  <2> QED BY <2>1, <2>2, <2>3, TruncatedFacts
<1>9. ASSUME C # {} PROVE lines # {}
  <2>1. 1 \in Places(entry)
    <3>1. PICK i \in Places(entry) : TRUE  BY <1>6, <1>9
    <3> QED BY <1>2, <3>1
  <2> QED BY <1>8, <2>1
<1>10. ASSUME NEW l \in C, l.n = entry.at, l.bytes > 0
       PROVE  \E k \in lines : k.n = l.n /\ k.bytes > 0
  <2>1. 1 \in Places(entry) /\ near[1] = l  BY <1>10, NearestFacts
  <2> HIDE DEF lines, near
  <2> QED BY <1>8, <1>10, <2>1
<1> HIDE DEF lines, cut, C
<1> QED BY <1>1, <1>4, <1>7, <1>9, <1>10 DEF C, cut

-----------------------------------------------------------------------------
(* What the replies show. *)

\* What the index says of a result, as it is kept with its handle.
Kept(p) ==
    /\ p.entry \in Entries
    /\ p.lines = MatchLines(p.entry).lines /\ p.cut = MatchLines(p.entry).cut

\* A call reads the file of a match view only where no line was kept.
KeptFor(op, p) == Kept(p) /\ op \in Previewed /\ (op[2] = "match" => p.lines = {})

\* PreviewHonest of one reply.
Honest(r) ==
    \A entry \in r.entry :
        /\ Cardinality(r.lines) <= MaxLines /\ TotalBytes(r.lines) <= MaxBytes
        /\ ~r.cut /\ ~r.fallback /\ r.op[2] = "document" => r.lines = entry.file
        /\ ~r.cut /\ (r.fallback \/ (r.op[2] = "match" /\ ContextLines(entry) # {})) =>
                r.lines = ContextLines(entry)
        /\ r.op[2] = "match" =>
            \A l \in ContextLines(entry) : l.n = entry.at /\ l.bytes > 0 =>
                \E k \in r.lines : k.n = l.n /\ k.bytes > 0

PreviewInv ==
    /\ \A h \in DOMAIN previews : Kept(previews[h])
    /\ \A c \in Callers : \A p \in call[c].target : KeptFor(call[c].op, p)
    /\ Honest(reply)

LEMMA KeptFacts ==
    ASSUME NEW p, Kept(p)
    PROVE  /\ IsEntry(p.entry) /\ IsFile(File(p)) /\ p.entry.at \in Nat \ {0}
           /\ IsText(p.lines) /\ p.cut \in BOOLEAN
           /\ Cardinality(p.lines) <= MaxLines /\ TotalBytes(p.lines) <= MaxBytes
           /\ ~p.cut => p.lines = ContextLines(p.entry)
           /\ p.lines = {} => ContextLines(p.entry) = {}
           /\ \A l \in ContextLines(p.entry) : l.n = p.entry.at /\ l.bytes > 0 =>
                \E k \in p.lines : k.n = l.n /\ k.bytes > 0
<1>1. /\ p.entry.file \in Files /\ p.entry.at \in Nat \ {0}
      /\ IsText(p.entry.context) /\ IsText(p.entry.text) /\ \A l \in p.entry.text : l.n = p.entry.at
  BY ContentsAssumption DEF Kept
<1>2. IsEntry(p.entry)  BY <1>1 DEF IsEntry
<1>3. IsFile(File(p))  BY <1>1, ContentsAssumption DEF File
<1> QED BY <1>1, <1>2, <1>3, MatchFacts DEF Kept

LEMMA SilenceHonest == ASSUME NEW r, r = NoReply PROVE Honest(r)
BY DEF Honest, NoReply

\* A match view shows the lines that were kept.
LEMMA MatchHonest ==
    ASSUME NEW op, op[2] = "match", NEW p, Kept(p)
    PROVE  Honest(Text(op, p, p.lines, p.cut, FALSE))
<1> DEFINE r == Text(op, p, p.lines, p.cut, FALSE)
<1>1. /\ IsText(p.lines) /\ p.cut \in BOOLEAN
      /\ Cardinality(p.lines) <= MaxLines /\ TotalBytes(p.lines) <= MaxBytes
  BY KeptFacts
<1>2. /\ r.op = op /\ r.entry = {p.entry} /\ r.fallback = FALSE
      /\ r.lines = Bounded(p.lines, p.cut).lines
      /\ Cardinality(r.lines) <= MaxLines /\ TotalBytes(r.lines) <= MaxBytes
      /\ ~r.cut => ~p.cut
  BY <1>1, BoundedFits DEF Text
<1>3. r.lines = p.lines  BY <1>1, <1>2, BoundedAll
<1> HIDE DEF r
<1>4. ~p.cut => p.lines = ContextLines(p.entry)  BY KeptFacts
<1>5. \A l \in ContextLines(p.entry) : l.n = p.entry.at /\ l.bytes > 0 =>
        \E k \in p.lines : k.n = l.n /\ k.bytes > 0
  BY KeptFacts
<1>6. Honest(r)  BY <1>2, <1>3, <1>4, <1>5 DEF Honest
<1> QED BY <1>6 DEF r

\* What is shown when the file was read.
LEMMA ReplyHonest ==
    ASSUME NEW op, NEW p, KeptFor(op, p)
    PROVE  Honest(ReplyFor(op, p))
<1> DEFINE read == ReadView(File(p), op[2], p.entry.at)
<1>1. /\ IsFile(File(p)) /\ p.entry.at \in Nat \ {0} /\ op[2] \in Views
      /\ IsText(p.lines) /\ p.cut \in BOOLEAN /\ Kept(p)
  BY KeptFacts, OperationFacts DEF KeptFor
<1>2. op[2] = "match" => ContextLines(p.entry) = {}  BY <1>1, KeptFacts DEF KeptFor
<1>3. CASE read.ok
  <2> DEFINE r == Text(op, p, read.lines, p.cut, FALSE)
  <2>1. ReplyFor(op, p) = r  BY <1>3 DEF ReplyFor
  <2>2. IsText(read.lines) /\ (op[2] = "document" /\ Whole(read.lines) = read.lines =>
                                    read.lines = File(p))
    BY <1>1, <1>3, ReadFacts
  <2> HIDE DEF read
  <2>3. /\ r.op = op /\ r.entry = {p.entry} /\ r.fallback = FALSE
        /\ Cardinality(r.lines) <= MaxLines /\ TotalBytes(r.lines) <= MaxBytes
        /\ ~r.cut => Whole(read.lines) = read.lines /\ r.lines = read.lines
    BY <1>1, <2>2, BoundedFits DEF Text
  <2> HIDE DEF r
  <2>4. File(p) = p.entry.file  BY DEF File
  <2>5. Honest(r)  BY <1>2, <2>2, <2>3, <2>4 DEF Honest
  <2> QED BY <2>1, <2>5
<1>4. CASE ~read.ok /\ op[2] \in {"window", "document"} /\ p.lines # {}
  <2> DEFINE r == Text(op, p, p.lines, p.cut, TRUE)
  <2>1. ReplyFor(op, p) = r  BY <1>4 DEF ReplyFor
  <2>2. /\ r.op = op /\ r.entry = {p.entry} /\ r.fallback = TRUE
        /\ Cardinality(r.lines) <= MaxLines /\ TotalBytes(r.lines) <= MaxBytes
        /\ ~r.cut => ~p.cut /\ r.lines = p.lines
    BY <1>1, BoundedFits DEF Text
  <2> HIDE DEF r
  <2>3. ~p.cut => p.lines = ContextLines(p.entry)  BY <1>1, KeptFacts
  <2>4. Honest(r)  BY <1>4, <2>2, <2>3 DEF Honest
  <2> QED BY <2>1, <2>4
<1>5. CASE ~read.ok /\ ~(op[2] \in {"window", "document"} /\ p.lines # {})
  <2>1. ReplyFor(op, p) = NoReply  BY <1>5 DEF ReplyFor
  <2> QED BY <2>1, SilenceHonest
<1> QED BY <1>3, <1>4, <1>5

\* A call's target stays with its operation, or goes with the call.
LEMMA CallKeeps ==
    ASSUME Typed, PreviewInv, NEW c \in Callers, NEW k,
           k.target = {} \/ (k.target = call[c].target /\ k.op = call[c].op),
           call' = [call EXCEPT ![c] = k], previews' = previews, Honest(reply')
    PROVE  PreviewInv'
<1>1. call = [d \in Callers |-> call[d]]  BY DEF Typed
<1>2. call'[c] = k /\ \A d \in Callers \ {c} : call'[d] = call[d]  BY <1>1
<1>3. ASSUME NEW d \in Callers, NEW p \in call'[d].target PROVE KeptFor(call'[d].op, p)
  BY <1>2, <1>3 DEF PreviewInv
<1> QED BY <1>3 DEF PreviewInv

LEMMA EndsHonest ==
    ASSUME Typed, PreviewInv, NEW c \in Callers, call' = [call EXCEPT ![c] = Idle],
           previews' = previews, Honest(reply')
    PROVE  PreviewInv'
<1>1. Idle.target = {}  BY DEF Idle
<1> QED BY <1>1, CallKeeps

\* A call that goes on keeps its operation and its target.
LEMMA GoesHonest ==
    ASSUME Typed, PreviewInv, NEW c \in Callers, previews' = previews, reply' = NoReply,
           \/ \E pc : call' = [call EXCEPT ![c].pc = pc]
           \/ \E pc, task : call' = [call EXCEPT ![c].pc = pc, ![c].task = task]
           \/ \E pc : call' = [call EXCEPT ![c].pc = pc, ![c].reconnects = @ + 1]
    PROVE  PreviewInv'
<1>1. call = [d \in Callers |-> call[d]] /\ CallType(call[c])  BY DEF Typed
<1>2. PICK k : k.target = call[c].target /\ k.op = call[c].op /\ call' = [call EXCEPT ![c] = k]
  <2>1. ASSUME NEW pc, call' = [call EXCEPT ![c].pc = pc]
        PROVE  \E k : k.target = call[c].target /\ k.op = call[c].op /\ call' = [call EXCEPT ![c] = k]
    <3> DEFINE k == [call[c] EXCEPT !.pc = pc]
    <3>1. k.target = call[c].target /\ k.op = call[c].op  BY <1>1 DEF CallType
    <3>2. call' = [call EXCEPT ![c] = k]  BY <1>1, <2>1
    <3> HIDE DEF k
    <3> QED BY <3>1, <3>2
  <2>2. ASSUME NEW pc, NEW task, call' = [call EXCEPT ![c].pc = pc, ![c].task = task]
        PROVE  \E k : k.target = call[c].target /\ k.op = call[c].op /\ call' = [call EXCEPT ![c] = k]
    <3> DEFINE k == [call[c] EXCEPT !.pc = pc, !.task = task]
    <3>1. k.target = call[c].target /\ k.op = call[c].op  BY <1>1 DEF CallType
    <3>2. call' = [call EXCEPT ![c] = k]  BY <1>1, <2>2
    <3> HIDE DEF k
    <3> QED BY <3>1, <3>2
  <2>3. ASSUME NEW pc, call' = [call EXCEPT ![c].pc = pc, ![c].reconnects = @ + 1]
        PROVE  \E k : k.target = call[c].target /\ k.op = call[c].op /\ call' = [call EXCEPT ![c] = k]
    <3> DEFINE k == [call[c] EXCEPT !.pc = pc, !.reconnects = call[c].reconnects + 1]
    <3>1. k.target = call[c].target /\ k.op = call[c].op  BY <1>1 DEF CallType
    <3>2. call' = [call EXCEPT ![c] = k]  BY <1>1, <2>3
    <3> HIDE DEF k
    <3> QED BY <3>1, <3>2
  <2> QED BY <2>1, <2>2, <2>3
<1> QED BY <1>2, CallKeeps, SilenceHonest

LEMMA ProgressHonest ==
    ASSUME IInv, PreviewInv, NEW c \in Callers,
           Progress(c) \/ SubscriptionFails(c) \/ TaskEnds(c)
    PROVE  PreviewInv'
<1>1. Typed  BY DEF IInv
<1>2. CASE Admit(c)
  <2>1. CASE Ends(c)  BY <1>1, <1>2, <2>1, EndsHonest, SilenceHonest DEF Admit, Ends
  <2>2. CASE ~Ends(c)
    <3>1. /\ previews' = previews /\ reply' = NoReply
          /\ \/ \E pc : call' = [call EXCEPT ![c].pc = pc]
             \/ \E pc, task : call' = [call EXCEPT ![c].pc = pc, ![c].task = task]
      BY <1>2, <2>2 DEF Admit, Goes
    <3> QED BY <1>1, <3>1, GoesHonest
  <2> QED BY <2>1, <2>2
<1>3. CASE TaskAdmitted(c)
  <2>1. /\ previews' = previews /\ reply' = NoReply
        /\ \E pc, task : call' = [call EXCEPT ![c].pc = pc, ![c].task = task]
    BY <1>3 DEF TaskAdmitted, Silent
  <2> QED BY <1>1, <2>1, GoesHonest
<1>4. CASE SubmissionFails(c) \/ SubscriptionFails(c)
  BY <1>1, <1>4, EndsHonest, SilenceHonest DEF SubmissionFails, SubscriptionFails, Ends
<1>5. CASE InstructionsRequired(c)  BY <1>1, <1>5, GoesHonest DEF InstructionsRequired, Goes
<1>6. CASE AnsweredAtOnce(c) \/ TaskEnds(c)
  <2>1. /\ previews' = previews /\ call' = [call EXCEPT ![c] = Idle]
        /\ reply' \in {NoReply} \cup {ReplyFor(call[c].op, p) : p \in call[c].target}
    BY <1>6 DEF AnsweredAtOnce, TaskEnds
  <2>2. Honest(reply')
    <3>1. CASE reply' = NoReply  BY <3>1, SilenceHonest
    <3>2. ASSUME NEW p \in call[c].target, reply' = ReplyFor(call[c].op, p) PROVE Honest(reply')
      <4>1. KeptFor(call[c].op, p)  BY DEF PreviewInv
      <4>2. Honest(ReplyFor(call[c].op, p))  BY <4>1, ReplyHonest
      <4> QED BY <3>2, <4>2
    <3> QED BY <2>1, <3>1, <3>2
  <2> QED BY <1>1, <2>1, <2>2, EndsHonest
<1>7. CASE Record(c)
  <2>1. CASE Ends(c)  BY <1>1, <1>7, <2>1, EndsHonest, SilenceHonest DEF Record, Ends
  <2>2. CASE Goes(c, "top")  BY <1>1, <1>7, <2>2, GoesHonest DEF Record, Goes
  <2> QED BY <1>7, <2>1, <2>2 DEF Record
<1>8. CASE WaitOn(c)
  <2>1. CASE Ends(c)  BY <1>1, <1>8, <2>1, EndsHonest, SilenceHonest DEF WaitOn, Ends
  <2>2. CASE Goes(c, "listen")  BY <1>1, <1>8, <2>2, GoesHonest DEF WaitOn, Goes
  <2> QED BY <1>8, <2>1, <2>2 DEF WaitOn
<1>9. CASE Interrupted(c)
  <2>1. CASE Ends(c)  BY <1>1, <1>9, <2>1, EndsHonest, SilenceHonest DEF Interrupted, Ends
  <2>2. CASE ~Ends(c)
    <3>1. /\ previews' = previews /\ reply' = NoReply
          /\ \E pc : call' = [call EXCEPT ![c].pc = pc, ![c].reconnects = @ + 1]
      BY <1>9, <2>2 DEF Interrupted
    <3> QED BY <1>1, <3>1, GoesHonest
  <2> QED BY <2>1, <2>2
<1> QED BY <1>2, <1>3, <1>4, <1>5, <1>6, <1>7, <1>8, <1>9 DEF Progress

LEMMA AskedHonest ==
    ASSUME IInv, PreviewInv, NEW c \in Callers, NEW h \in 1 .. MaxIssued, NEW view \in Views,
           NEW continued \in BOOLEAN, Preview(c, h, view, continued)
    PROVE  PreviewInv'
<1> DEFINE op == <<h, view>>
           known == h \in LiveHandles
           kept == known /\ view = "match" /\ previews[h].lines # {}
           target == {[previews[h] EXCEPT !.age = 0]}
           expected == IF continued THEN told[op] ELSE NoTask
           k == [Idle EXCEPT !.pc = "admit", !.op = op, !.target = target, !.expected = expected]
<1>1. /\ previews' = Only(LiveHandles, previews)
      /\ reply' = IF kept THEN Text(op, previews[h], previews[h].lines, previews[h].cut, FALSE)
                  ELSE IF known /\ ~routed /\ ~continued THEN ReplyFor(op, previews[h])
                  ELSE NoReply
      /\ call' = IF known /\ ~kept /\ routed THEN [call EXCEPT ![c] = k] ELSE call
  BY DEF Preview
<1>2. Typed /\ call = [d \in Callers |-> call[d]]  BY DEF IInv, Typed
<1>3. \A g \in DOMAIN previews' : Kept(previews'[g])  BY <1>1 DEF Only, PreviewInv
<1>4. op \in Previewed /\ op[2] = view  BY OperationFacts
<1>5. known => Kept(previews[h])  BY DEF PreviewInv, LiveHandles
<1>6. known /\ ~kept => KeptFor(op, previews[h])  BY <1>4, <1>5 DEF KeptFor
<1>7. Honest(reply')
  <2> HIDE DEF op
  <2>1. CASE kept  BY <1>1, <1>4, <1>5, <2>1, MatchHonest
  <2>2. CASE ~kept /\ known /\ ~routed /\ ~continued  BY <1>1, <1>6, <2>2, ReplyHonest
  <2>3. CASE ~kept /\ ~(known /\ ~routed /\ ~continued)  BY <1>1, <2>3, SilenceHonest
  <2> QED BY <2>1, <2>2, <2>3
<1>8. ASSUME NEW d \in Callers, NEW p \in call'[d].target PROVE KeptFor(call'[d].op, p)
  <2>1. CASE call'[d] = call[d]  BY <1>8, <2>1 DEF PreviewInv
  <2>2. CASE known /\ ~kept /\ d = c /\ call'[d] = k
    <3> HIDE DEF op, target, expected
    <3>1. k = NewCall(op, expected, target)  BY Zenon DEF NewCall, k
    <3> HIDE DEF k
    <3>6. k = Fresh("admit", op, expected, target)  BY <3>1, NewCallFresh
    <3>2. call'[d].op = op /\ call'[d].target = target  BY <2>2, <3>6 DEF Fresh
    <3>3. PreviewShape(previews[h])  BY <1>2, <2>2 DEF Typed, LiveHandles
    <3>4. p = [previews[h] EXCEPT !.age = 0]  BY <1>8, <3>2 DEF target
    <3>5. p.entry = previews[h].entry /\ p.lines = previews[h].lines /\ p.cut = previews[h].cut
      BY <3>3, <3>4 DEF PreviewShape
    <3> QED BY <1>6, <2>2, <3>2, <3>5 DEF KeptFor, Kept
  <2> HIDE DEF k, kept, known
  <2>3. call'[d] = call[d] \/ (known /\ ~kept /\ d = c /\ call'[d] = k)  BY <1>1, <1>2
  <2> QED BY <2>1, <2>2, <2>3
<1> QED BY <1>3, <1>7, <1>8 DEF PreviewInv

LEMMA IssuedHonest ==
    ASSUME IInv', PreviewInv, NEW batch \in Batches, IssueHandles(batch)
    PROVE  PreviewInv'
<1>1. ASSUME NEW h \in DOMAIN previews' PROVE Kept(previews'[h])
  <2>1. \/ h \in DOMAIN previews /\ previews'[h] = previews[h]
        \/ \E entry : previews'[h] = NewPreview(entry)
    BY <1>1 DEF IssueHandles, Survivors, LiveHandles
  <2>2. CASE h \in DOMAIN previews /\ previews'[h] = previews[h]  BY <2>2 DEF PreviewInv
  <2>3. ASSUME NEW entry, previews'[h] = NewPreview(entry) PROVE Kept(previews'[h])
    <3>1. previews'[h].entry \in Entries  BY <1>1 DEF IInv, Typed
    <3> QED BY <2>3, <3>1 DEF Kept, NewPreview
  <2> QED BY <2>1, <2>2, <2>3
<1>2. call' = call /\ reply' = NoReply  BY DEF IssueHandles
<1> QED BY <1>1, <1>2, SilenceHonest DEF PreviewInv

LEMMA TickHonest == ASSUME IInv, PreviewInv, Tick PROVE PreviewInv'
<1>1. /\ previews' = [h \in DOMAIN previews |->
                        [previews[h] EXCEPT !.age = Smaller(previews[h].age + 1, HandleTtl)]]
      /\ call' = [c \in Callers |-> IF call[c].pc = "idle" THEN Idle ELSE [call[c] EXCEPT !.age = 1]]
      /\ reply' = NoReply
  BY DEF Tick, Older, Silent
<1>2. ASSUME NEW h \in DOMAIN previews' PROVE Kept(previews'[h])
  <2>1. h \in DOMAIN previews /\ PreviewShape(previews[h])  BY <1>1, <1>2 DEF IInv, Typed
  <2>2. /\ previews'[h].entry = previews[h].entry /\ previews'[h].lines = previews[h].lines
        /\ previews'[h].cut = previews[h].cut
    BY <1>1, <2>1 DEF PreviewShape
  <2> QED BY <2>1, <2>2 DEF PreviewInv, Kept
<1>3. ASSUME NEW c \in Callers, NEW p \in call'[c].target PROVE KeptFor(call'[c].op, p)
  <2>1. Idle.target = {}  BY DEF Idle
  <2>2. CallType(call[c])  BY DEF IInv, Typed
  <2>3. CASE call[c].pc = "idle"  BY <1>1, <1>3, <2>1, <2>3
  <2>4. CASE call[c].pc # "idle"
    <3>1. call'[c] = [call[c] EXCEPT !.age = 1]  BY <1>1, <2>4
    <3>2. call'[c].op = call[c].op /\ call'[c].target = call[c].target
      BY <2>2, <3>1 DEF CallType
    <3> QED BY <1>3, <3>2 DEF PreviewInv
  <2> QED BY <2>3, <2>4
<1> QED BY <1>1, <1>2, <1>3, SilenceHonest DEF PreviewInv

LEMMA NextHonest == IInv /\ IInv' /\ PreviewInv /\ [Next]_vars => PreviewInv'
<1> SUFFICES ASSUME IInv, IInv', PreviewInv, [Next]_vars PROVE PreviewInv'  OBVIOUS
<1>1. ASSUME NEW batch \in Batches, IssueHandles(batch) PROVE PreviewInv'
  BY <1>1, IssuedHonest
<1>2. ASSUME NEW c \in Callers, NEW h \in 1 .. MaxIssued, NEW view \in Views,
             NEW continued \in BOOLEAN, Preview(c, h, view, continued)
      PROVE  PreviewInv'
  BY <1>2, AskedHonest
<1>3. ASSUME NEW c \in Callers, Search(c) PROVE PreviewInv'
  <2>1. /\ previews' = previews /\ reply' = NoReply
        /\ call' = [call EXCEPT ![c] = [Idle EXCEPT !.pc = "admit", !.op = <<searched', "search">>]]
    BY <1>3 DEF Search, Silent
  <2>2. [Idle EXCEPT !.pc = "admit", !.op = <<searched', "search">>].target = {}
    BY NewCallFresh DEF Fresh
  <2> QED BY <2>1, <2>2, CallKeeps, SilenceHonest DEF IInv
<1>4. ASSUME NEW c \in Callers, Progress(c) \/ SubscriptionFails(c) \/ TaskEnds(c)
      PROVE  PreviewInv'
  BY <1>4, ProgressHonest
<1>5. ASSUME NEW op \in Operations, HubFinishes(op) PROVE PreviewInv'
  BY <1>5, SilenceHonest DEF HubFinishes, Silent, PreviewInv
<1>6. CASE Tick  BY <1>6, TickHonest
<1>7. CASE Restart
  <2>1. previews' = <<>> /\ call' = [c \in Callers |-> Idle] /\ reply' = NoReply
    BY <1>7 DEF Restart, Silent
  <2>2. DOMAIN previews' = {} /\ \A c \in Callers : call'[c].target = {}  BY <2>1 DEF Idle
  <2> QED BY <2>1, <2>2, SilenceHonest DEF PreviewInv
<1>8. CASE UNCHANGED vars  BY <1>8 DEF vars, PreviewInv
<1> QED BY <1>1, <1>2, <1>3, <1>4, <1>5, <1>6, <1>7, <1>8 DEF Next

\* What handles and calls hold, and every reply, is as the code keeps it.
THEOREM PreviewInvariance == Spec => []PreviewInv
<1>1. Init => PreviewInv
  <2> SUFFICES ASSUME Init PROVE PreviewInv  OBVIOUS
  <2>1. previews = <<>> /\ call = [c \in Callers |-> Idle] /\ reply = NoReply  BY DEF Init
  <2>2. DOMAIN previews = {} /\ \A c \in Callers : call[c].target = {}  BY <2>1 DEF Idle
  <2> QED BY <2>1, <2>2, SilenceHonest DEF PreviewInv
<1> QED BY <1>1, NextHonest, Invariance, PTL DEF Spec

\* A text that is not marked truncated is whole, no text exceeds the reply's limits,
\* and a match preview shows the matched line: for files and results of any size.
THEOREM PreviewHonestHolds == Spec => []PreviewHonest
<1>1. PreviewInv => PreviewHonest
  <2> SUFFICES ASSUME PreviewInv PROVE PreviewHonest  OBVIOUS
  <2>1. \A h \in DOMAIN previews : previews[h].cut \in BOOLEAN  BY KeptFacts DEF PreviewInv
  <2> QED BY <2>1 DEF PreviewInv, Honest, PreviewHonest
<1> QED BY <1>1, PreviewInvariance, PTL
=============================================================================
