---------------------------- MODULE BrowserTasks ----------------------------
(***************************************************************************)
(* The browser console (console.rs) and its task client (gptadmin.rs).    *)
(* Every reply that lists files issues short-lived preview handles.  A    *)
(* preview, and a search of one host, becomes a task of the GPTAdmin hub: *)
(* a receipt is written before the task is submitted, so that no reply    *)
(* that is lost, no second browser tab and no continuation submits it     *)
(* again.  The hub itself is external.                                    *)
(***************************************************************************)
EXTENDS Preview, SequencesExt

CONSTANTS
    Files,         \* the contents a file may have
    Batches,       \* the lists of results a reply may show
    Callers,       \* requests that run at the same time
    MaxHandles,    \* MAX_PREVIEW_HANDLES
    HandleTtl,     \* PREVIEW_HANDLE_TTL
    MaxReceipts,   \* the receipt capacity
    ReceiptTtl,    \* the time a receipt is kept
    MaxReconnects, \* reconnects of a subscription
    MaxIssued,     \* bound on handles issued
    MaxSearches,   \* bound on host searches handed to the hub
    MaxCalls,      \* bound on requests
    MaxRestarts    \* bound on restarts

ASSUME TtlAssumption == HandleTtl \in Nat \ {0} /\ ReceiptTtl \in Nat /\ HandleTtl < ReceiptTtl
ASSUME LimitsAssumption ==
    /\ MaxHandles \in Nat /\ MaxReceipts \in Nat /\ MaxReconnects \in Nat
    /\ MaxIssued \in Nat /\ MaxSearches \in Nat /\ MaxCalls \in Nat /\ MaxRestarts \in Nat
ASSUME BatchesAssumption == \A batch \in Batches : batch \in Seq(Range(batch))

Entries == UNION {Range(b) : b \in Batches}

\* The files have numbered lines, and so has what the index says of a result.
ASSUME ContentsAssumption ==
    /\ \A file \in Files : IsFile(file)
    /\ \A entry \in Entries :
        /\ entry.file \in Files /\ entry.at \in Nat \ {0}
        /\ IsText(entry.context) /\ IsText(entry.text) /\ \A l \in entry.text : l.n = entry.at

VARIABLES
    routed,        \* a hub is configured (BrowserTaskClient::from_env)
    previews,      \* live handles: handle -> [age, entry, lines, cut]
    issued,        \* handles issued so far
    page,          \* the handles that the last step's reply listed, 0 where there is none
    receipts,      \* operation -> [age, task]; task 0 is not known
    call,          \* [Callers -> the request being served]
    hub,           \* the hub's tasks: [operation -> [runs, state]]
    told,          \* [operation -> the task a 202 reply named, or 0]
    reply,         \* the text the last step replied, if it did
    searched,      \* host searches so far
    asked,         \* requests so far
    restarts

vars == <<routed, previews, issued, page, receipts, call, hub, told, reply, searched, asked, restarts>>

Previewed == (1 .. MaxIssued) \X Views
Searched == (1 .. MaxSearches) \X {"search"}
Operations == Previewed \cup Searched
NoTask == 0
Idle == [pc |-> "idle", op |-> <<0, "none">>, expected |-> NoTask, task |-> NoTask,
         reconnects |-> 0, age |-> 0, target |-> {}]
NoReply == [op |-> <<0, "none">>, entry |-> {}, lines |-> {}, cut |-> FALSE, fallback |-> FALSE]
Steps == {"idle", "admit", "submit", "continue", "record", "top", "listen"}

Only(S, f) == [x \in DOMAIN f \cap S |-> f[x]]

TypeOK ==
    /\ routed \in BOOLEAN /\ issued \in 0 .. MaxIssued
    /\ DOMAIN previews \subseteq 1 .. issued /\ Cardinality(DOMAIN previews) <= MaxHandles
    /\ \A h \in DOMAIN previews :
        previews[h].age \in 0 .. HandleTtl /\ previews[h].entry \in Entries
    /\ \A i \in DOMAIN page : page[i] \in 0 .. issued
    /\ DOMAIN receipts \subseteq Operations /\ Cardinality(DOMAIN receipts) <= MaxReceipts
    /\ \A op \in DOMAIN receipts : receipts[op].age \in 0 .. ReceiptTtl /\ receipts[op].task \in Nat
    /\ \A c \in Callers :
        /\ call[c].pc \in Steps /\ (call[c].pc # "idle" => call[c].op \in Operations)
        /\ call[c].reconnects \in 0 .. MaxReconnects
    /\ \A op \in Operations :
        hub[op].runs \in Nat /\ hub[op].state \in {"none", "running", "over"}
    /\ told \in [Operations -> Nat]
    /\ searched \in 0 .. MaxSearches /\ asked \in 0 .. MaxCalls /\ restarts \in 0 .. MaxRestarts

Init ==
    /\ routed \in BOOLEAN /\ previews = <<>> /\ issued = 0 /\ page = <<>>
    /\ receipts = <<>> /\ call = [c \in Callers |-> Idle]
    /\ hub = [op \in Operations |-> [runs |-> 0, state |-> "none"]]
    /\ told = [op \in Operations |-> NoTask] /\ reply = NoReply /\ searched = 0 /\ asked = 0 /\ restarts = 0
-----------------------------------------------------------------------------
(* Preview handles. *)

\* The step replies neither a list nor a text.
Silent == page' = <<>> /\ reply' = NoReply

\* prune_preview_handles
LiveHandles == {h \in DOMAIN previews : previews[h].age < HandleTtl}

\* A result with a path and a host, in a directory listing a file.
Eligible(batch) == {i \in DOMAIN batch : batch[i].eligible}

\* The handles a reply may get (batch_capacity).
Reserved(batch) == Smaller(Cardinality(Eligible(batch)), MaxHandles)

\* The handles that stay: the first in the order of their ids go, which begin
\* with the time of issue; within one millisecond the order is arbitrary.
Survivors(batch) ==
    {kept \in SUBSET LiveHandles :
        /\ Cardinality(kept) = Smaller(Cardinality(LiveHandles), MaxHandles - Reserved(batch))
        /\ \A h \in kept, g \in LiveHandles \ kept : previews[h].age <= previews[g].age}

NewPreview(entry) ==
    [age |-> 0, entry |-> entry, lines |-> MatchLines(entry).lines, cut |-> MatchLines(entry).cut]

\* A reply of search, search_status, search_events or browse lists files: the
\* first results that fit get a handle, the others are marked unavailable.
IssueHandles(batch) ==
    /\ issued + Reserved(batch) <= MaxIssued
    /\ LET first == {i \in Eligible(batch) : Cardinality({j \in Eligible(batch) : j < i}) < Reserved(batch)}
           handle == [i \in first |-> issued + Cardinality({j \in first : j <= i})]
       IN  /\ \E kept \in Survivors(batch) :
                previews' = [h \in kept \cup {handle[i] : i \in first} |->
                    IF h \in kept THEN previews[h]
                    ELSE NewPreview(batch[CHOOSE i \in first : handle[i] = h])]
           /\ issued' = issued + Cardinality(first)
           /\ page' = [i \in DOMAIN batch |-> IF i \in first THEN handle[i] ELSE 0]
    /\ UNCHANGED <<routed, receipts, call, hub, told, searched, asked, restarts>> /\ reply' = NoReply
-----------------------------------------------------------------------------
(* Requests. *)

File(p) == p.entry.file

Text(op, p, lines, cut, fallback) ==
    LET shown == Bounded(lines, cut)
    IN  [op |-> op, entry |-> {p.entry}, lines |-> shown.lines, cut |-> shown.cut, fallback |-> fallback]

\* What the console answers when the text of the file, or the error of reading
\* it, is there: a range beyond the read limit falls back to the kept lines.
ReplyFor(op, p) ==
    LET read == ReadView(File(p), op[2], p.entry.at)
    IN  IF read.ok THEN Text(op, p, read.lines, p.cut, FALSE)
        ELSE IF op[2] \in {"window", "document"} /\ p.lines # {} THEN Text(op, p, p.lines, p.cut, TRUE)
        ELSE NoReply

\* preview: the handle is looked up; the kept lines answer a match view; without
\* a hub the file is read at once, and nothing can be continued.
Preview(c, h, view, continued) ==
    LET op == <<h, view>>
        known == h \in LiveHandles
        kept == known /\ view = "match" /\ previews[h].lines # {}
    IN  /\ call[c].pc = "idle" /\ asked < MaxCalls /\ h <= issued
        /\ continued => told[op] # NoTask
        /\ asked' = asked + 1
        /\ previews' = Only(LiveHandles, previews)
        /\ reply' = IF kept THEN Text(op, previews[h], previews[h].lines, previews[h].cut, FALSE)
                    ELSE IF known /\ ~routed /\ ~continued THEN ReplyFor(op, previews[h])
                    ELSE NoReply
        /\ call' = IF known /\ ~kept /\ routed
                   THEN [call EXCEPT ![c] = [Idle EXCEPT !.pc = "admit", !.op = op,
                                                         !.target = {[previews[h] EXCEPT !.age = 0]},
                                                         !.expected = IF continued THEN told[op] ELSE NoTask]]
                   ELSE call
        /\ UNCHANGED <<routed, issued, receipts, hub, told, searched, restarts>> /\ page' = <<>>

\* One host of a search that start_browser has started, searched once.
Search(c) ==
    /\ call[c].pc = "idle" /\ asked < MaxCalls /\ searched < MaxSearches /\ routed
    /\ asked' = asked + 1 /\ searched' = searched + 1
    /\ call' = [call EXCEPT ![c] = [Idle EXCEPT !.pc = "admit", !.op = <<searched', "search">>]]
    /\ UNCHANGED <<routed, previews, issued, receipts, hub, told, restarts>> /\ Silent

\* A call that ends with an error, or with nothing to show.
Ends(c) == call' = [call EXCEPT ![c] = Idle] /\ reply' = NoReply
Goes(c, pc) == call' = [call EXCEPT ![c].pc = pc] /\ reply' = NoReply

LiveReceipts == {op \in DOMAIN receipts : receipts[op].age < ReceiptTtl}

\* Mutant: the receipt is written when the task is known.
AdmitLate(c) ==
    LET op == call[c].op
    IN  /\ call[c].pc = "admit"
        /\ receipts' = Only(LiveReceipts, receipts)
        /\ IF op \in LiveReceipts /\ receipts[op].task # NoTask
           THEN call' = [call EXCEPT ![c].pc = "top", ![c].task = receipts[op].task]
           ELSE call' = [call EXCEPT ![c].pc = "submit"]
        /\ UNCHANGED <<routed, previews, issued, hub, told, searched, asked, restarts>> /\ Silent

\* Under the receipts lock: a continuation needs the receipt of its task, a task
\* that is known is joined, one that is not known is left alone, and a new
\* operation writes its receipt.
Admit(c) ==
    LET op == call[c].op
        held == op \in LiveReceipts
        task == IF held THEN receipts[op].task ELSE NoTask
        new == ~held /\ call[c].expected = NoTask /\ Cardinality(LiveReceipts) < MaxReceipts
    IN  /\ call[c].pc = "admit"
        /\ receipts' = [o \in LiveReceipts \cup (IF new THEN {op} ELSE {}) |->
                            IF o \in LiveReceipts THEN receipts[o] ELSE [age |-> 0, task |-> NoTask]]
        /\ \/ new /\ Goes(c, "submit")
           \/ /\ task # NoTask /\ call[c].expected \in {NoTask, task}
              /\ call' = [call EXCEPT ![c].pc = "top", ![c].task = task] /\ reply' = NoReply
           \/ ~new /\ (task = NoTask \/ call[c].expected \notin {NoTask, task}) /\ Ends(c)
        /\ UNCHANGED <<routed, previews, issued, hub, told, searched, asked, restarts>> /\ page' = <<>>

Submitting(c) == call[c].pc \in {"submit", "continue"}
Accepted(op) == hub' = [hub EXCEPT ![op] = [runs |-> @.runs + 1, state |-> "running"]]

\* The hub has made a task of the submission and its id arrives.
TaskAdmitted(c) ==
    /\ Submitting(c)
    /\ Accepted(call[c].op)
    /\ call' = [call EXCEPT ![c].pc = "record", ![c].task = hub[call[c].op].runs + 1]
    /\ UNCHANGED <<routed, previews, issued, receipts, told, searched, asked, restarts>> /\ Silent

\* The submission is lost, refused, or comes too late; or it was accepted and the
\* reply is lost, or is not one the client understands.
SubmissionFails(c) ==
    /\ Submitting(c)
    /\ UNCHANGED hub \/ Accepted(call[c].op)
    /\ Ends(c)
    /\ UNCHANGED <<routed, previews, issued, receipts, told, searched, asked, restarts>> /\ page' = <<>>

\* The hub has executed nothing and wants its instructions confirmed: the same
\* body goes out once more, with the context of the refusal.
InstructionsRequired(c) ==
    /\ call[c].pc = "submit"
    /\ Goes(c, "continue")
    /\ UNCHANGED <<routed, previews, issued, receipts, hub, told, searched, asked, restarts>> /\ page' = <<>>

\* The hub answers with the finished result instead of a task.
AnsweredAtOnce(c) ==
    /\ Submitting(c)
    /\ hub' = [hub EXCEPT ![call[c].op] = [runs |-> @.runs + 1, state |-> "over"]]
    /\ call' = [call EXCEPT ![c] = Idle]
    /\ reply' \in {NoReply} \cup {ReplyFor(call[c].op, p) : p \in call[c].target}
    /\ UNCHANGED <<routed, previews, issued, receipts, told, searched, asked, restarts>> /\ page' = <<>>

\* Mutant: the task id is handed on without a note in the receipt.
RecordForgets(c) ==
    /\ call[c].pc = "record" /\ Goes(c, "top")
    /\ UNCHANGED <<routed, previews, issued, receipts, hub, told, searched, asked, restarts>> /\ page' = <<>>

\* The task id goes into the receipt; a search also saves it with its job
\* (on_admitted), which may fail.
Record(c) ==
    /\ call[c].pc = "record"
    /\ receipts' = IF call[c].op \in DOMAIN receipts
                   THEN [receipts EXCEPT ![call[c].op].task = call[c].task] ELSE receipts
    /\ \/ call[c].op \in DOMAIN receipts /\ Goes(c, "top")
       \/ (call[c].op \notin DOMAIN receipts \/ call[c].op \in Searched) /\ Ends(c)
    /\ UNCHANGED <<routed, previews, issued, hub, told, searched, asked, restarts>> /\ page' = <<>>

\* With no time left the task is pending: a preview replies 202 with its id, a
\* search of a host fails.  Otherwise the end of the task is waited for.
WaitOn(c) ==
    /\ call[c].pc = "top"
    /\ \/ Goes(c, "listen") /\ UNCHANGED told
       \/ /\ Ends(c)
          /\ told' = IF call[c].op \in Previewed THEN [told EXCEPT ![call[c].op] = call[c].task] ELSE told
    /\ UNCHANGED <<routed, previews, issued, receipts, hub, searched, asked, restarts>> /\ page' = <<>>

\* Mutant: the subscription has no timeout of its own.
NeverInterrupted(c) == FALSE /\ UNCHANGED vars

\* The subscription is interrupted or ends, at the latest when its own timeout,
\* the time that is left, is over: it is opened again a few times.
Interrupted(c) ==
    /\ call[c].pc = "listen"
    /\ IF call[c].reconnects < MaxReconnects
       THEN call' = [call EXCEPT ![c].pc = "top", ![c].reconnects = @ + 1] /\ reply' = NoReply
       ELSE Ends(c)
    /\ UNCHANGED <<routed, previews, issued, receipts, hub, told, searched, asked, restarts>> /\ page' = <<>>

SubscriptionFails(c) ==
    /\ call[c].pc = "listen"
    /\ Ends(c)
    /\ UNCHANGED <<routed, previews, issued, receipts, hub, told, searched, asked, restarts>> /\ page' = <<>>

\* The subscription reports the end of the task: the text, or an error.
TaskEnds(c) ==
    /\ call[c].pc = "listen" /\ hub[call[c].op].state = "over"
    /\ call' = [call EXCEPT ![c] = Idle]
    /\ reply' \in {NoReply} \cup {ReplyFor(call[c].op, p) : p \in call[c].target}
    /\ UNCHANGED <<routed, previews, issued, receipts, hub, told, searched, asked, restarts>> /\ page' = <<>>

\* The hub (external): a task completes, fails, is cancelled or needs input.
HubFinishes(op) ==
    /\ hub[op].state = "running"
    /\ hub' = [hub EXCEPT ![op].state = "over"]
    /\ UNCHANGED <<routed, previews, issued, receipts, call, told, searched, asked, restarts>> /\ Silent

Older(f, ttl) == [x \in DOMAIN f |-> [f[x] EXCEPT !.age = Smaller(@ + 1, ttl)]]

\* Time passes, in units longer than a call.
Tick ==
    /\ \A c \in Callers : call[c].age = 0
    /\ previews' = Older(previews, HandleTtl) /\ receipts' = Older(receipts, ReceiptTtl)
    /\ call' = [c \in Callers |-> IF call[c].pc = "idle" THEN Idle ELSE [call[c] EXCEPT !.age = 1]]
    /\ UNCHANGED <<routed, issued, hub, told, searched, asked, restarts>> /\ Silent

\* Handles and receipts are in memory only; browsers and the hub go on.
Restart ==
    /\ restarts < MaxRestarts /\ restarts' = restarts + 1
    /\ previews' = <<>> /\ receipts' = <<>> /\ Silent
    /\ call' = [c \in Callers |-> Idle]
    /\ UNCHANGED <<routed, issued, hub, told, searched, asked>>

Progress(c) ==
    \/ Admit(c) \/ TaskAdmitted(c) \/ SubmissionFails(c) \/ InstructionsRequired(c) \/ AnsweredAtOnce(c)
    \/ Record(c) \/ WaitOn(c) \/ Interrupted(c)

Next ==
    \/ \E batch \in Batches : IssueHandles(batch)
    \/ \E c \in Callers :
        \/ \E h \in 1 .. MaxIssued, view \in Views, continued \in BOOLEAN : Preview(c, h, view, continued)
        \/ Search(c)
        \/ Progress(c) \/ SubscriptionFails(c) \/ TaskEnds(c)
    \/ \E op \in Operations : HubFinishes(op)
    \/ Tick \/ Restart

\* Every await of a call has the time that is left as its timeout, and the code
\* between two awaits runs on; the hub owes nothing.
Fairness == \A c \in Callers : WF_vars(Progress(c))

Spec == Init /\ [][Next]_vars /\ Fairness
-----------------------------------------------------------------------------
(* Properties. *)

\* "Do not resubmit": an operation becomes a task of the hub at most once, though
\* its reply may be lost, several tabs ask for the same preview at the same time
\* or later, pending reads are continued, and the process restarts.
SubmittedOnce == \A op \in Operations : hub[op].runs <= 1

\* A read that was reported as running can be continued for as long as its handle
\* lives: the receipt is there and names the task that the browser was given.
Resumable ==
    \A op \in Previewed :
        told[op] # NoTask /\ op[1] \in LiveHandles =>
            op \in LiveReceipts /\ receipts[op].task = told[op]

\* What a reply hands out can be used, within the capacities of both tables
\* (TypeOK): a handle that it lists is known when the browser gets it, since making
\* room never costs a handle of the same reply, and a running read can be continued.
HandedOutUsable ==
    /\ TypeOK /\ Resumable
    /\ \A i \in DOMAIN page : page[i] # 0 => page[i] \in DOMAIN previews

\* A text that is not marked truncated is whole: a document is all of the file and
\* a match all of the kept context.  A text never exceeds the reply's limits, and a
\* match preview shows the matched line, whatever else has to give way to it.
PreviewHonest ==
    /\ \A h \in DOMAIN previews : previews[h].cut \in BOOLEAN
    /\ \A entry \in reply.entry :
        /\ Cardinality(reply.lines) <= MaxLines /\ TotalBytes(reply.lines) <= MaxBytes
        /\ ~reply.cut /\ ~reply.fallback /\ reply.op[2] = "document" => reply.lines = entry.file
        /\ ~reply.cut /\ (reply.fallback \/ (reply.op[2] = "match" /\ ContextLines(entry) # {})) =>
                reply.lines = ContextLines(entry)
        /\ reply.op[2] = "match" =>
            \A l \in ContextLines(entry) : l.n = entry.at /\ l.bytes > 0 =>
                \E k \in reply.lines : k.n = l.n /\ k.bytes > 0

\* Every request ends, whether or not the hub ever answers.
CallsEnd == \A c \in Callers : call[c].pc # "idle" ~> call[c].pc = "idle"
=============================================================================
