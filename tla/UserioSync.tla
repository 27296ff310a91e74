----------------------------- MODULE UserioSync -----------------------------
(***************************************************************************)
(* The user conversations sync (userio.rs): a poller reads the UserIO      *)
(* store with one query after the other, renders each conversation into a  *)
(* main file and, if it is long, an archive file, copies or downloads the  *)
(* attachments, and removes the files that the store no longer explains.   *)
(* A pass writes a bounded number of conversation files.                   *)
(***************************************************************************)
EXTENDS Integers, FiniteSets, FiniteSetsExt

CONSTANTS
    Convs,         \* conversations, in the order of their ids
    Atts,          \* attachments
    Skipped,       \* attachments of a disabled stage, transcribed or too large
    MaxMessages,   \* bound on the messages of a conversation
    Size,          \* [1 .. MaxMessages -> the size of the n-th message's block]
    TailBudget, ArchiveBudget,      \* sizes of a main and of an archive file
    MaxWrites,     \* max_writes_per_sync
    MaxAttempts,   \* max_download_attempts
    MaxChanges,    \* bound on changes of the store
    MaxFaults      \* bound on failed passes and process ends

ASSUME UserioAssumption ==
    /\ Convs \subseteq Nat /\ Atts \subseteq Nat /\ Skipped \subseteq Atts
    /\ {MaxMessages, TailBudget, ArchiveBudget, MaxWrites, MaxAttempts} \subseteq Nat \ {0}
    /\ Size \in [1 .. MaxMessages -> Nat \ {0}]
    /\ MaxChanges \in Nat /\ MaxFaults \in Nat

VARIABLES
    store,         \* [Convs -> how many messages the conversation has, 0: there is none]
    atts,          \* [Atts -> "absent", "local": on disk, "remote": to be downloaded]
    files,         \* [Convs \X Suffixes -> the cached file]
    attFiles,      \* attachments in the cache
    temps,         \* temporary files left behind
    pc, rows, msgs, snapAtts,   \* the pass and what it has read
    todo,          \* conversations, then attachments still to do
    writing,       \* files of the conversation at hand still to write
    expected, expectedAtts,     \* files the store explains
    budget,                     \* writes left in this pass
    failures,      \* [Atts -> failed downloads in this process]
    changes, faults

storeVars == <<store, atts, changes>>
cacheVars == <<files, attFiles, temps>>
snapshot == <<rows, msgs, snapAtts>>
passVars == <<pc, snapshot, todo, writing, expected, expectedAtts, budget>>
vars == <<storeVars, cacheVars, passVars, failures, faults>>

Suffixes == {"main", "archive"}
Paths == Convs \X Suffixes
Counts == 0 .. MaxMessages
None == [total |-> 0]
-----------------------------------------------------------------------------
(* Rendering. *)

\* budget_tail and budget_head: how many of the newest of n blocks fit, at least one.
Fitting(n, limit) ==
    Max({k \in 0 .. n : \A j \in 2 .. k :
            MapThenSumSet(LAMBDA i : Size[i], (n - j + 1) .. n) <= limit})

File(row, total, first, last, omitted) ==
    [row |-> row, total |-> total, msgs |-> first .. last, omitted |-> omitted]

\* Mutant: the archive begins one message too early.
RenderedOverlapping(row, n) ==
    LET tail == Fitting(n, TailBudget)
        omitted == n - tail - Fitting(n - tail, ArchiveBudget)
    IN  [s \in Suffixes |->
            IF n = 0 \/ (s = "archive" /\ tail = n) THEN None
            ELSE IF s = "main" THEN File(row, n, n - tail + 1, n, 0)
            ELSE File(row, n, omitted + 1, n - tail + 1, omitted)]

\* render_conversation_files: the newest messages in the main file, older ones in the
\* archive, still older ones omitted; both headers carry the row and the count.
Rendered(row, n) ==
    LET tail == Fitting(n, TailBudget)
        omitted == n - tail - Fitting(n - tail, ArchiveBudget)
    IN  [s \in Suffixes |->
            IF n = 0 \/ (s = "archive" /\ tail = n) THEN None
            ELSE IF s = "main" THEN File(row, n, n - tail + 1, n, 0)
            ELSE File(row, n, omitted + 1, n - tail, omitted)]

Contents == {None} \cup [row : Counts, total : Counts, msgs : SUBSET (1 .. MaxMessages), omitted : Counts]
-----------------------------------------------------------------------------
TypeOK ==
    /\ store \in [Convs -> Counts] /\ atts \in [Atts -> {"absent", "local", "remote"}]
    /\ \A p \in Paths : files[p] \in Contents
    /\ attFiles \subseteq Atts /\ temps \subseteq Paths
    /\ pc \in {"idle", "messages", "attachments", "conversations", "write", "rename", "attach", "prune"}
    /\ rows \in [Convs -> Counts] /\ msgs \in [Convs -> Counts]
    /\ snapAtts \in [Atts -> {"absent", "local", "remote"}]
    /\ todo \subseteq Convs \cup Atts /\ writing \subseteq Paths
    /\ expected \subseteq Paths /\ expectedAtts \subseteq Atts
    /\ budget \in 0 .. MaxWrites
    /\ failures \in [Atts -> 0 .. MaxAttempts]
    /\ changes \in 0 .. MaxChanges /\ faults \in 0 .. MaxFaults

NoRows == [c \in Convs |-> 0]
NoAtts == [a \in Atts |-> "absent"]

NoPass ==
    /\ pc' = "idle" /\ rows' = NoRows /\ msgs' = NoRows /\ snapAtts' = NoAtts
    /\ todo' = {} /\ writing' = {} /\ expected' = {} /\ expectedAtts' = {}
    /\ budget' = MaxWrites

Init ==
    /\ store = [c \in Convs |-> 1] /\ atts = NoAtts /\ changes = 0
    /\ files = [p \in Paths |-> None] /\ attFiles = {} /\ temps = {}
    /\ pc = "idle" /\ rows = NoRows /\ msgs = NoRows /\ snapAtts = NoAtts
    /\ todo = {} /\ writing = {} /\ expected = {} /\ expectedAtts = {}
    /\ budget = MaxWrites
    /\ failures = [a \in Atts |-> 0] /\ faults = 0
-----------------------------------------------------------------------------
(* The store, whose owner is another program. *)

StoreChanges ==
    /\ changes < MaxChanges /\ changes' = changes + 1
    /\ \/ /\ \E c \in Convs :
                \/ store[c] < MaxMessages /\ store' = [store EXCEPT ![c] = @ + 1]
                \/ store[c] > 0 /\ store' = [store EXCEPT ![c] = 0]
          /\ UNCHANGED atts
       \/ /\ \E a \in Atts, s \in {"absent", "local", "remote"} :
                atts[a] # s /\ atts' = [atts EXCEPT ![a] = s]
          /\ UNCHANGED store
    /\ UNCHANGED <<cacheVars, passVars, failures, faults>>
-----------------------------------------------------------------------------
(* A pass: three queries, each on its own view of the store. *)

ReadConversations ==
    /\ pc = "idle" /\ pc' = "messages" /\ rows' = store
    /\ UNCHANGED <<storeVars, cacheVars, msgs, snapAtts, todo, writing, expected,
                   expectedAtts, budget, failures, faults>>

ReadMessages ==
    /\ pc = "messages" /\ pc' = "attachments" /\ msgs' = store
    /\ UNCHANGED <<storeVars, cacheVars, rows, snapAtts, todo, writing, expected,
                   expectedAtts, budget, failures, faults>>

ReadAttachments ==
    /\ pc = "attachments" /\ pc' = "conversations" /\ snapAtts' = atts
    /\ todo' = {c \in Convs : rows[c] > 0}
    /\ UNCHANGED <<storeVars, cacheVars, rows, msgs, writing, expected,
                   expectedAtts, budget, failures, faults>>

\* What the cached files of c should be, and which of them are not.
Render(c) == Rendered(rows[c], msgs[c])
FilesOf(c) == {<<c, s>> : s \in {t \in Suffixes : Render(c)[t] # None}}

\* Mutant: only the main file is compared.
PendingMain(c) == {p \in FilesOf(c) : p[2] = "main" /\ files[p] # Render(c)[p[2]]}

Pending(c) == {p \in FilesOf(c) : files[p] # Render(c)[p[2]]}
Current(c) == todo # {} /\ c = Min(todo)

\* Mutant: a conversation that is not written is not expected.
ConversationUnchangedForgotten ==
    /\ pc = "conversations"
    /\ \E c \in Convs : Current(c) /\ Pending(c) = {} /\ todo' = todo \ {c}
    /\ UNCHANGED <<storeVars, cacheVars, pc, snapshot, writing, expected, expectedAtts, budget, failures, faults>>

ConversationUnchanged ==
    /\ pc = "conversations"
    /\ \E c \in Convs :
        /\ Current(c) /\ Pending(c) = {}
        /\ todo' = todo \ {c} /\ expected' = expected \cup FilesOf(c)
    /\ UNCHANGED <<storeVars, cacheVars, pc, snapshot, writing, expectedAtts, budget, failures, faults>>

\* The writes of this pass are used up: the conversation waits for the next one.
ConversationCapped ==
    /\ pc = "conversations" /\ budget = 0
    /\ \E c \in Convs : Current(c) /\ Pending(c) # {} /\ todo' = todo \ {c}
    /\ UNCHANGED <<storeVars, cacheVars, pc, snapshot, writing, expected, expectedAtts,
                   budget, failures, faults>>

StartConversation ==
    /\ pc = "conversations" /\ budget > 0
    /\ \E c \in Convs : Current(c) /\ Pending(c) # {} /\ writing' = FilesOf(c)
    /\ pc' = "write"
    /\ UNCHANGED <<storeVars, cacheVars, snapshot, todo, expected, expectedAtts, budget, failures, faults>>

\* The files of a conversation, the main one first.
NextFile(p) == p \in writing /\ (p[2] = "archive" => \A q \in writing : q[2] = "archive")

\* write_if_changed, its temporary file.
WriteFile ==
    /\ pc = "write"
    /\ \E p \in writing :
        /\ NextFile(p) /\ expected' = expected \cup {p}
        /\ IF p \notin Pending(p[1]) \/ budget = 0
           THEN writing' = writing \ {p} /\ UNCHANGED <<pc, budget, temps>>
           ELSE /\ budget' = budget - 1 /\ temps' = temps \cup {p} /\ pc' = "rename"
                /\ UNCHANGED writing
    /\ UNCHANGED <<storeVars, files, attFiles, snapshot, todo, expectedAtts, failures, faults>>

\* write_if_changed, its rename.
Rename ==
    /\ pc = "rename" /\ pc' = "write"
    /\ \E p \in writing :
        /\ NextFile(p)
        /\ files' = [files EXCEPT ![p] = Render(p[1])[p[2]]]
        /\ temps' = temps \ {p} /\ writing' = writing \ {p}
    /\ UNCHANGED <<storeVars, attFiles, snapshot, todo, expected, expectedAtts, budget, failures, faults>>

EndConversation ==
    /\ pc = "write" /\ writing = {} /\ pc' = "conversations"
    /\ todo' = todo \ {Min(todo)}
    /\ UNCHANGED <<storeVars, cacheVars, snapshot, writing, expected, expectedAtts, budget, failures, faults>>

StartAttachments ==
    /\ pc = "conversations" /\ todo = {} /\ pc' = "attach"
    /\ todo' = {a \in Atts \ Skipped : snapAtts[a] # "absent"}
    /\ UNCHANGED <<storeVars, cacheVars, snapshot, writing, expected, expectedAtts, budget, failures, faults>>

\* materialize_attachment: a cached file is enough, else the local bytes, else a download.
Materialize ==
    /\ pc = "attach" /\ todo # {}
    /\ LET a == Min(todo) IN
        /\ a \in attFiles \/ snapAtts[a] = "local" \/ failures[a] < MaxAttempts
        /\ todo' = todo \ {a}
        /\ attFiles' = attFiles \cup {a} /\ expectedAtts' = expectedAtts \cup {a}
        /\ failures' = IF a \in attFiles \/ snapAtts[a] = "local" THEN failures
                       ELSE [failures EXCEPT ![a] = 0]
    /\ UNCHANGED <<storeVars, files, temps, pc, snapshot, writing, expected, budget, faults>>

\* A download fails, or is not tried any more: the pass goes on.
DownloadFails ==
    /\ pc = "attach" /\ todo # {}
    /\ LET a == Min(todo) IN
        /\ a \notin attFiles /\ snapAtts[a] = "remote" /\ todo' = todo \ {a}
        /\ failures' = IF failures[a] < MaxAttempts THEN [failures EXCEPT ![a] = @ + 1] ELSE failures
    /\ UNCHANGED <<storeVars, cacheVars, pc, snapshot, writing, expected, expectedAtts,
                   budget, faults>>

StartPrune ==
    /\ pc = "attach" /\ todo = {} /\ pc' = "prune"
    /\ UNCHANGED <<storeVars, cacheVars, snapshot, todo, writing, expected, expectedAtts,
                   budget, failures, faults>>

Unexpected == {p \in Paths : files[p] # None} \ expected

\* prune_except on both directories, whether or not a write was put off.
Prune ==
    /\ pc = "prune"
    /\ files' = [p \in Paths |-> IF p \in Unexpected THEN None ELSE files[p]]
    /\ attFiles' = attFiles \cap expectedAtts /\ temps' = {}
    /\ NoPass /\ UNCHANGED <<storeVars, failures, faults>>

\* Any step fails and the pass with it, a removal too; or the process ends, and
\* with it the count of failed downloads.
PassFails ==
    /\ pc # "idle" /\ faults < MaxFaults /\ faults' = faults + 1
    /\ \E removed \in SUBSET (IF pc = "prune" THEN Unexpected ELSE {}) :
        files' = [p \in Paths |-> IF p \in removed THEN None ELSE files[p]]
    /\ \/ UNCHANGED failures
       \/ failures' = [a \in Atts |-> 0]
    /\ NoPass /\ UNCHANGED <<storeVars, attFiles, temps>>
-----------------------------------------------------------------------------
ReadStore == ReadConversations \/ ReadMessages \/ ReadAttachments
WriteConversations ==
    \/ ConversationUnchanged \/ ConversationCapped \/ StartConversation
    \/ WriteFile \/ Rename \/ EndConversation
SyncAttachments == StartAttachments \/ Materialize \/ DownloadFails \/ StartPrune

SyncStep == ReadStore \/ WriteConversations \/ SyncAttachments \/ Prune
Next == SyncStep \/ StoreChanges \/ PassFails

\* The poller starts a pass after every interval, whatever the last one ended in.
Spec == Init /\ [][Next]_vars /\ WF_vars(SyncStep)
-----------------------------------------------------------------------------
Synced ==
    /\ \A c \in Convs, s \in Suffixes : files[<<c, s>>] = Rendered(store[c], store[c])[s]
    /\ temps = {}
    /\ attFiles \subseteq {a \in Atts \ Skipped : atts[a] # "absent"}
    /\ {a \in Atts \ Skipped : atts[a] = "local"} \subseteq attFiles

\* Once the store is quiet the cache holds exactly its conversations, in full, and
\* its local attachments: torn reads, failed and killed passes are made up
\* for, and nothing of a deleted conversation stays (sync_once).
CacheConverges == <>[]Synced

\* A pass over a store that the cache already matches changes no file, so that it
\* does not stir the index watcher (the comment of write_if_changed).
QuietPoll ==
    (pc # "idle" => rows = store)
        /\ (pc \notin {"idle", "messages"} => msgs = store)
        /\ (pc \notin {"idle", "messages", "attachments"} => snapAtts = atts)

QuietPollWritesNothing ==
    [][Synced /\ QuietPoll => files' = files /\ attFiles \subseteq attFiles']_vars

\* Main file and archive of one rendering split the newest messages between them,
\* and the archive says how many older ones are left out (render_conversation_files);
\* a pass never writes more files than its budget allows (TypeOK).
SplitWhole ==
    /\ TypeOK
    /\ \A c \in Convs :
        LET main == files[<<c, "main">>]
            archive == files[<<c, "archive">>]
        IN  main # None /\ archive # None /\ archive.total = main.total =>
                /\ main.msgs \cap archive.msgs = {} /\ main.msgs # {}
                /\ main.msgs \cup archive.msgs = (archive.omitted + 1) .. main.total
=============================================================================
