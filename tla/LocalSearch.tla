---------------------------- MODULE LocalSearch ----------------------------
(***************************************************************************)
(* What a host does when it is itself asked (backend.rs): it visits the    *)
(* selected roots one after the other, serves a root from its index or     *)
(* from a child process (rg, grep) that scans the live tree, adds the rows *)
(* it hosts for other machines, and answers with flags that say whether    *)
(* anything may be missing.  Duplicates are found by listing files the     *)
(* same way and hashing them.                                              *)
(***************************************************************************)
EXTENDS Naturals, Sequences, FiniteSets, SequencesExt

CONSTANTS
    Indexes,       \* what the index may hold, a set of sets of lines
    Lines,         \* matching lines (or files), as <<root, directory>> paths
    Colons,        \* lines of files whose name has a colon
    RequestedRoots,\* the sets of roots a request may select
    Grants,        \* the read grants a request may come with: {} stands for none
    Limits,        \* result limits
    RemoteRows,    \* how many matching rows this host may hold for others
    Tools,         \* the tools under test
    MaxComplaints, \* bound on the kinds of complaints of one child
    MaxChanges     \* bound on files that vanish or grow during a request

AllTools == {"text", "paths", "duplicates", "listed"}

ASSUME LinesAssumption ==
    Lines \subseteq Nat \X Nat /\ IsFiniteSet(Lines) /\ Colons \subseteq Lines /\ Indexes \subseteq SUBSET Lines
ASSUME PlacesAssumption == RequestedRoots \subseteq SUBSET Seq(Nat) /\ Grants \subseteq SUBSET Seq(Nat)
ASSUME LimitsAssumption == Limits \subseteq Nat \ {0} /\ RemoteRows \subseteq Nat /\ MaxChanges \in Nat
ASSUME SearchToolsAssumption == Tools \subseteq AllTools

VARIABLES
    req,           \* the request: tool, mode, short, owned, roots, grant, limit
    host,          \* the host: its index, the lines indexed, the rows it hosts
    disk,          \* [Lines -> what the file is now]
    pc,            \* where the request is
    todo,          \* the scopes still to visit
    scope,         \* the scope being visited
    child,         \* the scanning process
    out,           \* lines the child has not dealt with yet
    diag,          \* what the child complained about
    found,         \* lines of this scope read so far
    hits,          \* hits of finished scopes
    remote,        \* hits from the hosted rows
    flags,         \* truncated, partial
    ok, bad,       \* a scope has succeeded, one has failed
    hashed,        \* files hashed, and files left out
    skipped,
    late,          \* the deadline has passed
    denied,        \* history: lines in places the child may not read
    changes

scan == <<child, out, diag, found>>
vars == <<req, host, disk, pc, todo, scope, scan, hits, remote, flags, ok, bad,
          hashed, skipped, late, denied, changes>>

Ended == {"answered", "error", "dropped"}
Diagnostics == {"denied", "unreadable", "fatal", "flood"}
Remotes == RemoteRows \cup {0}
Hit(s, l) == [scope |-> s, line |-> l]

TypeOK ==
    /\ req.tool \in Tools /\ req.limit \in Limits /\ req.grant \in Grants
    /\ disk \in [Lines -> {"text", "large", "gone"}]
    /\ pc \in Ended \cup {"next", "page", "spawn", "scan", "wait", "finish", "remote", "hash"}
    /\ child \in {"none", "running", "exited"}
    /\ out \subseteq Lines /\ diag \subseteq Diagnostics /\ found \subseteq Lines
    /\ hashed \subseteq Lines /\ skipped \subseteq Lines /\ denied \subseteq Lines
    /\ \A h \in hits : h.line \in Lines
    /\ remote \in Nat /\ Cardinality(hits) + Cardinality(found) + remote <= req.limit
    /\ flags \in [truncated : BOOLEAN, partial : BOOLEAN]
    /\ ok \in BOOLEAN /\ bad \in BOOLEAN /\ late \in BOOLEAN /\ changes \in 0 .. MaxChanges
-----------------------------------------------------------------------------
(* Which scopes are visited. *)

Literal == req.tool = "text" /\ req.mode = "literal"

\* Mutant: a root is kept as a whole when a grant lies under it.
NarrowedToRoots(roots) ==
    {r \in roots : \E g \in req.grant : IsPrefix(r, g) \/ IsPrefix(g, r)}

\* Read grants narrow a root to what lies under it, keep a root that lies under a
\* grant, and drop any other.
Narrowed(roots) ==
    LET under(r) == {g \in req.grant : IsPrefix(r, g)}
        kept(r) == IF under(r) # {} THEN under(r)
                   ELSE IF \E g \in req.grant : IsPrefix(g, r) THEN {r} ELSE {}
    IN  UNION {kept(r) : r \in roots}

\* A request for exactly the roots of the rows hosted for others visits no local root.
RemoteOnly == host.hosting /\ Literal /\ ~req.short /\ req.owned

Selected ==
    IF RemoteOnly THEN {}
    ELSE IF req.tool = "text" /\ req.grant # {} THEN Narrowed(req.roots)
    ELSE req.roots

Init ==
    /\ req \in [tool : Tools, mode : {"literal", "regex"}, short : BOOLEAN, owned : BOOLEAN,
                roots : RequestedRoots, grant : Grants, limit : Limits]
    /\ host \in [index : {"none", "rows", "grams"}, indexed : Indexes,
                 hosting : BOOLEAN, rows : Remotes]
    /\ req.tool # "text" => req.mode = "regex" /\ req.grant = {} /\ ~host.hosting
    /\ req.mode = "regex" => ~req.short /\ ~req.owned /\ host.index = "none"
    /\ host.index = "none" => host.indexed = {}
    /\ host.hosting => host.rows \in RemoteRows
    /\ ~host.hosting => ~req.owned /\ host.rows = 0
    /\ disk = [l \in Lines |-> "text"]
    /\ pc = "next" /\ todo = Selected /\ scope = <<>>
    /\ child = "none" /\ out = {} /\ diag = {} /\ found = {}
    /\ hits = {} /\ remote = 0 /\ flags = [truncated |-> FALSE, partial |-> FALSE]
    /\ ok = FALSE /\ bad = FALSE /\ hashed = {} /\ skipped = {} /\ late = FALSE /\ denied = {} /\ changes = 0
-----------------------------------------------------------------------------
(* One scope after the other. *)

fixed == <<req, host, disk, late, denied, changes>>
Remaining == req.limit - Cardinality(hits)
Truncated == [flags EXCEPT !.truncated = TRUE]
Partial == [flags EXCEPT !.partial = TRUE]

NoScan == child' = "none" /\ out' = {} /\ diag' = {} /\ found' = {}

NextScope ==
    /\ pc = "next" /\ todo # {} /\ Remaining > 0 /\ (late => req.tool = "listed")
    /\ \E s \in todo : scope' = s /\ todo' = todo \ {s}
    /\ pc' = IF Literal THEN "page" ELSE "spawn"
    /\ UNCHANGED <<fixed, scan, hits, remote, flags, ok, bad, hashed, skipped>>

LimitReached ==
    /\ pc = "next" /\ todo # {} /\ Remaining = 0
    /\ flags' = Truncated /\ pc' = "finish"
    /\ UNCHANGED <<fixed, todo, scope, scan, hits, remote, ok, bad, hashed, skipped>>

DeadlineReached ==
    /\ pc = "next" /\ todo # {} /\ Remaining > 0 /\ late /\ req.tool # "listed"
    /\ bad' = TRUE /\ flags' = Partial /\ pc' = "finish"
    /\ UNCHANGED <<fixed, todo, scope, scan, hits, remote, ok, hashed, skipped>>

AllVisited ==
    /\ pc = "next" /\ todo = {} /\ pc' = "finish"
    /\ UNCHANGED <<fixed, todo, scope, scan, hits, remote, flags, ok, bad, hashed, skipped>>

\* A scope fails: the others are still visited, unless the paths were listed.
ScopeFails ==
    /\ bad' = TRUE /\ flags' = Partial
    /\ pc' = IF req.tool = "listed" THEN "error" ELSE "next"
    /\ NoScan /\ UNCHANGED <<fixed, todo, scope, hits, remote, ok, hashed, skipped>>

\* The index: a page of rows, nothing, or an error.
InScope(set) == {l \in set : IsPrefix(scope, l)}
Asks == host.index = "rows" /\ ~req.short

Page ==
    IF Cardinality(InScope(host.indexed)) < Remaining THEN {InScope(host.indexed)}
    ELSE {p \in SUBSET InScope(host.indexed) : Cardinality(p) = Remaining}

ReadPage ==
    /\ pc = "page" /\ Asks /\ InScope(host.indexed) # {}
    /\ \E p \in Page :
        /\ hits' = hits \cup {Hit(scope, l) : l \in p}
        /\ flags' = IF Cardinality(p) = Remaining THEN Truncated ELSE flags
    /\ ok' = TRUE /\ pc' = "next"
    /\ UNCHANGED <<fixed, todo, scope, scan, remote, bad, hashed, skipped>>

\* Mutant: an empty page is the answer for its root.
PageMissingTrusted ==
    /\ pc = "page" /\ (Asks => InScope(host.indexed) = {})
    /\ pc' = IF Asks THEN "next" ELSE "spawn"
    /\ ok' = (ok \/ Asks)
    /\ UNCHANGED <<fixed, todo, scope, scan, hits, remote, flags, bad, hashed, skipped>>

\* An index that has nothing is no proof that the tree has nothing.
PageMissing ==
    /\ pc = "page" /\ (Asks => InScope(host.indexed) = {})
    /\ pc' = "spawn"
    /\ UNCHANGED <<fixed, todo, scope, scan, hits, remote, flags, ok, bad, hashed, skipped>>

PageFails == pc = "page" /\ Asks /\ ScopeFails
-----------------------------------------------------------------------------
(* The live scan. *)

\* Without stored rows a trigram index narrows the scan to its candidates.
HasCandidates == Literal /\ host.index = "grams" /\ ~req.short
Scanned(l) == disk[l] = "text" \/ (disk[l] = "large" /\ req.tool # "text")

Spawn ==
    /\ pc = "spawn"
    /\ \E lines \in {InScope(Lines), InScope(host.indexed)} :
        /\ \/ HasCandidates /\ lines = InScope(host.indexed) /\ lines # {}
           \/ (HasCandidates => host.indexed = {}) /\ lines = InScope(Lines)
        /\ out' = {l \in lines : Scanned(l)}
    /\ pc' = "scan" /\ child' = "running" /\ diag' = {} /\ found' = {}
    /\ UNCHANGED <<fixed, todo, scope, hits, remote, flags, ok, bad, hashed, skipped>>

NoCandidates ==
    /\ pc = "spawn" /\ HasCandidates /\ InScope(host.indexed) = {}
    /\ ok' = TRUE /\ pc' = "next"
    /\ UNCHANGED <<fixed, todo, scope, scan, hits, remote, flags, bad, hashed, skipped>>

SpawnFails == pc = "spawn" /\ ScopeFails

\* The child cannot read where a line is, or floods its diagnostics.
ChildComplains ==
    /\ pc = "scan" /\ Cardinality(diag) < MaxComplaints
    /\ \E d \in Diagnostics :
        /\ diag' = diag \cup {d}
        /\ d = "flood" => diag # {} /\ UNCHANGED <<out, denied>>
        /\ d # "flood" => \E l \in out :
            /\ out' = out \ {l}
            /\ denied' = IF d = "denied" THEN denied \cup {l} ELSE denied
    /\ UNCHANGED <<req, host, disk, late, changes, pc, todo, scope, child, found, hits,
                   remote, flags, ok, bad, hashed, skipped>>

\* Mutant: the scan stops early and leaves its child alone.
StopEarlyAlone(lines) ==
    /\ hits' = hits \cup {Hit(scope, l) : l \in lines}
    /\ flags' = Truncated /\ ok' = TRUE /\ pc' = "finish"
    /\ found' = {} /\ UNCHANGED <<child, out, diag>>

\* The scan stops early at the limit or at the byte bound: the child is killed.
StopEarly(lines) ==
    /\ hits' = hits \cup {Hit(scope, l) : l \in lines}
    /\ flags' = Truncated /\ ok' = TRUE /\ pc' = "finish" /\ NoScan

\* A line is a hit if it can be parsed; its context is read from the file.
ReadLine ==
    /\ pc = "scan"
    /\ \E l \in out :
        LET lines == IF l \in Colons /\ req.tool = "text" THEN found ELSE found \cup {l} IN
        /\ req.tool = "text" /\ l \notin Colons => disk[l] # "gone" /\ ~late
        /\ IF Cardinality(lines) >= Remaining THEN StopEarly(lines)
           ELSE /\ out' = out \ {l} /\ found' = lines
                /\ UNCHANGED <<child, diag, hits, flags, ok, pc>>
    /\ UNCHANGED <<fixed, todo, scope, remote, bad, hashed, skipped>>

ContextFails ==
    /\ pc = "scan" /\ req.tool = "text"
    /\ \E l \in out \ Colons : disk[l] = "gone" \/ late
    /\ ScopeFails

ByteBound ==
    /\ pc = "scan" /\ (out # {} \/ found # {}) /\ StopEarly(found)
    /\ UNCHANGED <<fixed, todo, scope, remote, bad, hashed, skipped>>

\* Mutant: the output is read without a deadline.
ScanTimesOutAtExit == pc = "wait" /\ child = "running" /\ late /\ ScopeFails

ScanTimesOut == pc \in {"scan", "wait"} /\ child = "running" /\ late /\ ScopeFails

EndOfOutput ==
    /\ pc = "scan" /\ out = {} /\ pc' = "wait"
    /\ UNCHANGED <<fixed, todo, scope, scan, hits, remote, flags, ok, bad, hashed, skipped>>

ChildExits ==
    /\ pc = "wait" /\ child = "running" /\ child' = "exited"
    /\ UNCHANGED <<fixed, pc, todo, scope, out, diag, found, hits, remote, flags, ok, bad, hashed, skipped>>

\* Complaints about permissions alone are no news; about other unreadable places
\* they make the answer partial; any other one, or a flood of them, fails the scope.
Benign == diag \subseteq {"denied", "flood"}
Failed == "fatal" \in diag \/ (req.tool = "text" /\ "flood" \in diag /\ ~Benign)

ScanSucceeds ==
    /\ pc = "wait" /\ child = "exited" /\ ~Failed
    /\ hits' = hits \cup {Hit(scope, l) : l \in found}
    /\ flags' = IF Benign THEN flags ELSE Partial
    /\ ok' = TRUE /\ pc' = "next" /\ NoScan
    /\ UNCHANGED <<fixed, todo, scope, remote, bad, hashed, skipped>>

ScanFails == pc = "wait" /\ child = "exited" /\ Failed /\ ScopeFails
-----------------------------------------------------------------------------
(* The answer. *)

Finish ==
    /\ pc = "finish"
    /\ pc' = IF ~ok /\ bad /\ (req.tool = "text" => ~host.hosting) THEN "error"
             ELSE IF Literal /\ host.hosting /\ Remaining > 0 THEN "remote"
             ELSE IF req.tool \in {"duplicates", "listed"} THEN "hash"
             ELSE "answered"
    /\ UNCHANGED <<fixed, todo, scope, scan, hits, remote, flags, ok, bad, hashed, skipped>>

\* The rows hosted for others need a grant; they are cut at the limit in silence.
ReadRemote ==
    /\ pc = "remote" /\ req.grant # {} /\ pc' = "answered"
    /\ remote' = IF req.short THEN 0 ELSE IF host.rows < Remaining THEN host.rows ELSE Remaining
    /\ UNCHANGED <<fixed, todo, scope, scan, hits, flags, ok, bad, hashed, skipped>>

RemoteFails ==
    /\ pc = "remote" /\ pc' = "answered" /\ flags' = Partial
    /\ UNCHANGED <<fixed, todo, scope, scan, hits, remote, ok, bad, hashed, skipped>>

\* A listed file is hashed; one that is too large or cannot be resolved is left out.
ToHash == {h.line : h \in hits} \ (hashed \cup skipped)

HashFile ==
    /\ pc = "hash"
    /\ \E l \in ToHash : disk[l] = "text" /\ hashed' = hashed \cup {l}
    /\ UNCHANGED <<fixed, pc, todo, scope, scan, hits, remote, flags, ok, bad, skipped>>

SkipFile ==
    /\ pc = "hash"
    /\ \E l \in ToHash : disk[l] # "text" /\ skipped' = skipped \cup {l}
    /\ flags' = Partial
    /\ UNCHANGED <<fixed, pc, todo, scope, scan, hits, remote, ok, bad, hashed>>

\* It changes while it is hashed.
HashFails ==
    /\ pc = "hash" /\ ToHash # {} /\ changes > 0 /\ pc' = "error"
    /\ UNCHANGED <<fixed, todo, scope, scan, hits, remote, flags, ok, bad, hashed, skipped>>

AllHashed ==
    /\ pc = "hash" /\ ToHash = {} /\ pc' = "answered"
    /\ UNCHANGED <<fixed, todo, scope, scan, hits, remote, flags, ok, bad, hashed, skipped>>

\* Whoever asked gives up: the request and, with it, the child are dropped.
Drop ==
    /\ pc \notin Ended /\ pc' = "dropped" /\ NoScan
    /\ todo' = {} /\ scope' = <<>> /\ hits' = {} /\ remote' = 0 /\ hashed' = {} /\ skipped' = {}
    /\ UNCHANGED <<fixed, flags, ok, bad>>

Deadline ==
    /\ pc \notin Ended /\ ~late /\ late' = TRUE
    /\ UNCHANGED <<req, host, disk, pc, todo, scope, scan, hits, remote, flags, ok, bad,
                   hashed, skipped, denied, changes>>

\* A file vanishes, or grows beyond what is read; none comes back.
FileChanges ==
    /\ pc \notin Ended /\ changes < MaxChanges /\ changes' = changes + 1
    /\ \E l \in Lines, d \in {"large", "gone"} :
        disk[l] \notin {d, "gone"} /\ disk' = [disk EXCEPT ![l] = d]
    /\ UNCHANGED <<req, host, pc, todo, scope, scan, hits, remote, flags, ok, bad,
                   hashed, skipped, late, denied>>
-----------------------------------------------------------------------------
Visit == NextScope \/ LimitReached \/ DeadlineReached \/ AllVisited
ReadIndex == ReadPage \/ PageMissing \/ PageFails
Scan == Spawn \/ NoCandidates \/ SpawnFails \/ ScanTimesOut \/ ScanSucceeds \/ ScanFails
Output == ReadLine \/ ContextFails \/ ByteBound \/ EndOfOutput \/ ChildComplains \/ ChildExits
AnswerSteps == Finish \/ ReadRemote \/ RemoteFails \/ HashFile \/ SkipFile \/ HashFails \/ AllHashed

Step == Visit \/ ReadIndex \/ Scan \/ AnswerSteps
Next == Step \/ Output \/ Drop \/ Deadline \/ FileChanges

\* The request's own steps and the clock go on; the child may hang for ever.
Fairness == WF_vars(Step) /\ WF_vars(Deadline)

Spec == Init /\ [][Next]_vars /\ Fairness
-----------------------------------------------------------------------------
\* What a scope must contribute: the rows its index has, if it has any, else what
\* the scan of the live tree or of the index's candidates can read.
Readable(l) == Scanned(l) /\ l \notin denied /\ ~(l \in Colons /\ req.tool = "text")

Expected(s) ==
    LET lines == {l \in Lines : IsPrefix(s, l)}
        rows == lines \cap host.indexed
    IN  IF Literal /\ Asks /\ rows # {} THEN rows
        ELSE {l \in IF HasCandidates THEN rows ELSE lines : Readable(l)}

\* An answer that is neither partial nor truncated has every line of every selected
\* scope, and every file it lists is hashed: failed scopes, unreadable places, early
\* stops and files left out are all admitted (backend.rs:722-926, 1285-1543).
CompleteIsComplete ==
    pc = "answered" /\ ~flags.partial /\ ~flags.truncated =>
        /\ \A s \in Selected : \A l \in Expected(s) : Hit(s, l) \in hits
        /\ req.tool \in {"duplicates", "listed"} => {h.line : h \in hits} \subseteq hashed

\* Whatever ends a scan, its child does not outlive it (kill_on_drop, terminate_child).
NoOrphan == pc \notin {"scan", "wait"} => child = "none"

\* What the request bounds: hits never exceed its limit, in the middle of a scan
\* neither (TypeOK), with a grant nothing outside it is returned, and without one no
\* row held for another host (backend.rs:678-696, remote_index.rs:268-304).
WithinRequest ==
    /\ TypeOK
    /\ req.grant # {} => \A h \in hits : \E g \in req.grant : IsPrefix(g, h.line)
    /\ req.grant = {} => remote = 0

\* A search ends even if its child hangs (the deadline on every read and wait).
SearchEnds == <>(pc \in Ended)
=============================================================================
