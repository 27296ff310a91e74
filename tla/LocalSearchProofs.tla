------------------------- MODULE LocalSearchProofs -------------------------
(***************************************************************************)
(* Theorems about LocalSearch, for any roots, lines, grants and limits: a *)
(* child does not outlive its scan (NoOrphan), an answer stays within its *)
(* request (WithinRequest), and one that is not marked incomplete is      *)
(* complete (CompleteIsComplete).                                         *)
(***************************************************************************)
EXTENDS LocalSearch, FiniteSetTheorems, TLAPS

-----------------------------------------------------------------------------
(* The inductive invariant. *)

Active == {"page", "spawn", "scan", "wait"}
Scanning == {"scan", "wait"}
Clean == ~flags.partial /\ ~flags.truncated

Typed ==
    /\ req \in [tool : Tools, mode : {"literal", "regex"}, short : BOOLEAN, owned : BOOLEAN,
                roots : RequestedRoots, grant : Grants, limit : Limits]
    /\ host \in [index : {"none", "rows", "grams"}, indexed : Indexes,
                 hosting : BOOLEAN, rows : Remotes]
    /\ req.tool # "text" => req.grant = {}
    /\ disk \in [Lines -> {"text", "large", "gone"}]
    /\ pc \in Ended \cup Active \cup {"next", "finish", "remote", "hash"}
    /\ child \in {"none", "running", "exited"}
    /\ out \subseteq Lines /\ diag \subseteq Diagnostics /\ found \subseteq Lines
    /\ hashed \subseteq Lines /\ skipped \subseteq Lines /\ denied \subseteq Lines
    /\ todo \subseteq Selected /\ (pc \in Active => scope \in Selected)
    /\ IsFiniteSet(hits) /\ remote \in Nat
    /\ flags \in [truncated : BOOLEAN, partial : BOOLEAN]
    /\ ok \in BOOLEAN /\ bad \in BOOLEAN /\ late \in BOOLEAN /\ changes \in 0 .. MaxChanges

\* Between scans there is no child, and nothing read or complained about is left.
ChildOwned == pc \notin Scanning => child = "none" /\ found = {} /\ out = {}

\* Room is left for one more line as long as a scope is visited.
Counted ==
    /\ Cardinality(hits) + remote <= req.limit
    /\ pc \in Active => Cardinality(hits) + Cardinality(found) < req.limit
    /\ pc # "answered" => remote = 0
    /\ req.grant = {} => remote = 0

\* Whatever was read lies in the scope it was read for.
Inside ==
    /\ \A h \in hits : /\ h = Hit(h.scope, h.line) /\ h.line \in Lines
                       /\ h.scope \in Selected /\ IsPrefix(h.scope, h.line)
    /\ \A l \in out \cup found : IsPrefix(scope, l)

\* A scope that was visited has contributed all it must, unless a flag says otherwise.
Visited(s) == s \in Selected \ todo /\ (pc \in Active => s # scope)
Covered ==
    Clean /\ pc \notin {"dropped", "error"} =>
        /\ \A s \in Selected : Visited(s) => \A l \in Expected(s) : Hit(s, l) \in hits
        /\ pc \in {"finish", "remote", "hash", "answered"} => todo = {}

\* Rows are only looked for in a search that may use them, and a scan runs when
\* there are none; what a scan must find was found, is still in its output, or it
\* has complained.
Sources ==
    /\ pc = "page" => Literal
    /\ pc \in {"spawn", "scan", "wait"} /\ Literal /\ Asks => InScope(host.indexed) = {}
    /\ pc \in Scanning /\ Benign => \A l \in Expected(scope) : l \in found \cup out
    /\ pc = "wait" => out = {}

\* A listed file that was not hashed was left out, which makes the answer partial.
Listed ==
    /\ skipped # {} => flags.partial
    /\ pc \in {"remote", "answered"} /\ req.tool \in {"duplicates", "listed"} =>
        {h.line : h \in hits} \subseteq hashed \cup skipped

IInv == Typed /\ ChildOwned /\ Counted /\ Inside /\ Covered /\ Sources /\ Listed

-----------------------------------------------------------------------------
(* Lemmas about the operators. *)

LEMMA LineFacts ==
    /\ \A l \in Lines : l \in Seq(Nat)
    /\ \A S \in SUBSET Lines : IsFiniteSet(S) /\ Cardinality(S) \in Nat
<1>1. \A l \in Lines : l \in Seq(Nat)
  <2>1. \A m, n \in Nat : <<m, n>> \in Seq(Nat)  OBVIOUS
  <2>2. \A l \in Nat \X Nat : \E m, n \in Nat : l = <<m, n>>  OBVIOUS
  <2>3. \A l \in Nat \X Nat : l \in Seq(Nat)  BY <2>1, <2>2
  <2> QED BY <2>3, LinesAssumption
<1>2. \A S \in SUBSET Lines : IsFiniteSet(S) /\ Cardinality(S) \in Nat
  BY LinesAssumption, FS_Subset, FS_CardinalityType
<1> QED BY <1>1, <1>2

\* Being above a place, one place after the other.
LEMMA PrefixFacts ==
    /\ \A s \in Seq(Nat) : IsPrefix(s, s)
    /\ \A s, t, u \in Seq(Nat) : IsPrefix(s, t) /\ IsPrefix(t, u) => IsPrefix(s, u)
<1>1. ASSUME NEW s \in Seq(Nat), NEW t \in Seq(Nat), Len(s) <= Len(t)
      PROVE  SubSeq(s, 1, Len(s)) = SubSeq(t, 1, Len(s)) <=> \A i \in 1 .. Len(s) : s[i] = t[i]
  <2>1. SubSeq(s, 1, Len(s)) = [i \in 1 .. Len(s) |-> s[i]]  OBVIOUS
  <2>2. SubSeq(t, 1, Len(s)) = [i \in 1 .. Len(s) |-> t[i]]  BY <1>1
  <2> QED BY <2>1, <2>2
<1>2. \A s, t \in Seq(Nat) :
        IsPrefix(s, t) <=> Len(s) <= Len(t) /\ \A i \in 1 .. Len(s) : s[i] = t[i]
  BY <1>1 DEF IsPrefix
<1>3. \A s \in Seq(Nat) : IsPrefix(s, s)  BY <1>2
<1>4. ASSUME NEW s \in Seq(Nat), NEW t \in Seq(Nat), NEW u \in Seq(Nat),
             IsPrefix(s, t), IsPrefix(t, u)
      PROVE  IsPrefix(s, u)
  <2>1. Len(s) <= Len(t) /\ \A i \in 1 .. Len(s) : s[i] = t[i]  BY <1>2, <1>4
  <2>2. Len(t) <= Len(u) /\ \A i \in 1 .. Len(t) : t[i] = u[i]  BY <1>2, <1>4
  <2>3. Len(s) <= Len(u) /\ \A i \in 1 .. Len(s) : s[i] = u[i]  BY <2>1, <2>2
  <2> QED BY <1>2, <2>3
<1> QED BY <1>3, <1>4

\* A scope is a place, and with a grant it lies at or under what was granted.
LEMMA SelectedFacts ==
    ASSUME Typed
    PROVE  /\ Selected \subseteq Seq(Nat)
           /\ req.grant # {} => \A s \in Selected : \E g \in req.grant : IsPrefix(g, s)
<1>1. /\ req.roots \in SUBSET Seq(Nat) /\ req.grant \in SUBSET Seq(Nat)
      /\ req.tool # "text" => req.grant = {}
  BY PlacesAssumption DEF Typed
<1>2. \A s \in Narrowed(req.roots) : s \in Seq(Nat) /\ \E g \in req.grant : IsPrefix(g, s)
  <2> SUFFICES ASSUME NEW r \in req.roots,
                      NEW s \in IF {g \in req.grant : IsPrefix(r, g)} # {}
                                THEN {g \in req.grant : IsPrefix(r, g)}
                                ELSE IF \E g \in req.grant : IsPrefix(g, r) THEN {r} ELSE {}
               PROVE  s \in Seq(Nat) /\ \E g \in req.grant : IsPrefix(g, s)
    BY DEF Narrowed
  <2>1. CASE s \in req.grant  BY <1>1, <2>1, PrefixFacts
  <2>2. CASE s = r /\ \E g \in req.grant : IsPrefix(g, r)  BY <1>1, <2>2
  <2> QED BY <2>1, <2>2
<1> QED BY <1>1, <1>2 DEF Selected

LEMMA RequestFacts ==
    ASSUME Typed
    PROVE  /\ req.limit \in Nat /\ req.limit > 0 /\ req.tool \in Tools /\ req.grant \in Grants
           /\ host.rows \in Nat /\ host.indexed \in SUBSET Lines
<1>1. \A n \in Limits : n \in Nat /\ n > 0  BY LimitsAssumption
<1>2. \A n \in Remotes : n \in Nat  BY LimitsAssumption DEF Remotes
<1> QED BY <1>1, <1>2, LinesAssumption DEF Typed

\* The hits of some lines are at most as many as the lines.
LEMMA HitsCount ==
    ASSUME Typed, NEW s, NEW lines \in SUBSET Lines, NEW more,
           more = hits \cup {Hit(s, l) : l \in lines}
    PROVE  /\ IsFiniteSet(more) /\ Cardinality(more) \in Nat /\ Cardinality(hits) \in Nat
           /\ Cardinality(lines) \in Nat
           /\ Cardinality(more) <= Cardinality(hits) + Cardinality(lines)
<1> DEFINE new == {Hit(s, l) : l \in lines}
           line == [h \in new |-> h.line]
<1>1. \A h \in new : h.line \in lines /\ h = Hit(s, h.line)  BY DEF Hit
<1>2. line \in Injection(new, lines)
  <2>1. line \in [new -> lines]  BY <1>1
  <2>2. \A h, k \in new : line[h] = line[k] => h = k  BY <1>1
  <2> HIDE DEF line, new
  <2> QED BY <2>1, <2>2 DEF Injection, IsInjective
<1>3. IsFiniteSet(lines) /\ Cardinality(lines) \in Nat  BY LineFacts
<1> HIDE DEF new, line
<1>4. IsFiniteSet(new) /\ Cardinality(new) \in Nat /\ Cardinality(new) <= Cardinality(lines)
  BY <1>2, <1>3, FS_Injection, FS_CardinalityType
<1>5. IsFiniteSet(hits) /\ Cardinality(hits) \in Nat  BY FS_CardinalityType DEF Typed
<1>6. /\ IsFiniteSet(hits \cup new)
      /\ Cardinality(hits \cup new)
            = Cardinality(hits) + Cardinality(new) - Cardinality(hits \cap new)
      /\ Cardinality(hits \cap new) \in Nat /\ Cardinality(hits \cup new) \in Nat
  <2>1. IsFiniteSet(hits \cap new)  BY <1>5, FS_Subset
  <2>2. IsFiniteSet(hits \cup new)  BY <1>4, <1>5, FS_Union
  <2> QED BY <1>4, <1>5, <2>1, <2>2, FS_Union, FS_CardinalityType
<1>7. Cardinality(hits \cup new) <= Cardinality(hits) + Cardinality(lines)
  BY <1>3, <1>4, <1>5, <1>6
<1> QED BY <1>3, <1>5, <1>6, <1>7 DEF new

\* What a request asks for depends on nothing that its own steps change.
LEMMA FixedFacts ==
    ASSUME UNCHANGED fixed
    PROVE  /\ UNCHANGED <<req, host, disk, late, denied, changes>>
           /\ Selected' = Selected /\ (Literal' <=> Literal) /\ (Asks' <=> Asks)
           /\ \A s : Expected(s)' = Expected(s)
<1>1. UNCHANGED <<req, host, disk, late, denied, changes>>  BY DEF fixed
<1>2. Selected' = Selected /\ (Literal' <=> Literal) /\ (Asks' <=> Asks)
  BY <1>1 DEF Selected, RemoteOnly, Narrowed, Literal, Asks
<1>3. \A s : Expected(s)' = Expected(s)
  BY <1>1 DEF Expected, Readable, Scanned, HasCandidates, Literal, Asks
<1> QED BY <1>1, <1>2, <1>3

LEMMA ExpectedInside == \A s : \A l \in Expected(s) : l \in Lines /\ IsPrefix(s, l)
BY DEF Expected

-----------------------------------------------------------------------------
(* The steps that read nothing from a child, and the answer. *)

\* What a step of the request leaves as it is.
Kept ==
    /\ Typed /\ UNCHANGED <<req, host, disk, late, denied, changes>>
    /\ Selected' = Selected /\ (Literal' <=> Literal) /\ (Asks' <=> Asks)
    /\ \A s : Expected(s)' = Expected(s)
    /\ req.limit \in Nat /\ req.limit > 0
    /\ Cardinality(hits) \in Nat /\ Cardinality(found) \in Nat

LEMMA SameRequest ==
    ASSUME IInv, UNCHANGED fixed
    PROVE  Kept
BY FixedFacts, RequestFacts, LineFacts, FS_CardinalityType DEF IInv, Typed, Kept

LEMMA NextScopeStep == ASSUME IInv, NextScope PROVE IInv'
<1>1. Kept  BY SameRequest DEF NextScope
<1> USE <1>1 DEF Kept
<1>2. Typed'
  BY DEF Typed, NextScope, Active, Ended, Truncated, Partial, Literal, Remaining, scan
<1>3. ChildOwned'  BY DEF IInv, ChildOwned, Scanning, NextScope, scan
<1>4. Counted'
  <2>1. Cardinality(found) = 0 \/ found # {}  BY FS_EmptySet
  <2> QED BY <2>1 DEF IInv, Counted, ChildOwned, Scanning, Active, NextScope, Remaining, scan
<1>5. Inside'  BY DEF IInv, Inside, ChildOwned, Scanning, NextScope, scan
<1>6. Covered'
  BY DEF IInv, Typed, Covered, Visited, Clean, Active, NextScope, Truncated, Partial, scan
<1>7. Sources'  BY DEF IInv, Sources, Scanning, NextScope, Benign, InScope, scan
<1>8. Listed'  BY DEF IInv, Typed, Listed, NextScope, Truncated, Partial, Literal, scan
<1> QED BY <1>2, <1>3, <1>4, <1>5, <1>6, <1>7, <1>8 DEF IInv

LEMMA LimitReachedStep == ASSUME IInv, LimitReached PROVE IInv'
<1>1. Kept  BY SameRequest DEF LimitReached
<1> USE <1>1 DEF Kept
<1>2. Typed'
  BY ZenonT(30) DEF Typed, LimitReached, Active, Ended, Truncated, Partial, Literal, Remaining, scan
<1>3. ChildOwned'  BY DEF IInv, ChildOwned, Scanning, LimitReached, scan
<1>4. Counted'
  BY DEF IInv, Counted, ChildOwned, Scanning, Active, LimitReached, Remaining, scan
<1>5. Inside'  BY DEF IInv, Inside, ChildOwned, Scanning, LimitReached, scan
<1>6. Covered'
  BY DEF IInv, Typed, Covered, Visited, Clean, Active, LimitReached, Truncated, Partial, scan
<1>7. Sources'  BY DEF IInv, Sources, Scanning, LimitReached, Benign, InScope, scan
<1>8. Listed'  BY DEF IInv, Typed, Listed, LimitReached, Truncated, Partial, Literal, scan
<1> QED BY <1>2, <1>3, <1>4, <1>5, <1>6, <1>7, <1>8 DEF IInv

LEMMA DeadlineReachedStep == ASSUME IInv, DeadlineReached PROVE IInv'
<1>1. Kept  BY SameRequest DEF DeadlineReached
<1> USE <1>1 DEF Kept
<1>2. Typed'
  BY DEF Typed, DeadlineReached, Active, Ended, Truncated, Partial, Literal, Remaining, scan
<1>3. ChildOwned'  BY DEF IInv, ChildOwned, Scanning, DeadlineReached, scan
<1>4. Counted'
  BY DEF IInv, Counted, ChildOwned, Scanning, Active, DeadlineReached, Remaining, scan
<1>5. Inside'  BY DEF IInv, Inside, ChildOwned, Scanning, DeadlineReached, scan
<1>6. Covered'
  BY DEF IInv, Typed, Covered, Visited, Clean, Active, DeadlineReached, Truncated, Partial, scan
<1>7. Sources'  BY DEF IInv, Sources, Scanning, DeadlineReached, Benign, InScope, scan
<1>8. Listed'  BY DEF IInv, Typed, Listed, DeadlineReached, Truncated, Partial, Literal, scan
<1> QED BY <1>2, <1>3, <1>4, <1>5, <1>6, <1>7, <1>8 DEF IInv

LEMMA AllVisitedStep == ASSUME IInv, AllVisited PROVE IInv'
<1>1. Kept  BY SameRequest DEF AllVisited
<1> USE <1>1 DEF Kept
<1>2. Typed'
  BY DEF Typed, AllVisited, Active, Ended, Truncated, Partial, Literal, Remaining, scan
<1>3. ChildOwned'  BY DEF IInv, ChildOwned, Scanning, AllVisited, scan
<1>4. Counted'  BY DEF IInv, Counted, ChildOwned, Scanning, Active, AllVisited, Remaining, scan
<1>5. Inside'  BY DEF IInv, Inside, ChildOwned, Scanning, AllVisited, scan
<1>6. Covered'
  BY DEF IInv, Typed, Covered, Visited, Clean, Active, AllVisited, Truncated, Partial, scan
<1>7. Sources'  BY DEF IInv, Sources, Scanning, AllVisited, Benign, InScope, scan
<1>8. Listed'  BY DEF IInv, Typed, Listed, AllVisited, Truncated, Partial, Literal, scan
<1> QED BY <1>2, <1>3, <1>4, <1>5, <1>6, <1>7, <1>8 DEF IInv

LEMMA PageMissingStep == ASSUME IInv, PageMissing PROVE IInv'
<1>1. Kept  BY SameRequest DEF PageMissing
<1> USE <1>1 DEF Kept
<1>2. Typed'
  BY DEF Typed, PageMissing, Active, Ended, Truncated, Partial, Literal, Remaining, scan
<1>3. ChildOwned'  BY DEF IInv, ChildOwned, Scanning, PageMissing, scan
<1>4. Counted'  BY DEF IInv, Counted, ChildOwned, Scanning, Active, PageMissing, Remaining, scan
<1>5. Inside'  BY DEF IInv, Inside, ChildOwned, Scanning, PageMissing, scan
<1>6. Covered'
  BY DEF IInv, Typed, Covered, Visited, Clean, Active, PageMissing, Truncated, Partial, scan
<1>7. Sources'  BY DEF IInv, Sources, Scanning, PageMissing, Benign, InScope, scan
<1>8. Listed'  BY DEF IInv, Typed, Listed, PageMissing, Truncated, Partial, Literal, scan
<1> QED BY <1>2, <1>3, <1>4, <1>5, <1>6, <1>7, <1>8 DEF IInv

LEMMA NoCandidatesStep == ASSUME IInv, NoCandidates PROVE IInv'
<1>1. Kept  BY SameRequest DEF NoCandidates
<1> USE <1>1 DEF Kept
<1>2. Typed'
  BY DEF Typed, NoCandidates, Active, Ended, Truncated, Partial, Literal, Remaining, scan
<1>3. ChildOwned'  BY DEF IInv, ChildOwned, Scanning, NoCandidates, scan
<1>4. Counted'
  BY DEF IInv, Counted, ChildOwned, Scanning, Active, NoCandidates, Remaining, scan
<1>5. Inside'  BY DEF IInv, Inside, ChildOwned, Scanning, NoCandidates, scan
<1>6. Covered'
  <2>1. Expected(scope) = {}
    BY DEF NoCandidates, HasCandidates, Expected, Asks, InScope
  <2> QED BY <2>1 DEF IInv, Typed, Covered, Visited, Clean, Active, NoCandidates, scan
<1>7. Sources'  BY DEF IInv, Sources, Scanning, NoCandidates, Benign, InScope, scan
<1>8. Listed'  BY DEF IInv, Typed, Listed, NoCandidates, Truncated, Partial, Literal, scan
<1> QED BY <1>2, <1>3, <1>4, <1>5, <1>6, <1>7, <1>8 DEF IInv

LEMMA SpawnStep == ASSUME IInv, Spawn PROVE IInv'
<1>1. Kept  BY SameRequest DEF Spawn
<1> USE <1>1 DEF Kept
<1>2. PICK lines \in {InScope(Lines), InScope(host.indexed)} :
         /\ \/ HasCandidates /\ lines = InScope(host.indexed) /\ lines # {}
            \/ (HasCandidates => host.indexed = {}) /\ lines = InScope(Lines)
         /\ out' = {l \in lines : Scanned(l)}
  BY DEF Spawn
<1>3. /\ pc = "spawn" /\ pc' = "scan" /\ child' = "running" /\ diag' = {} /\ found' = {}
      /\ UNCHANGED <<todo, scope, hits, remote, flags, ok, bad, hashed, skipped>>
  BY DEF Spawn
<1>4. out' \subseteq Lines /\ \A l \in out' : IsPrefix(scope, l)
  BY <1>2, RequestFacts DEF InScope
<1>5. Typed'  BY <1>3, <1>4 DEF Typed, Active, Ended
<1>6. ChildOwned' /\ Listed'  BY <1>3 DEF IInv, ChildOwned, Listed, Scanning
<1>7. Counted'
  <2>1. Cardinality({}) = 0  BY FS_EmptySet
  <2> QED BY <1>3, <2>1 DEF IInv, Counted, ChildOwned, Scanning, Active
<1>8. Inside'  BY <1>3, <1>4 DEF IInv, Inside
<1>9. Covered'  BY <1>3 DEF IInv, Covered, Visited, Clean, Active
<1>10. Sources'
  <2>1. Literal /\ Asks => InScope(host.indexed) = {}  BY <1>3 DEF IInv, Sources
  <2>2. \A l \in Expected(scope) : l \in out'
    <3>1. InScope(host.indexed) = {l \in Lines : IsPrefix(scope, l)} \cap host.indexed
      BY RequestFacts DEF InScope
    <3>2. \A l \in Expected(scope) :
            l \in (IF HasCandidates THEN InScope(host.indexed) ELSE InScope(Lines)) /\ Scanned(l)
      BY <2>1, <3>1 DEF Expected, Readable, InScope
    <3>3. host.indexed = {} => InScope(host.indexed) = {}  BY DEF InScope
    <3> QED BY <1>2, <3>2, <3>3
  <2>3. (InScope(host.indexed))' = InScope(host.indexed)  BY <1>3 DEF InScope
  <2> QED BY <1>3, <2>1, <2>2, <2>3 DEF Sources, Scanning
<1> QED BY <1>5, <1>6, <1>7, <1>8, <1>9, <1>10 DEF IInv

LEMMA EndOfOutputStep == ASSUME IInv, EndOfOutput PROVE IInv'
<1>1. Kept  BY SameRequest DEF EndOfOutput
<1> USE <1>1 DEF Kept
<1>2. Typed'
  BY DEF Typed, EndOfOutput, Active, Ended, Truncated, Partial, Literal, Remaining, scan
<1>3. ChildOwned'  BY DEF IInv, ChildOwned, Scanning, EndOfOutput, scan
<1>4. Counted'  BY DEF IInv, Counted, ChildOwned, Scanning, Active, EndOfOutput, Remaining, scan
<1>5. Inside'  BY DEF IInv, Inside, ChildOwned, Scanning, EndOfOutput, scan
<1>6. Covered'
  BY DEF IInv, Typed, Covered, Visited, Clean, Active, EndOfOutput, Truncated, Partial, scan
<1>7. Sources'  BY DEF IInv, Sources, Scanning, EndOfOutput, Benign, InScope, scan
<1>8. Listed'  BY DEF IInv, Typed, Listed, EndOfOutput, Truncated, Partial, Literal, scan
<1> QED BY <1>2, <1>3, <1>4, <1>5, <1>6, <1>7, <1>8 DEF IInv

LEMMA ChildExitsStep == ASSUME IInv, ChildExits PROVE IInv'
<1>1. Kept  BY SameRequest DEF ChildExits
<1> USE <1>1 DEF Kept
<1>2. Typed'
  BY DEF Typed, ChildExits, Active, Ended, Truncated, Partial, Literal, Remaining, scan
<1>3. ChildOwned'  BY DEF IInv, ChildOwned, Scanning, ChildExits, scan
<1>4. Counted'  BY DEF IInv, Counted, ChildOwned, Scanning, Active, ChildExits, Remaining, scan
<1>5. Inside'  BY DEF IInv, Inside, ChildOwned, Scanning, ChildExits, scan
<1>6. Covered'
  BY DEF IInv, Typed, Covered, Visited, Clean, Active, ChildExits, Truncated, Partial, scan
<1>7. Sources'  BY DEF IInv, Sources, Scanning, ChildExits, Benign, InScope, scan
<1>8. Listed'  BY DEF IInv, Typed, Listed, ChildExits, Truncated, Partial, Literal, scan
<1> QED BY <1>2, <1>3, <1>4, <1>5, <1>6, <1>7, <1>8 DEF IInv

LEMMA FinishStep == ASSUME IInv, Finish PROVE IInv'
<1>1. Kept  BY SameRequest DEF Finish
<1> USE <1>1 DEF Kept
<1>2. Typed'  BY DEF Typed, Finish, Active, Ended, Truncated, Partial, Literal, Remaining, scan
<1>3. ChildOwned'  BY DEF IInv, ChildOwned, Scanning, Finish, scan
<1>4. Counted'  BY DEF IInv, Counted, ChildOwned, Scanning, Active, Finish, Remaining, scan
<1>5. Inside'  BY DEF IInv, Inside, ChildOwned, Scanning, Finish, scan
<1>6. Covered'
  BY DEF IInv, Typed, Covered, Visited, Clean, Active, Finish, Truncated, Partial, scan
<1>7. Sources'  BY DEF IInv, Sources, Scanning, Finish, Benign, InScope, scan
<1>8. Listed'  BY DEF IInv, Typed, Listed, Finish, Truncated, Partial, Literal, scan
<1> QED BY <1>2, <1>3, <1>4, <1>5, <1>6, <1>7, <1>8 DEF IInv

LEMMA ReadRemoteStep == ASSUME IInv, ReadRemote PROVE IInv'
<1>1. Kept  BY SameRequest DEF ReadRemote
<1> USE <1>1 DEF Kept
<1>2. Typed'
  <2>1. remote' \in Nat  BY RequestFacts DEF IInv, Counted, ReadRemote, Remaining
  <2> QED BY <2>1 DEF Typed, ReadRemote, Active, Ended, scan
<1>3. ChildOwned'  BY DEF IInv, ChildOwned, Scanning, ReadRemote, scan
<1>4. Counted'
  <2>1. remote = 0 /\ Cardinality(hits) <= req.limit  BY DEF IInv, Counted, ReadRemote
  <2>2. remote' <= req.limit - Cardinality(hits)
    BY <2>1, RequestFacts DEF ReadRemote, Remaining
  <2>3. remote' \in Nat  BY <1>2 DEF Typed
  <2> QED BY <2>2, <2>3 DEF Counted, Active, ReadRemote, scan
<1>5. Inside'  BY DEF IInv, Inside, ChildOwned, Scanning, ReadRemote, scan
<1>6. Covered'
  BY DEF IInv, Typed, Covered, Visited, Clean, Active, ReadRemote, Truncated, Partial, scan
<1>7. Sources'  BY DEF IInv, Sources, Scanning, ReadRemote, Benign, InScope, scan
<1>8. Listed'  BY DEF IInv, Typed, Listed, ReadRemote, Truncated, Partial, Literal, scan
<1> QED BY <1>2, <1>3, <1>4, <1>5, <1>6, <1>7, <1>8 DEF IInv

LEMMA RemoteFailsStep == ASSUME IInv, RemoteFails PROVE IInv'
<1>1. Kept  BY SameRequest DEF RemoteFails
<1> USE <1>1 DEF Kept
<1>2. Typed'
  BY ZenonT(30) DEF Typed, RemoteFails, Active, Ended, Truncated, Partial, Literal, Remaining, scan
<1>3. ChildOwned'  BY DEF IInv, ChildOwned, Scanning, RemoteFails, scan
<1>4. Counted'  BY DEF IInv, Counted, ChildOwned, Scanning, Active, RemoteFails, Remaining, scan
<1>5. Inside'  BY DEF IInv, Inside, ChildOwned, Scanning, RemoteFails, scan
<1>6. Covered'
  BY DEF IInv, Typed, Covered, Visited, Clean, Active, RemoteFails, Truncated, Partial, scan
<1>7. Sources'  BY DEF IInv, Sources, Scanning, RemoteFails, Benign, InScope, scan
<1>8. Listed'  BY DEF IInv, Typed, Listed, RemoteFails, Truncated, Partial, Literal, scan
<1> QED BY <1>2, <1>3, <1>4, <1>5, <1>6, <1>7, <1>8 DEF IInv

LEMMA HashFileStep == ASSUME IInv, HashFile PROVE IInv'
<1>1. Kept  BY SameRequest DEF HashFile
<1> USE <1>1 DEF Kept
<1>2. Typed'
  <2>1. ToHash \subseteq Lines  BY DEF IInv, Inside, ToHash
  <2> QED BY <2>1 DEF Typed, HashFile, Active, scan
<1>3. ChildOwned'  BY DEF IInv, ChildOwned, Scanning, HashFile, scan
<1>4. Counted'  BY DEF IInv, Counted, ChildOwned, Scanning, Active, HashFile, Remaining, scan
<1>5. Inside'  BY DEF IInv, Inside, ChildOwned, Scanning, HashFile, scan
<1>6. Covered'
  BY DEF IInv, Typed, Covered, Visited, Clean, Active, HashFile, Truncated, Partial, scan
<1>7. Sources'  BY DEF IInv, Sources, Scanning, HashFile, Benign, InScope, scan
<1>8. Listed'  BY DEF IInv, Typed, Listed, HashFile, Truncated, Partial, Literal, scan
<1> QED BY <1>2, <1>3, <1>4, <1>5, <1>6, <1>7, <1>8 DEF IInv

LEMMA SkipFileStep == ASSUME IInv, SkipFile PROVE IInv'
<1>1. Kept  BY SameRequest DEF SkipFile
<1> USE <1>1 DEF Kept
<1>2. Typed'
  <2>1. ToHash \subseteq Lines  BY DEF IInv, Inside, ToHash
  <2> QED BY <2>1, ZenonT(30) DEF Typed, SkipFile, Active, Partial, scan
<1>3. ChildOwned'  BY DEF IInv, ChildOwned, Scanning, SkipFile, scan
<1>4. Counted'  BY DEF IInv, Counted, ChildOwned, Scanning, Active, SkipFile, Remaining, scan
<1>5. Inside'  BY DEF IInv, Inside, ChildOwned, Scanning, SkipFile, scan
<1>6. Covered'
  BY DEF IInv, Typed, Covered, Visited, Clean, Active, SkipFile, Truncated, Partial, scan
<1>7. Sources'  BY DEF IInv, Sources, Scanning, SkipFile, Benign, InScope, scan
<1>8. Listed'  BY DEF IInv, Typed, Listed, SkipFile, Truncated, Partial, Literal, scan
<1> QED BY <1>2, <1>3, <1>4, <1>5, <1>6, <1>7, <1>8 DEF IInv

LEMMA HashFailsStep == ASSUME IInv, HashFails PROVE IInv'
<1>1. Kept  BY SameRequest DEF HashFails
<1> USE <1>1 DEF Kept
<1>2. Typed'
  BY DEF Typed, HashFails, Active, Ended, Truncated, Partial, Literal, Remaining, scan
<1>3. ChildOwned'  BY DEF IInv, ChildOwned, Scanning, HashFails, scan
<1>4. Counted'  BY DEF IInv, Counted, ChildOwned, Scanning, Active, HashFails, Remaining, scan
<1>5. Inside'  BY DEF IInv, Inside, ChildOwned, Scanning, HashFails, scan
<1>6. Covered'
  BY DEF IInv, Typed, Covered, Visited, Clean, Active, HashFails, Truncated, Partial, scan
<1>7. Sources'  BY DEF IInv, Sources, Scanning, HashFails, Benign, InScope, scan
<1>8. Listed'  BY DEF IInv, Typed, Listed, HashFails, Truncated, Partial, Literal, scan
<1> QED BY <1>2, <1>3, <1>4, <1>5, <1>6, <1>7, <1>8 DEF IInv

LEMMA AllHashedStep == ASSUME IInv, AllHashed PROVE IInv'
<1>1. Kept  BY SameRequest DEF AllHashed
<1> USE <1>1 DEF Kept
<1>2. Typed'
  BY DEF Typed, AllHashed, Active, Ended, Truncated, Partial, Literal, Remaining, scan
<1>3. ChildOwned'  BY DEF IInv, ChildOwned, Scanning, AllHashed, scan
<1>4. Counted'  BY DEF IInv, Counted, ChildOwned, Scanning, Active, AllHashed, Remaining, scan
<1>5. Inside'  BY DEF IInv, Inside, ChildOwned, Scanning, AllHashed, scan
<1>6. Covered'
  BY DEF IInv, Typed, Covered, Visited, Clean, Active, AllHashed, Truncated, Partial, scan
<1>7. Sources'  BY DEF IInv, Sources, Scanning, AllHashed, Benign, InScope, scan
<1>8. Listed'
  <2>1. {h.line : h \in hits} \subseteq hashed \cup skipped  BY DEF AllHashed, ToHash
  <2> QED BY <2>1 DEF IInv, Listed, AllHashed, scan
<1> QED BY <1>2, <1>3, <1>4, <1>5, <1>6, <1>7, <1>8 DEF IInv

-----------------------------------------------------------------------------
(* The steps that read the index or a child. *)

\* Lines of the scope become hits: they are all that it must contribute, or the
\* search stops early and says so.
LEMMA AddHits ==
    ASSUME IInv, UNCHANGED fixed, pc \in Active, NEW lines \in SUBSET Lines,
           \A l \in lines : IsPrefix(scope, l),
           Cardinality(hits) + Cardinality(lines) <= req.limit,
           hits' = hits \cup {Hit(scope, l) : l \in lines},
           flags' \in {flags, Truncated, Partial}, ok' \in BOOLEAN,
           UNCHANGED <<todo, scope, remote, bad, hashed, skipped>>,
           child' = "none", out' = {}, found' = {}, diag' \subseteq Diagnostics,
           \/ pc' = "finish" /\ flags' = Truncated
           \/ pc' = "next" /\ (Clean' => Expected(scope) \subseteq lines)
    PROVE  IInv'
<1>1. Kept  BY SameRequest
<1> USE <1>1 DEF Kept
<1>2. /\ IsFiniteSet(hits') /\ Cardinality(hits') \in Nat /\ Cardinality(hits') <= req.limit
  <2>1. PICK more : more = hits'  OBVIOUS
  <2>2. /\ IsFiniteSet(more) /\ Cardinality(more) \in Nat /\ Cardinality(lines) \in Nat
        /\ Cardinality(more) <= Cardinality(hits) + Cardinality(lines)
    BY <2>1, HitsCount
  <2> QED BY <2>1, <2>2
<1>3. \A h \in hits' :
        \/ h \in hits
        \/ h.line \in lines /\ h.scope = scope /\ h = Hit(scope, h.line)
  BY DEF Hit
<1>4. scope \in Selected  BY DEF Typed
<1>5. Typed'  BY <1>2, ZenonT(30) DEF Typed, Active, Ended, Truncated, Partial
<1>6. ChildOwned'  BY DEF ChildOwned, Scanning
<1>7. Counted'  BY <1>2 DEF IInv, Counted, Active
<1>8. Inside'
  <2>1. \A h \in hits' : /\ h = Hit(h.scope, h.line) /\ h.line \in Lines
                         /\ h.scope \in Selected /\ IsPrefix(h.scope, h.line)
    BY <1>3, <1>4 DEF IInv, Inside
  <2> QED BY <2>1 DEF Inside
<1>9. Covered'
  <2>1. flags' = Truncated => ~Clean'  BY DEF Truncated, Clean, Typed
  <2>2. CASE flags' # Truncated /\ pc' = "next" /\ Clean'
    <3>1. Clean  BY <2>2 DEF Clean, Typed, Partial
    <3>2. \A l \in Expected(scope) : Hit(scope, l) \in hits'  BY <2>1, <2>2
    <3>3. \A s \in Selected : Visited(s)' => s = scope \/ Visited(s)  BY DEF Visited
    <3>4. \A s \in Selected : Visited(s) => \A l \in Expected(s) : Hit(s, l) \in hits
      BY <3>1 DEF IInv, Covered, Active
    <3>5. \A s \in Selected : Visited(s)' => \A l \in Expected(s) : Hit(s, l) \in hits'
      BY <3>2, <3>3, <3>4
    <3> QED BY <2>2, <3>5 DEF Covered
  <2> QED BY <2>1, <2>2 DEF Covered
<1>10. Sources'  BY DEF Sources, Scanning
<1>11. Listed'
  BY DEF IInv, Typed, Listed, Truncated, Partial
<1> QED BY <1>5, <1>6, <1>7, <1>8, <1>9, <1>10, <1>11 DEF IInv

LEMMA ReadPageStep == ASSUME IInv, ReadPage PROVE IInv'
<1>1. Kept  BY SameRequest DEF ReadPage
<1> USE <1>1 DEF Kept
<1>2. PICK p \in Page :
         /\ hits' = hits \cup {Hit(scope, l) : l \in p}
         /\ flags' = IF Cardinality(p) = Remaining THEN Truncated ELSE flags
  BY DEF ReadPage
<1>3. /\ pc = "page" /\ pc' = "next" /\ ok' = TRUE /\ Asks /\ InScope(host.indexed) # {}
      /\ UNCHANGED <<todo, scope, child, out, diag, found, remote, bad, hashed, skipped>>
  BY DEF ReadPage, scan
<1>4. Literal /\ child = "none" /\ out = {} /\ found = {}
  BY <1>3 DEF IInv, Sources, ChildOwned, Scanning
<1>5. InScope(host.indexed) \subseteq Lines /\ Cardinality(InScope(host.indexed)) \in Nat
  BY RequestFacts, LineFacts DEF InScope
<1>6. /\ p \subseteq InScope(host.indexed) /\ Cardinality(p) <= Remaining
      /\ Cardinality(p) # Remaining => p = InScope(host.indexed)
  BY <1>5 DEF Page, Remaining
<1>7. Clean' => Expected(scope) \subseteq p
  <2>1. Clean' => Cardinality(p) # Remaining  BY <1>2 DEF Clean, Truncated, Typed
  <2>2. Expected(scope) = InScope(host.indexed)
    BY <1>3, <1>4, RequestFacts DEF Expected, InScope
  <2> QED BY <1>6, <2>1, <2>2
<1>8. p \subseteq Lines /\ \A l \in p : IsPrefix(scope, l)  BY <1>5, <1>6 DEF InScope
<1>9. Cardinality(hits) + Cardinality(p) <= req.limit
  <2>1. Cardinality(p) \in Nat  BY <1>8, LineFacts
  <2> QED BY <1>6, <2>1 DEF Remaining
<1>10. flags' \in {flags, Truncated, Partial} /\ diag' \subseteq Diagnostics
  BY <1>2, <1>3 DEF Typed
<1>11. UNCHANGED fixed  BY DEF ReadPage
<1>12. pc \in Active  BY <1>3 DEF Active
<1> QED BY <1>2, <1>3, <1>4, <1>7, <1>8, <1>9, <1>10, <1>11, <1>12, AddHits

LEMMA StopEarlyStep ==
    ASSUME IInv, UNCHANGED fixed, pc = "scan", NEW lines \in SUBSET Lines, StopEarly(lines),
           \A l \in lines : IsPrefix(scope, l),
           Cardinality(hits) + Cardinality(lines) <= req.limit,
           UNCHANGED <<todo, scope, remote, bad, hashed, skipped>>
    PROVE  IInv'
<1>1. /\ hits' = hits \cup {Hit(scope, l) : l \in lines}
      /\ flags' = Truncated /\ ok' = TRUE /\ pc' = "finish"
      /\ child' = "none" /\ out' = {} /\ diag' = {} /\ found' = {}
  BY DEF StopEarly, NoScan
<1>2. pc \in Active /\ ok' \in BOOLEAN /\ diag' \subseteq Diagnostics
  BY <1>1 DEF Active
<1> QED BY <1>1, <1>2, AddHits

LEMMA ScanSucceedsStep == ASSUME IInv, ScanSucceeds PROVE IInv'
<1>1. Kept  BY SameRequest DEF ScanSucceeds
<1> USE <1>1 DEF Kept
<1>2. /\ pc = "wait" /\ pc' = "next" /\ ok' = TRUE
      /\ hits' = hits \cup {Hit(scope, l) : l \in found}
      /\ flags' = IF Benign THEN flags ELSE Partial
      /\ child' = "none" /\ out' = {} /\ diag' = {} /\ found' = {}
      /\ UNCHANGED <<todo, scope, remote, bad, hashed, skipped>>
  BY DEF ScanSucceeds, NoScan
<1>3. Clean' => Expected(scope) \subseteq found
  <2>1. Clean' => Benign  BY <1>2 DEF Clean, Partial, Typed
  <2> QED BY <1>2, <2>1 DEF IInv, Sources, Scanning
<1>4. found \subseteq Lines /\ \A l \in found : IsPrefix(scope, l)
  BY DEF IInv, Typed, Inside
<1>5. Cardinality(hits) + Cardinality(found) <= req.limit
  BY <1>2 DEF IInv, Counted, Active
<1>6. pc \in Active /\ UNCHANGED fixed /\ diag' \subseteq Diagnostics
  BY <1>2 DEF Active, ScanSucceeds
<1> QED BY <1>2, <1>3, <1>4, <1>5, <1>6, AddHits

\* A scope that fails says so, and what was read of it is forgotten.
LEMMA ScopeFailsStep == ASSUME IInv, pc \in Active, ScopeFails PROVE IInv'
<1>1. Kept  BY SameRequest DEF ScopeFails
<1> USE <1>1 DEF Kept
<1>2. /\ bad' = TRUE /\ flags' = Partial /\ pc' \in {"error", "next"}
      /\ child' = "none" /\ out' = {} /\ diag' = {} /\ found' = {}
      /\ UNCHANGED <<todo, scope, hits, remote, ok, hashed, skipped>>
  BY DEF ScopeFails, NoScan
<1>3. Typed'  BY <1>2 DEF Typed, Active, Ended, Partial
<1>4. ChildOwned'  BY <1>2 DEF ChildOwned, Scanning
<1>5. Counted'  BY <1>2 DEF IInv, Counted, Active
<1>6. Inside'  BY <1>2 DEF IInv, Inside
<1>7. Covered'  BY <1>2 DEF Covered, Clean, Partial, Typed
<1>8. Sources'  BY <1>2 DEF Sources, Scanning
<1>9. Listed'  BY <1>2 DEF IInv, Listed, Partial, Typed
<1> QED BY <1>3, <1>4, <1>5, <1>6, <1>7, <1>8, <1>9 DEF IInv

LEMMA FailingSteps ==
    ASSUME IInv, PageFails \/ SpawnFails \/ ContextFails \/ ScanTimesOut \/ ScanFails
    PROVE  IInv'
<1>1. pc \in Active /\ ScopeFails
  BY DEF PageFails, SpawnFails, ContextFails, ScanTimesOut, ScanFails, Active
<1> QED BY <1>1, ScopeFailsStep

\* A complaint takes a line out of the output: one that may not be read, or one
\* whose loss makes the scope fail or the answer partial.
LEMMA ChildComplainsStep == ASSUME IInv, ChildComplains PROVE IInv'
<1>1. Typed /\ req.limit \in Nat  BY RequestFacts DEF IInv
<1>2. PICK d \in Diagnostics :
         /\ diag' = diag \cup {d}
         /\ d = "flood" => diag # {} /\ UNCHANGED <<out, denied>>
         /\ d # "flood" => \E l \in out :
             /\ out' = out \ {l}
             /\ denied' = IF d = "denied" THEN denied \cup {l} ELSE denied
  BY DEF ChildComplains
<1>3. /\ pc = "scan" /\ pc' = "scan"
      /\ UNCHANGED <<req, host, disk, late, changes, todo, scope, child, found, hits,
                     remote, flags, ok, bad, hashed, skipped>>
  BY DEF ChildComplains
<1>4. /\ out' \subseteq out /\ denied \subseteq denied' /\ denied' \subseteq Lines
      /\ \A l \in out \ out' : d # "flood" /\ (d = "denied" => l \in denied')
  BY <1>1, <1>2 DEF Typed
<1>5. /\ Selected' = Selected /\ (Literal' <=> Literal) /\ (Asks' <=> Asks)
      /\ (HasCandidates' <=> HasCandidates)
  BY <1>3 DEF Selected, RemoteOnly, Narrowed, Literal, Asks, HasCandidates
<1>6. \A l : Readable(l)' => Readable(l) /\ l \notin denied'
  BY <1>3, <1>4 DEF Readable, Scanned
<1>7. \A s : \A l \in Expected(s)' : l \in Expected(s)
  BY <1>3, <1>5, <1>6 DEF Expected
<1>8. Typed'  BY <1>1, <1>2, <1>3, <1>4, <1>5 DEF Typed, Active, Diagnostics
<1>9. ChildOwned' /\ Listed'  BY <1>3 DEF IInv, ChildOwned, Scanning, Listed
<1>10. Counted'  BY <1>3 DEF IInv, Counted
<1>11. Inside'  BY <1>3, <1>4, <1>5 DEF IInv, Inside
<1>12. Covered'
  <2>1. \A s : Visited(s)' <=> Visited(s)  BY <1>3, <1>5 DEF Visited
  <2> QED BY <1>3, <1>5, <1>7, <2>1 DEF IInv, Covered, Clean
<1>13. Sources'
  <2>1. Literal /\ Asks => InScope(host.indexed) = {}  BY <1>3 DEF IInv, Sources
  <2>2. PICK s : s = scope  OBVIOUS
  <2>3. ASSUME Benign', NEW l \in Expected(s)' PROVE l \in found \cup out'
    <3>1. Benign /\ d \in {"denied", "flood"}  BY <1>2, <2>3 DEF Benign
    <3>2. l \in Expected(s)  BY <1>7, <2>3
    <3>3. l \in found \cup out  BY <1>3, <2>2, <3>1, <3>2 DEF IInv, Sources, Scanning
    <3>4. l \notin denied'
      <4>1. ~(Literal /\ Asks /\ {k \in Lines : IsPrefix(s, k)} \cap host.indexed # {})
        BY <1>1, <2>1, <2>2, RequestFacts DEF InScope
      <4> QED BY <1>3, <1>5, <1>6, <2>3, <4>1 DEF Expected
    <3> QED BY <1>4, <3>1, <3>3, <3>4
  <2>4. \A l \in Expected(scope)' : Benign' => l \in found \cup out'
    BY <1>3, <2>2, <2>3
  <2>5. InScope(host.indexed)' = InScope(host.indexed)  BY <1>3 DEF InScope
  <2> QED BY <1>3, <1>5, <2>1, <2>4, <2>5 DEF Sources, Scanning
<1> QED BY <1>8, <1>9, <1>10, <1>11, <1>12, <1>13 DEF IInv

LEMMA ReadLineStep == ASSUME IInv, ReadLine PROVE IInv'
<1>1. Kept  BY SameRequest DEF ReadLine
<1> USE <1>1 DEF Kept
<1>2. PICK l \in out :
        LET lines == IF l \in Colons /\ req.tool = "text" THEN found ELSE found \cup {l}
        IN  IF Cardinality(lines) >= Remaining THEN StopEarly(lines)
            ELSE /\ out' = out \ {l} /\ found' = lines
                 /\ UNCHANGED <<child, diag, hits, flags, ok, pc>>
  BY DEF ReadLine
<1>3. pc = "scan" /\ UNCHANGED fixed /\ UNCHANGED <<todo, scope, remote, bad, hashed, skipped>>
  BY DEF ReadLine
<1> DEFINE lines == IF l \in Colons /\ req.tool = "text" THEN found ELSE found \cup {l}
<1>4. lines \subseteq Lines /\ \A k \in lines : IsPrefix(scope, k)
  BY DEF IInv, Typed, Inside
<1>5. Cardinality(hits) + Cardinality(lines) <= req.limit /\ Cardinality(lines) \in Nat
  <2>1. Cardinality(hits) + Cardinality(found) < req.limit
    BY <1>3 DEF IInv, Counted, Active
  <2>2. IsFiniteSet(found)  BY LineFacts DEF Typed
  <2>3. Cardinality(found \cup {l}) \in {Cardinality(found), Cardinality(found) + 1}
    BY <2>2, FS_AddElement
  <2>4. Cardinality(lines) \in {Cardinality(found), Cardinality(found) + 1}  BY <2>3
  <2> HIDE DEF lines
  <2> QED BY <2>1, <2>4
<1>6. CASE Cardinality(lines) >= Remaining
  <2>1. StopEarly(lines)  BY <1>2, <1>6
  <2> HIDE DEF lines
  <2> QED BY <1>3, <1>4, <1>5, <2>1, StopEarlyStep
<1>7. CASE ~(Cardinality(lines) >= Remaining)
  <2>1. out' = out \ {l} /\ found' = lines /\ UNCHANGED <<child, diag, hits, flags, ok, pc>>
    BY <1>2, <1>7
  <2>2. Cardinality(hits) + Cardinality(lines) < req.limit  BY <1>5, <1>7 DEF Remaining
  <2>3. lines \subseteq found \cup {l} /\ found \subseteq lines
        /\ (l \in lines \/ (l \in Colons /\ req.tool = "text"))
    OBVIOUS
  <2> HIDE DEF lines
  <2>4. Typed'  BY <1>3, <1>4, <2>1 DEF Typed
  <2>5. ChildOwned' /\ Listed'  BY <1>3, <2>1 DEF IInv, ChildOwned, Scanning, Listed
  <2>6. Counted'  BY <1>3, <2>1, <2>2 DEF IInv, Counted
  <2>7. Inside'  BY <1>3, <1>4, <2>1 DEF IInv, Inside
  <2>8. Covered'  BY <1>3, <2>1 DEF IInv, Covered, Visited, Clean
  <2>9. Sources'
    <3>1. Literal /\ Asks => InScope(host.indexed) = {}  BY <1>3 DEF IInv, Sources
    <3>2. \A k \in Expected(scope) : ~(k \in Colons /\ req.tool = "text")
      <4>1. ~(Literal /\ Asks /\ {k \in Lines : IsPrefix(scope, k)} \cap host.indexed # {})
        BY <3>1, RequestFacts DEF InScope
      <4> QED BY <4>1 DEF Expected, Readable
    <3>3. Benign => \A k \in Expected(scope) : k \in found' \cup out'
      BY <1>3, <2>1, <2>3, <3>2 DEF IInv, Sources, Scanning
    <3>4. InScope(host.indexed)' = InScope(host.indexed)  BY <1>3 DEF InScope
    <3>5. Expected(scope)' = Expected(scope)  BY <1>3
    <3> QED BY <1>3, <2>1, <3>1, <3>3, <3>4, <3>5 DEF Sources, Scanning, Benign
  <2> QED BY <2>4, <2>5, <2>6, <2>7, <2>8, <2>9 DEF IInv
<1> QED BY <1>6, <1>7

LEMMA ByteBoundStep == ASSUME IInv, ByteBound PROVE IInv'
<1>1. Kept  BY SameRequest DEF ByteBound
<1> USE <1>1 DEF Kept
<1>2. /\ pc = "scan" /\ StopEarly(found) /\ UNCHANGED fixed
      /\ UNCHANGED <<todo, scope, remote, bad, hashed, skipped>>
  BY DEF ByteBound
<1>3. found \subseteq Lines /\ \A l \in found : IsPrefix(scope, l)
  BY DEF IInv, Typed, Inside
<1>4. Cardinality(hits) + Cardinality(found) <= req.limit
  BY <1>2 DEF IInv, Counted, Active
<1> QED BY <1>2, <1>3, <1>4, StopEarlyStep

-----------------------------------------------------------------------------
(* Whoever asked gives up, time passes, files change. *)

LEMMA DropStep == ASSUME IInv, Drop PROVE IInv'
<1>1. Kept  BY SameRequest DEF Drop
<1> USE <1>1 DEF Kept
<1>2. /\ pc' = "dropped" /\ child' = "none" /\ out' = {} /\ diag' = {} /\ found' = {}
      /\ todo' = {} /\ hits' = {} /\ remote' = 0 /\ hashed' = {} /\ skipped' = {}
      /\ UNCHANGED <<flags, ok, bad>>
  BY DEF Drop, NoScan
<1>3. IsFiniteSet({}) /\ Cardinality({}) = 0  BY FS_EmptySet
<1>4. Typed'  BY <1>2, <1>3 DEF Typed, Active, Ended
<1>5. ChildOwned' /\ Listed'  BY <1>2 DEF ChildOwned, Listed
<1>6. Counted'  BY <1>2, <1>3 DEF Counted, Active
<1>7. Inside' /\ Covered' /\ Sources'  BY <1>2 DEF Inside, Covered, Sources, Scanning
<1> QED BY <1>4, <1>5, <1>6, <1>7 DEF IInv

LEMMA DeadlineStep == ASSUME IInv, Deadline PROVE IInv'
<1>1. /\ late' = TRUE
      /\ UNCHANGED <<req, host, disk, pc, todo, scope, scan, hits, remote, flags, ok, bad,
                     hashed, skipped, denied, changes>>
  BY DEF Deadline
<1>2. Selected' = Selected /\ (Literal' <=> Literal) /\ (Asks' <=> Asks)
  BY <1>1 DEF Selected, RemoteOnly, Narrowed, Literal, Asks
<1>3. \A s : Expected(s)' = Expected(s)
  BY <1>1 DEF Expected, Readable, Scanned, HasCandidates, Literal, Asks
<1>4. Typed'  BY <1>1, <1>2 DEF IInv, Typed, scan
<1>5. ChildOwned' /\ Listed' /\ Counted'
  BY <1>1 DEF IInv, ChildOwned, Listed, Counted, scan
<1>6. Inside'  BY <1>1, <1>2 DEF IInv, Inside, scan
<1>7. Covered'  BY <1>1, <1>2, <1>3 DEF IInv, Covered, Visited, Clean
<1>8. Sources'  BY <1>1, <1>2, <1>3 DEF IInv, Sources, Benign, InScope, scan
<1> QED BY <1>4, <1>5, <1>6, <1>7, <1>8 DEF IInv

\* What can be read only becomes less.
LEMMA FileChangesStep == ASSUME IInv, FileChanges PROVE IInv'
<1>1. /\ changes < MaxChanges /\ changes' = changes + 1
      /\ UNCHANGED <<req, host, pc, todo, scope, scan, hits, remote, flags, ok, bad,
                     hashed, skipped, late, denied>>
  BY DEF FileChanges
<1>2. PICK l \in Lines, d \in {"large", "gone"} :
         disk[l] \notin {d, "gone"} /\ disk' = [disk EXCEPT ![l] = d]
  BY DEF FileChanges
<1>3. Selected' = Selected /\ (Literal' <=> Literal) /\ (Asks' <=> Asks)
      /\ (HasCandidates' <=> HasCandidates)
  BY <1>1 DEF Selected, RemoteOnly, Narrowed, Literal, Asks, HasCandidates
<1>4. \A k \in Lines : Scanned(k)' => Scanned(k)
  BY <1>1, <1>2 DEF IInv, Typed, Scanned
<1>5. \A s : \A k \in Expected(s)' : k \in Expected(s)
  BY <1>1, <1>3, <1>4 DEF Expected, Readable
<1>6. Typed'
  <2>1. changes' \in 0 .. MaxChanges  BY <1>1, LimitsAssumption DEF IInv, Typed
  <2>2. disk' \in [Lines -> {"text", "large", "gone"}]  BY <1>2 DEF IInv, Typed
  <2> QED BY <1>1, <1>3, <2>1, <2>2 DEF IInv, Typed, scan
<1>7. ChildOwned' /\ Listed' /\ Counted'
  BY <1>1 DEF IInv, ChildOwned, Listed, Counted, scan
<1>8. Inside'  BY <1>1, <1>3 DEF IInv, Inside, scan
<1>9. Covered'
  <2>1. \A s : Visited(s)' <=> Visited(s)  BY <1>1, <1>3 DEF Visited
  <2> QED BY <1>1, <1>3, <1>5, <2>1 DEF IInv, Covered, Clean
<1>10. Sources'
  <2>1. PICK s : s = scope  OBVIOUS
  <2>2. pc \in Scanning /\ Benign => \A k \in Expected(s)' : k \in found \cup out
    BY <1>5, <2>1 DEF IInv, Sources
  <2>3. pc \in Scanning /\ Benign => \A k \in Expected(scope)' : k \in found \cup out
    BY <1>1, <2>1, <2>2
  <2> QED BY <1>1, <1>3, <2>3 DEF IInv, Sources, Benign, InScope, scan
<1> QED BY <1>6, <1>7, <1>8, <1>9, <1>10 DEF IInv

-----------------------------------------------------------------------------
(* The theorems. *)

LEMMA InitIInv == Init => IInv
<1> SUFFICES ASSUME Init PROVE IInv  OBVIOUS
<1>1. /\ req \in [tool : Tools, mode : {"literal", "regex"}, short : BOOLEAN, owned : BOOLEAN,
                  roots : RequestedRoots, grant : Grants, limit : Limits]
      /\ host \in [index : {"none", "rows", "grams"}, indexed : Indexes,
                   hosting : BOOLEAN, rows : Remotes]
      /\ req.tool # "text" => req.grant = {}
      /\ disk = [l \in Lines |-> "text"]
      /\ pc = "next" /\ todo = Selected
      /\ child = "none" /\ out = {} /\ diag = {} /\ found = {}
      /\ hits = {} /\ remote = 0 /\ flags = [truncated |-> FALSE, partial |-> FALSE]
      /\ ok = FALSE /\ bad = FALSE /\ hashed = {} /\ skipped = {} /\ late = FALSE
      /\ denied = {} /\ changes = 0
  BY DEF Init
<1>2. IsFiniteSet({}) /\ Cardinality({}) = 0  BY FS_EmptySet
<1>3. Typed
  <2>1. disk \in [Lines -> {"text", "large", "gone"}]  BY <1>1
  <2>2. flags \in [truncated : BOOLEAN, partial : BOOLEAN]  BY <1>1
  <2>3. changes \in 0 .. MaxChanges /\ remote \in Nat  BY <1>1, LimitsAssumption
  <2>4. todo \subseteq Selected /\ pc \notin Active /\ IsFiniteSet(hits)
    BY <1>1, <1>2 DEF Active
  <2> QED BY <1>1, <2>1, <2>2, <2>3, <2>4 DEF Typed
<1>4. req.limit \in Nat  BY <1>3, RequestFacts
<1>5. ChildOwned /\ Inside /\ Sources /\ Listed
  BY <1>1 DEF ChildOwned, Inside, Sources, Scanning, Listed
<1>6. Counted  BY <1>1, <1>2, <1>4 DEF Counted, Active
<1>7. Covered  BY <1>1 DEF Covered, Visited
<1> QED BY <1>3, <1>5, <1>6, <1>7 DEF IInv

LEMMA NextIInv == IInv /\ [Next]_vars => IInv'
<1> SUFFICES ASSUME IInv, [Next]_vars PROVE IInv'  OBVIOUS
<1>1. CASE Visit
  BY <1>1, NextScopeStep, LimitReachedStep, DeadlineReachedStep, AllVisitedStep DEF Visit
<1>2. CASE ReadIndex
  BY <1>2, ReadPageStep, PageMissingStep, FailingSteps DEF ReadIndex
<1>3. CASE Scan
  BY <1>3, SpawnStep, NoCandidatesStep, ScanSucceedsStep, FailingSteps DEF Scan
<1>4. CASE Output
  BY <1>4, ReadLineStep, FailingSteps, ByteBoundStep, EndOfOutputStep, ChildComplainsStep,
     ChildExitsStep DEF Output
<1>5. CASE AnswerSteps
  BY <1>5, FinishStep, ReadRemoteStep, RemoteFailsStep, HashFileStep, SkipFileStep,
     HashFailsStep, AllHashedStep DEF AnswerSteps
<1>6. CASE Drop \/ Deadline \/ FileChanges
  BY <1>6, DropStep, DeadlineStep, FileChangesStep
<1>7. CASE UNCHANGED vars
  <2>1. UNCHANGED <<req, host, disk, pc, todo, scope, child, out, diag, found, hits, remote,
                    flags, ok, bad, hashed, skipped, late, denied, changes>>
    BY <1>7 DEF vars, scan
  <2>2. Selected' = Selected /\ (Literal' <=> Literal) /\ (Asks' <=> Asks)
    BY <2>1 DEF Selected, RemoteOnly, Narrowed, Literal, Asks
  <2>3. \A s : Expected(s)' = Expected(s)
    BY <2>1 DEF Expected, Readable, Scanned, HasCandidates, Literal, Asks
  <2> QED BY <2>1, <2>2, <2>3
          DEF IInv, Typed, ChildOwned, Counted, Inside, Covered, Visited, Clean, Sources, Benign,
              InScope, Listed
<1> QED BY <1>1, <1>2, <1>3, <1>4, <1>5, <1>6, <1>7 DEF Next, Step

\* The inductive invariant holds.
THEOREM Invariance == Spec => []IInv
BY InitIInv, NextIInv, PTL DEF Spec

\* However a scan ends, early or late, well or not, its child is gone when the
\* search goes on, answers, fails or is dropped.
THEOREM NoOrphanHolds == Spec => []NoOrphan
<1>1. IInv => NoOrphan  BY DEF IInv, ChildOwned, Scanning, NoOrphan
<1> QED BY <1>1, Invariance, PTL

\* The limit bounds what is read at any time, and grants bound where it comes from.
THEOREM WithinRequestHolds == Spec => []WithinRequest
<1>1. IInv => WithinRequest
  <2> SUFFICES ASSUME IInv PROVE WithinRequest  OBVIOUS
  <2>1. Typed /\ req.limit \in Nat  BY RequestFacts DEF IInv
  <2>2. Cardinality(hits) \in Nat /\ Cardinality(found) \in Nat
    BY <2>1, LineFacts, FS_CardinalityType DEF Typed
  <2>3. Cardinality(hits) + Cardinality(found) + remote <= req.limit
    <3>1. CASE pc \in Scanning
      BY <2>1, <2>2, <3>1 DEF IInv, Counted, Active, Scanning
    <3>2. CASE pc \notin Scanning
      <4>1. Cardinality(found) = 0  BY <3>2, FS_EmptySet DEF IInv, ChildOwned
      <4> QED BY <2>1, <2>2, <4>1 DEF IInv, Counted, Typed
    <3> QED BY <3>1, <3>2
  <2>4. TypeOK  BY <2>1, <2>3 DEF IInv, Inside, Typed, TypeOK, Active
  <2>5. ASSUME req.grant # {}, NEW h \in hits
        PROVE  \E g \in req.grant : IsPrefix(g, h.line)
    <3>1. h.scope \in Selected /\ IsPrefix(h.scope, h.line) /\ h.line \in Lines
      BY DEF IInv, Inside
    <3>2. PICK g \in req.grant : IsPrefix(g, h.scope)  BY <2>1, <2>5, <3>1, SelectedFacts
    <3>3. g \in Seq(Nat) /\ h.scope \in Seq(Nat) /\ h.line \in Seq(Nat)
      BY <2>1, <3>1, SelectedFacts, LineFacts, PlacesAssumption DEF Typed
    <3> QED BY <3>1, <3>2, <3>3, PrefixFacts
  <2>6. req.grant = {} => remote = 0  BY DEF IInv, Counted
  <2> QED BY <2>4, <2>5, <2>6 DEF WithinRequest
<1> QED BY <1>1, Invariance, PTL

\* An answer without a flag has all that every selected scope must contribute, and
\* has hashed every file it lists.
THEOREM CompleteIsCompleteHolds == Spec => []CompleteIsComplete
<1>1. IInv => CompleteIsComplete
  <2> SUFFICES ASSUME IInv, pc = "answered", ~flags.partial, ~flags.truncated
               PROVE  /\ \A s \in Selected : \A l \in Expected(s) : Hit(s, l) \in hits
                      /\ req.tool \in {"duplicates", "listed"} =>
                           {h.line : h \in hits} \subseteq hashed
    BY DEF CompleteIsComplete
  <2>1. \A s \in Selected : \A l \in Expected(s) : Hit(s, l) \in hits
    BY DEF IInv, Covered, Clean, Visited, Active
  <2>2. req.tool \in {"duplicates", "listed"} => {h.line : h \in hits} \subseteq hashed
    BY DEF IInv, Listed
  <2> QED BY <2>1, <2>2
<1> QED BY <1>1, Invariance, PTL
=============================================================================
