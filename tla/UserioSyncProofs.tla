-------------------------- MODULE UserioSyncProofs --------------------------
(***************************************************************************)
(* Theorems about UserioSync, for any conversations, attachments, sizes,  *)
(* budgets and faults: the files of a conversation are whole renderings   *)
(* whatever happens to a pass (SplitWhole), and a pass over a store that  *)
(* the cache matches changes nothing (QuietPollWritesNothing).            *)
(***************************************************************************)
EXTENDS UserioSync, FiniteSetTheorems, TLAPS

-----------------------------------------------------------------------------
(* The inductive invariant. *)

Typed ==
    /\ TypeOK /\ files \in [Paths -> Contents]
    /\ \A p \in Paths : files[p] = None \/ \E r, n \in Counts : files[p] = Rendered(r, n)[p[2]]

\* What a pass still has to do: conversations first, then attachments.
Phased ==
    /\ pc \in {"idle", "messages", "attachments", "prune"} => todo = {}
    /\ pc \in {"conversations", "write", "rename"} => todo \subseteq Convs
    /\ pc = "attach" => todo \subseteq Atts
    /\ pc \in {"write", "rename"} => todo # {} /\ writing \subseteq FilesOf(Min(todo))

\* A conversation that was dealt with is expected in full, or one of its files still
\* differs from the store, because its writes were put off.
Passed(c) ==
    /\ pc \in {"conversations", "write", "rename", "attach", "prune"}
    /\ rows[c] > 0 /\ (pc \in {"conversations", "write", "rename"} => c \notin todo)
Dealt == \A c \in Convs : Passed(c) => FilesOf(c) \subseteq expected \/ Pending(c) # {}

\* The files of the conversation at hand are expected or still to write.
InHand ==
    /\ pc \in {"write", "rename"} => FilesOf(Min(todo)) \subseteq expected \cup writing
    /\ pc = "rename" => \A p \in writing : NextFile(p) => p \in expected

\* A cached attachment that the store has is not forgotten.
Attached ==
    pc \in {"attach", "prune"} =>
        \A a \in attFiles \ Skipped :
            snapAtts[a] # "absent" /\ (pc = "attach" => a \notin todo) => a \in expectedAtts

IInv == Typed /\ Phased /\ Dealt /\ InHand /\ Attached

-----------------------------------------------------------------------------
(* Lemmas about the operators. *)

LEMMA Limits ==
    /\ Convs \subseteq Nat /\ Atts \subseteq Nat /\ Skipped \subseteq Atts
    /\ MaxMessages \in Nat \ {0} /\ MaxWrites \in Nat /\ MaxAttempts \in Nat
    /\ MaxChanges \in Nat /\ MaxFaults \in Nat
BY UserioAssumption

Before(S, i) == {j \in S : j < i}

\* A finite set of naturals has a least and a greatest member: of n members, one
\* has none and one has n - 1 before it.
LEMMA Extremes ==
    ASSUME NEW S \in SUBSET Nat, IsFiniteSet(S), S # {}
    PROVE  /\ \E x \in S : \A y \in S : x <= y
           /\ \E x \in S : \A y \in S : x >= y
<1> DEFINE n == Cardinality(S)
           rank == [i \in S |-> Cardinality(Before(S, i))]
<1>1. n \in Nat /\ n # 0  BY FS_CardinalityType, FS_EmptySet
<1>2. \A i : IsFiniteSet(Before(S, i)) /\ Cardinality(Before(S, i)) \in Nat
  BY FS_Subset, FS_CardinalityType DEF Before
<1>3. ASSUME NEW i \in S, NEW k \in S, i < k
      PROVE  Cardinality(Before(S, i)) < Cardinality(Before(S, k))
  <2>1. i \in Nat /\ k \in Nat /\ \A j \in S : j \in Nat /\ (j < i => j < k)  BY <1>3
  <2>2. \A j \in Before(S, i) : j \in Before(S, k)  BY <2>1 DEF Before
  <2>3. i \in Before(S, k) /\ i \notin Before(S, i)  BY <1>3, <2>1 DEF Before
  <2>4. Before(S, i) \in SUBSET Before(S, k)  BY <2>2
  <2>5. /\ Cardinality(Before(S, i)) <= Cardinality(Before(S, k))
        /\ Cardinality(Before(S, i)) # Cardinality(Before(S, k))
    BY <1>2, <2>3, <2>4, FS_Subset
  <2> QED BY <1>2, <2>5
<1>4. \A i \in S : rank[i] \in 0 .. n - 1
  <2> SUFFICES ASSUME NEW i \in S PROVE Cardinality(Before(S, i)) \in 0 .. n - 1
    OBVIOUS
  <2>1. Before(S, i) \in SUBSET S /\ i \notin Before(S, i)  BY DEF Before
  <2>2. Cardinality(Before(S, i)) <= n /\ Cardinality(Before(S, i)) # n
    BY <1>1, <1>2, <2>1, FS_Subset
  <2> QED BY <1>1, <1>2, <2>2
<1>5. \A i, k \in S : i < k => rank[i] < rank[k]  BY <1>3
<1>6. rank \in [S -> 0 .. n - 1]  BY <1>4
<1> HIDE DEF rank
<1>7. rank \in Injection(S, 0 .. n - 1)
  <2>1. \A i, k \in S : rank[i] = rank[k] => i = k
    <3>1. \A i \in S : i \in Nat /\ rank[i] \in Nat  BY <1>4
    <3> HIDE DEF n
    <3> QED BY <1>5, <3>1
  <2> QED BY <1>6, <2>1 DEF Injection, IsInjective
<1>8. IsFiniteSet(0 .. n - 1) /\ Cardinality(0 .. n - 1) = n  BY <1>1, FS_Interval
<1>9. rank \in Surjection(S, 0 .. n - 1)  BY <1>7, <1>8, FS_Injection
<1>10. \A t \in 0 .. n - 1 : \E x \in S : rank[x] = t  BY <1>9 DEF Surjection
<1> HIDE DEF n
<1>11. PICK x \in S : rank[x] = 0  BY <1>1, <1>10
<1>12. PICK z \in S : rank[z] = n - 1  BY <1>1, <1>10
<1>13. \A y \in S : x <= y
  <2>1. \A y \in S : ~(y < x)  BY <1>1, <1>4, <1>5, <1>11
  <2>2. x \in Nat /\ \A y \in S : y \in Nat  OBVIOUS
  <2> QED BY <2>1, <2>2
<1>14. \A y \in S : z >= y
  <2>1. \A y \in S : ~(z < y)  BY <1>1, <1>4, <1>5, <1>12
  <2>2. z \in Nat /\ \A y \in S : y \in Nat  OBVIOUS
  <2> QED BY <2>1, <2>2
<1> QED BY <1>13, <1>14

LEMMA MinFacts ==
    ASSUME NEW S \in SUBSET Nat, S # {}
    PROVE  Min(S) \in S
<1>1. PICK n \in S : TRUE  OBVIOUS
<1> DEFINE T == {j \in S : j <= n}
<1>2. T \in SUBSET Nat /\ n \in T
  <2>1. n \in Nat /\ n <= n  OBVIOUS
  <2> QED BY <1>1, <2>1
<1>3. IsFiniteSet(T)
  <2>1. \A t \in T : t <= n  OBVIOUS
  <2> HIDE DEF T
  <2> QED BY <1>2, <2>1, FS_BoundedSetOfNaturals
<1>4. PICK x \in T : \A y \in T : x <= y  BY <1>2, <1>3, Extremes
<1>5. \A y \in S : x <= y
  <2>1. x \in Nat /\ n \in Nat /\ x <= n /\ \A y \in S : y \in Nat  OBVIOUS
  <2>2. \A y \in S : y <= n => x <= y  BY <1>4
  <2> QED BY <2>1, <2>2
<1>6. x \in S /\ \A y \in S : x =< y  BY <1>5
<1> QED BY <1>6 DEF Min

LEMMA MaxFacts ==
    ASSUME NEW n \in Nat, NEW S \in SUBSET (0 .. n), S # {}
    PROVE  Max(S) \in S /\ \A y \in S : Max(S) >= y
<1>1. S \in SUBSET Nat  OBVIOUS
<1>2. IsFiniteSet(S)
  <2>1. IsFiniteSet(0 .. n)  BY FS_Interval
  <2> QED BY <2>1, FS_Subset
<1>3. PICK x \in S : \A y \in S : x >= y  BY <1>1, <1>2, Extremes
<1> QED BY <1>3 DEF Max

\* As many blocks as fit are at most all of them, and at least the newest.
LEMMA FittingFacts ==
    ASSUME NEW n \in Nat, NEW limit
    PROVE  Fitting(n, limit) \in 0 .. n /\ (n > 0 => Fitting(n, limit) > 0)
<1> DEFINE fits(k) == \A j \in 2 .. k : MapThenSumSet(LAMBDA i : Size[i], (n - j + 1) .. n) <= limit
           K == {k \in 0 .. n : fits(k)}
<1>1. 2 .. 0 = {} /\ 2 .. 1 = {}  OBVIOUS
<1>2. fits(0) /\ fits(1)  BY <1>1
<1> HIDE DEF fits
<1>3. K \in SUBSET (0 .. n) /\ 0 \in K /\ (n > 0 => 1 \in K)  BY <1>2
<1>4. Fitting(n, limit) = Max(K)  BY DEF Fitting, fits
<1> HIDE DEF K
<1>5. Max(K) \in K /\ \A y \in K : Max(K) >= y  BY <1>3, MaxFacts
<1>6. Max(K) \in 0 .. n /\ (n > 0 => Max(K) >= 1)  BY <1>3, <1>5
<1> QED BY <1>4, <1>6

\* The files of one rendering.
LEMMA RenderedFacts ==
    ASSUME NEW row \in Counts, NEW n \in Counts
    PROVE  /\ Rendered(row, n) \in [Suffixes -> Contents]
           /\ n = 0 => \A s \in Suffixes : Rendered(row, n)[s] = None
           /\ n # 0 => \E tail \in 1 .. n, omitted \in 0 .. n :
                /\ tail = Fitting(n, TailBudget) /\ omitted <= n - tail
                /\ Rendered(row, n)["main"] = File(row, n, n - tail + 1, n, 0)
                /\ Rendered(row, n)["archive"] =
                      IF tail = n THEN None ELSE File(row, n, omitted + 1, n - tail, omitted)
<1> DEFINE tail == Fitting(n, TailBudget)
           rest == Fitting(n - tail, ArchiveBudget)
           omitted == n - tail - rest
<1>1. n \in Nat /\ n <= MaxMessages  BY Limits DEF Counts
<1>2. tail \in 0 .. n /\ (n > 0 => tail > 0)  BY <1>1, FittingFacts
<1>3. n - tail \in Nat  BY <1>1, <1>2
<1>4. rest \in 0 .. (n - tail)  BY <1>3, FittingFacts
<1>5. omitted \in 0 .. n /\ omitted <= n - tail  BY <1>1, <1>2, <1>4
<1>6. tail = Fitting(n, TailBudget)  OBVIOUS
<1>7. Rendered(row, n) = [s \in Suffixes |->
         IF n = 0 \/ (s = "archive" /\ tail = n) THEN None
         ELSE IF s = "main" THEN File(row, n, n - tail + 1, n, 0)
         ELSE File(row, n, omitted + 1, n - tail, omitted)]
  BY DEF Rendered
<1> HIDE DEF tail, rest, omitted
<1>8. File(row, n, n - tail + 1, n, 0) \in Contents
  <2>1. (n - tail + 1) .. n \subseteq 1 .. MaxMessages
    <3>1. \A i \in (n - tail + 1) .. n : i \in 1 .. MaxMessages  BY <1>1, <1>2, Limits
    <3> QED BY <3>1
  <2> QED BY <1>1, <2>1, Limits DEF File, Contents, Counts
<1>9. File(row, n, omitted + 1, n - tail, omitted) \in Contents
  <2>1. (omitted + 1) .. (n - tail) \subseteq 1 .. MaxMessages
    <3>1. \A i \in (omitted + 1) .. (n - tail) : i \in 1 .. MaxMessages
      BY <1>1, <1>2, <1>5, Limits
    <3> QED BY <3>1
  <2>2. omitted \in Counts  BY <1>1, <1>5, Limits DEF Counts
  <2> QED BY <2>1, <2>2 DEF File, Contents
<1>10. Rendered(row, n) \in [Suffixes -> Contents]
  BY <1>7, <1>8, <1>9 DEF Contents
<1>11. n = 0 => \A s \in Suffixes : Rendered(row, n)[s] = None  BY <1>7
<1>12. n # 0 => /\ Rendered(row, n)["main"] = File(row, n, n - tail + 1, n, 0)
                /\ Rendered(row, n)["archive"] =
                      IF tail = n THEN None ELSE File(row, n, omitted + 1, n - tail, omitted)
  BY <1>7 DEF Suffixes
<1> QED BY <1>6, <1>1, <1>2, <1>5, <1>10, <1>11, <1>12

\* A path is a conversation and a suffix; the files of a conversation are its own.
LEMMA PathFacts ==
    /\ \A c \in Convs, s \in Suffixes : <<c, s>> \in Paths
    /\ \A p \in Paths : p = <<p[1], p[2]>> /\ p[1] \in Convs /\ p[2] \in Suffixes
    /\ \A c \in Convs : FilesOf(c) \subseteq Paths
    /\ \A c \in Convs : \A p \in FilesOf(c) : p[1] = c
BY DEF Paths, FilesOf

-----------------------------------------------------------------------------
(* The steps of a pass. *)

\* What a step leaves as it is when it reads nothing of the store.
LEMMA SameRendering ==
    ASSUME UNCHANGED <<rows, msgs>>
    PROVE  /\ \A c : Render(c)' = Render(c) /\ FilesOf(c)' = FilesOf(c)
           /\ files' = files => \A c : Pending(c)' = Pending(c)
BY DEF Render, FilesOf, Pending

LEMMA ReadConversationsStep == ASSUME IInv, ReadConversations PROVE IInv'
<1>1. Typed  BY DEF IInv
<1> USE <1>1 DEF storeVars, cacheVars, snapshot
<1>2. Typed'  BY Limits DEF Typed, TypeOK, ReadConversations
<1>3. Phased'  BY DEF IInv, Phased, ReadConversations, FilesOf, Render
<1>4. Dealt'  BY SameRendering DEF IInv, Dealt, Passed, ReadConversations
<1>5. InHand'  BY DEF IInv, InHand, ReadConversations, NextFile, FilesOf, Render
<1>6. Attached'  BY DEF IInv, Attached, ReadConversations
<1> QED BY <1>2, <1>3, <1>4, <1>5, <1>6 DEF IInv

LEMMA ReadMessagesStep == ASSUME IInv, ReadMessages PROVE IInv'
<1>1. Typed  BY DEF IInv
<1> USE <1>1 DEF storeVars, cacheVars, snapshot
<1>2. Typed'  BY Limits DEF Typed, TypeOK, ReadMessages
<1>3. Phased'  BY DEF IInv, Phased, ReadMessages, FilesOf, Render
<1>4. Dealt'  BY SameRendering DEF IInv, Dealt, Passed, ReadMessages
<1>5. InHand'  BY DEF IInv, InHand, ReadMessages, NextFile, FilesOf, Render
<1>6. Attached'  BY DEF IInv, Attached, ReadMessages
<1> QED BY <1>2, <1>3, <1>4, <1>5, <1>6 DEF IInv

LEMMA ReadAttachmentsStep == ASSUME IInv, ReadAttachments PROVE IInv'
<1>1. Typed  BY DEF IInv
<1> USE <1>1 DEF storeVars, cacheVars, snapshot
<1>2. Typed'  BY Limits DEF Typed, TypeOK, ReadAttachments
<1>3. Phased'  BY DEF IInv, Phased, ReadAttachments, FilesOf, Render
<1>4. Dealt'  BY SameRendering DEF IInv, Dealt, Passed, ReadAttachments
<1>5. InHand'  BY DEF IInv, InHand, ReadAttachments, NextFile, FilesOf, Render
<1>6. Attached'  BY DEF IInv, Attached, ReadAttachments
<1> QED BY <1>2, <1>3, <1>4, <1>5, <1>6 DEF IInv

LEMMA ConversationUnchangedStep == ASSUME IInv, ConversationUnchanged PROVE IInv'
<1>1. Typed  BY DEF IInv
<1> USE <1>1 DEF storeVars, cacheVars, snapshot
<1>2. Typed'  BY PathFacts DEF Typed, TypeOK, ConversationUnchanged
<1>3. Phased'  BY DEF IInv, Phased, ConversationUnchanged, FilesOf, Render
<1>4. Dealt'  BY SameRendering DEF IInv, Dealt, Passed, ConversationUnchanged
<1>5. InHand'  BY DEF IInv, InHand, ConversationUnchanged, NextFile, FilesOf, Render
<1>6. Attached'  BY DEF IInv, Attached, ConversationUnchanged
<1> QED BY <1>2, <1>3, <1>4, <1>5, <1>6 DEF IInv

LEMMA ConversationCappedStep == ASSUME IInv, ConversationCapped PROVE IInv'
<1>1. Typed  BY DEF IInv
<1> USE <1>1 DEF storeVars, cacheVars, snapshot
<1>2. Typed'  BY Limits DEF Typed, TypeOK, ConversationCapped
<1>3. Phased'  BY DEF IInv, Phased, ConversationCapped, FilesOf, Render
<1>4. Dealt'  BY SameRendering DEF IInv, Dealt, Passed, ConversationCapped
<1>5. InHand'  BY DEF IInv, InHand, ConversationCapped, NextFile, FilesOf, Render
<1>6. Attached'  BY DEF IInv, Attached, ConversationCapped
<1> QED BY <1>2, <1>3, <1>4, <1>5, <1>6 DEF IInv

LEMMA StartConversationStep == ASSUME IInv, StartConversation PROVE IInv'
<1>1. Typed  BY DEF IInv
<1>2. PICK c \in Convs : c = Min(todo) /\ todo # {} /\ Pending(c) # {} /\ writing' = FilesOf(c)
  BY DEF StartConversation, Current
<1>3. UNCHANGED <<rows, msgs, files, todo>>
  BY DEF StartConversation, cacheVars, snapshot
<1>4. FilesOf(Min(todo))' = FilesOf(c)  BY <1>2, <1>3 DEF FilesOf, Render
<1> USE <1>1 DEF storeVars, cacheVars, snapshot
<1>5. Typed'  BY <1>2, PathFacts DEF Typed, TypeOK, StartConversation
<1>6. Phased'  BY <1>2, <1>3, <1>4 DEF IInv, Phased, StartConversation
<1>7. Dealt'  BY SameRendering DEF IInv, Dealt, Passed, StartConversation
<1>8. InHand'  BY <1>2, <1>4 DEF InHand, StartConversation
<1>9. Attached'  BY DEF IInv, Attached, StartConversation
<1> QED BY <1>5, <1>6, <1>7, <1>8, <1>9 DEF IInv

LEMMA WriteFileStep == ASSUME IInv, WriteFile PROVE IInv'
<1>1. Typed  BY DEF IInv
<1> USE <1>1 DEF storeVars, cacheVars, snapshot
<1>2. Typed'  BY Limits DEF Typed, TypeOK, WriteFile
<1>3. Phased'  BY DEF IInv, Phased, WriteFile, FilesOf, Render
<1>4. Dealt'  BY SameRendering DEF IInv, Dealt, Passed, WriteFile
<1>5. InHand'
  <2>1. PICK p \in writing :
           /\ NextFile(p) /\ expected' = expected \cup {p}
           /\ \/ writing' = writing \ {p} /\ pc' = pc
              \/ writing' = writing /\ pc' = "rename"
    BY DEF WriteFile
  <2>2. PICK c : c = Min(todo)  OBVIOUS
  <2>3. c \in Convs /\ writing \subseteq FilesOf(c) /\ FilesOf(c) \subseteq expected \cup writing
    <3>1. todo \subseteq Convs /\ todo # {}  BY DEF IInv, Phased, WriteFile
    <3>2. Min(todo) \in todo  BY <3>1, Limits, MinFacts
    <3> QED BY <2>2, <3>1, <3>2 DEF IInv, Phased, InHand, WriteFile
  <2>4. ASSUME NEW q \in writing, NextFile(q) PROVE q = p
    <3>1. /\ p = <<c, p[2]>> /\ q = <<c, q[2]>>
          /\ p[2] \in {"main", "archive"} /\ q[2] \in {"main", "archive"}
      BY <2>3, PathFacts DEF Suffixes
    <3>2. p[2] = q[2]  BY <2>1, <2>4, <3>1 DEF NextFile
    <3> QED BY <3>1, <3>2
  <2>5. FilesOf(Min(todo))' = FilesOf(c)  BY <2>2 DEF FilesOf, Render, WriteFile
  <2>6. FilesOf(c) \subseteq expected' \cup writing'  BY <2>1, <2>3
  <2>7. writing' = writing => \A q \in writing : NextFile(q)' => q \in expected'
    BY <2>1, <2>4 DEF NextFile
  <2>8. pc = "write"  BY DEF WriteFile
  <2> QED BY <2>1, <2>5, <2>6, <2>7, <2>8 DEF InHand
<1>6. Attached'  BY DEF IInv, Attached, WriteFile
<1> QED BY <1>2, <1>3, <1>4, <1>5, <1>6 DEF IInv

LEMMA RenameStep == ASSUME IInv, Rename PROVE IInv'
<1>1. Typed  BY DEF IInv
<1>2. PICK p \in writing :
         /\ NextFile(p) /\ files' = [files EXCEPT ![p] = Render(p[1])[p[2]]]
         /\ temps' = temps \ {p} /\ writing' = writing \ {p}
  BY DEF Rename
<1>3. PICK c : c = Min(todo)  OBVIOUS
<1>4. /\ pc = "rename" /\ pc' = "write"
      /\ UNCHANGED <<store, atts, changes, attFiles, rows, msgs, snapAtts, todo, expected,
                     expectedAtts, budget, failures, faults>>
  BY DEF Rename, storeVars, snapshot
<1>5. /\ todo \subseteq Convs /\ c \in todo /\ writing \subseteq FilesOf(c)
      /\ FilesOf(c) \subseteq expected \cup writing /\ p \in expected
  <2>1. todo \subseteq Convs /\ todo # {}  BY <1>4 DEF IInv, Phased
  <2>2. Min(todo) \in todo  BY <2>1, Limits, MinFacts
  <2> QED BY <1>2, <1>3, <1>4, <2>1, <2>2 DEF IInv, Phased, InHand
<1>6. p[1] = c /\ p \in Paths /\ c \in Convs  BY <1>2, <1>5, PathFacts
<1>7. FilesOf(Min(todo))' = FilesOf(c)  BY <1>3, <1>4 DEF FilesOf, Render
<1> USE <1>1 DEF storeVars, cacheVars, snapshot
<1>8. Typed'
  <2>1. rows[c] \in Counts /\ msgs[c] \in Counts  BY <1>6 DEF Typed, TypeOK
  <2>2. Render(c) = Rendered(rows[c], msgs[c]) /\ p[2] \in Suffixes
    BY <1>6, PathFacts DEF Render
  <2>3. Render(c)[p[2]] \in Contents
    BY <2>1, <2>2, RenderedFacts
  <2>4. /\ files' \in [Paths -> Contents]
        /\ \A q \in Paths : files'[q] = IF q = p THEN Render(c)[p[2]] ELSE files[q]
    BY <1>2, <1>6, <2>3 DEF Typed
  <2>5. \A q \in Paths :
          files'[q] = None \/ \E r, n \in Counts : files'[q] = Rendered(r, n)[q[2]]
    BY <2>1, <2>2, <2>4 DEF Typed
  <2>6. TypeOK'  BY <1>2, <1>4, <2>4 DEF Typed, TypeOK
  <2> QED BY <2>4, <2>5, <2>6 DEF Typed
<1>9. Phased'  BY <1>2, <1>4, <1>5, <1>7 DEF IInv, Phased
<1>10. Dealt'
  <2> SUFFICES ASSUME NEW d \in Convs, Passed(d)'
               PROVE  FilesOf(d)' \subseteq expected' \/ Pending(d)' # {}
    BY DEF Dealt
  <2>1. Passed(d) /\ d # c  BY <1>4, <1>5 DEF Passed
  <2>2. FilesOf(d)' = FilesOf(d) /\ Render(d)' = Render(d)  BY <1>4, SameRendering
  <2>3. \A q \in FilesOf(d) : files'[q] = files[q]
    <3>1. \A q \in FilesOf(d) : q \in Paths /\ q # p  BY <1>6, <2>1, PathFacts
    <3> QED BY <1>2, <3>1 DEF Typed
  <2>4. Pending(d)' = Pending(d)  BY <2>2, <2>3 DEF Pending
  <2> QED BY <1>4, <2>1, <2>2, <2>4 DEF IInv, Dealt
<1>11. InHand'  BY <1>2, <1>4, <1>5, <1>7 DEF InHand
<1>12. Attached'  BY DEF IInv, Attached, Rename
<1> QED BY <1>8, <1>9, <1>10, <1>11, <1>12 DEF IInv

LEMMA EndConversationStep == ASSUME IInv, EndConversation PROVE IInv'
<1>1. Typed  BY DEF IInv
<1> USE <1>1 DEF storeVars, cacheVars, snapshot
<1>2. Typed'  BY Limits DEF Typed, TypeOK, EndConversation
<1>3. Phased'  BY DEF IInv, Phased, EndConversation, FilesOf, Render
<1>4. Dealt'
  <2>1. FilesOf(Min(todo)) \subseteq expected  BY DEF IInv, InHand, EndConversation
  <2>2. PICK c : c = Min(todo)  OBVIOUS
  <2>3. \A d \in Convs : Passed(d)' => Passed(d) \/ d = c
    BY <2>2 DEF Passed, EndConversation
  <2> QED BY <2>1, <2>2, <2>3, SameRendering DEF IInv, Dealt, EndConversation, cacheVars
<1>5. InHand'  BY DEF IInv, InHand, EndConversation, NextFile, FilesOf, Render
<1>6. Attached'  BY DEF IInv, Attached, EndConversation
<1> QED BY <1>2, <1>3, <1>4, <1>5, <1>6 DEF IInv

LEMMA StartAttachmentsStep == ASSUME IInv, StartAttachments PROVE IInv'
<1>1. Typed  BY DEF IInv
<1> USE <1>1 DEF storeVars, cacheVars, snapshot
<1>2. Typed'  BY Limits DEF Typed, TypeOK, StartAttachments
<1>3. Phased'  BY DEF IInv, Phased, StartAttachments, FilesOf, Render
<1>4. Dealt'  BY SameRendering DEF IInv, Dealt, Passed, StartAttachments
<1>5. InHand'  BY DEF IInv, InHand, StartAttachments, NextFile, FilesOf, Render
<1>6. Attached'
  <2>1. attFiles \subseteq Atts  BY DEF Typed, TypeOK
  <2> QED BY <2>1 DEF Attached, StartAttachments
<1> QED BY <1>2, <1>3, <1>4, <1>5, <1>6 DEF IInv

LEMMA MaterializeStep == ASSUME IInv, Materialize PROVE IInv'
<1>1. Typed  BY DEF IInv
<1> USE <1>1 DEF storeVars, cacheVars, snapshot
<1>2. Typed'
  <2>1. todo \subseteq Atts /\ todo # {}  BY DEF IInv, Phased, Materialize
  <2>2. Min(todo) \in Atts  BY <2>1, Limits, MinFacts
  <2>3. failures' \in [Atts -> 0 .. MaxAttempts]
    BY <2>2, Limits DEF Materialize, Typed, TypeOK
  <2> QED BY <2>2, <2>3 DEF Typed, TypeOK, Materialize
<1>3. Phased'  BY DEF IInv, Phased, Materialize, FilesOf, Render
<1>4. Dealt'  BY SameRendering DEF IInv, Dealt, Passed, Materialize
<1>5. InHand'  BY DEF IInv, InHand, Materialize, NextFile, FilesOf, Render
<1>6. Attached'  BY DEF IInv, Attached, Materialize
<1> QED BY <1>2, <1>3, <1>4, <1>5, <1>6 DEF IInv

LEMMA DownloadFailsStep == ASSUME IInv, DownloadFails PROVE IInv'
<1>1. Typed  BY DEF IInv
<1> USE <1>1 DEF storeVars, cacheVars, snapshot
<1>2. Typed'
  <2>1. todo \subseteq Atts /\ todo # {}  BY DEF IInv, Phased, DownloadFails
  <2>2. Min(todo) \in Atts  BY <2>1, Limits, MinFacts
  <2>3. failures' \in [Atts -> 0 .. MaxAttempts]
    <3>1. PICK a : a = Min(todo)  OBVIOUS
    <3>2. failures \in [Atts -> 0 .. MaxAttempts] /\ failures[a] \in 0 .. MaxAttempts
      BY <2>2, <3>1 DEF Typed, TypeOK
    <3>3. \/ failures' = failures
          \/ failures[a] < MaxAttempts /\ failures' = [failures EXCEPT ![a] = failures[a] + 1]
      BY <3>1 DEF DownloadFails
    <3>4. failures[a] < MaxAttempts => failures[a] + 1 \in 0 .. MaxAttempts  BY <3>2, Limits
    <3> QED BY <3>2, <3>3, <3>4
  <2> QED BY <2>2, <2>3 DEF Typed, TypeOK, DownloadFails
<1>3. Phased'  BY DEF IInv, Phased, DownloadFails, FilesOf, Render
<1>4. Dealt'  BY SameRendering DEF IInv, Dealt, Passed, DownloadFails
<1>5. InHand'  BY DEF IInv, InHand, DownloadFails, NextFile, FilesOf, Render
<1>6. Attached'  BY DEF IInv, Attached, DownloadFails
<1> QED BY <1>2, <1>3, <1>4, <1>5, <1>6 DEF IInv

LEMMA StartPruneStep == ASSUME IInv, StartPrune PROVE IInv'
<1>1. Typed  BY DEF IInv
<1> USE <1>1 DEF storeVars, cacheVars, snapshot
<1>2. Typed'  BY Limits DEF Typed, TypeOK, StartPrune
<1>3. Phased'  BY DEF IInv, Phased, StartPrune, FilesOf, Render
<1>4. Dealt'  BY SameRendering DEF IInv, Dealt, Passed, StartPrune
<1>5. InHand'  BY DEF IInv, InHand, StartPrune, NextFile, FilesOf, Render
<1>6. Attached'  BY DEF IInv, Attached, StartPrune
<1> QED BY <1>2, <1>3, <1>4, <1>5, <1>6 DEF IInv

\* The end of a pass, whatever it ended in: nothing is left to do, and of the files
\* only removals have to be looked at.
LEMMA EndOfPass ==
    ASSUME IInv, NoPass, NEW removed,
           files' = [p \in Paths |-> IF p \in removed THEN None ELSE files[p]],
           attFiles' \subseteq Atts, temps' \subseteq Paths,
           UNCHANGED storeVars, faults' \in 0 .. MaxFaults,
           failures' \in [Atts -> 0 .. MaxAttempts]
    PROVE  IInv'
<1>1. Typed  BY DEF IInv
<1>2. /\ files' \in [Paths -> Contents]
      /\ \A p \in Paths : files'[p] = None \/ files'[p] = files[p]
  <2>1. \A p \in Paths : files[p] \in Contents /\ None \in Contents
    BY <1>1 DEF Typed, TypeOK, Contents
  <2> QED BY <2>1
<1>3. NoRows \in [Convs -> Counts] /\ NoAtts \in [Atts -> {"absent", "local", "remote"}]
  BY Limits DEF NoRows, NoAtts, Counts
<1>4. TypeOK'  BY <1>1, <1>2, <1>3, Limits DEF Typed, TypeOK, NoPass, storeVars
<1>5. Typed'  BY <1>1, <1>2, <1>4 DEF Typed
<1>6. Phased'  BY DEF Phased, NoPass
<1>7. Dealt'  BY DEF Dealt, Passed, NoPass
<1>8. InHand'  BY DEF InHand, NoPass
<1>9. Attached'  BY DEF Attached, NoPass
<1> QED BY <1>5, <1>6, <1>7, <1>8, <1>9 DEF IInv

LEMMA PruneStep == ASSUME IInv, Prune PROVE IInv'
<1>1. Typed  BY DEF IInv
<1>2. files' = [p \in Paths |-> IF p \in Unexpected THEN None ELSE files[p]]
  BY DEF Prune
<1>3. /\ NoPass /\ attFiles' \subseteq Atts /\ temps' \subseteq Paths /\ UNCHANGED storeVars
      /\ faults' \in 0 .. MaxFaults /\ failures' \in [Atts -> 0 .. MaxAttempts]
  BY <1>1 DEF Prune, Typed, TypeOK
<1> QED BY <1>2, <1>3, EndOfPass

LEMMA PassFailsStep == ASSUME IInv, PassFails PROVE IInv'
<1>1. Typed  BY DEF IInv
<1>2. PICK removed : files' = [p \in Paths |-> IF p \in removed THEN None ELSE files[p]]
  BY DEF PassFails
<1>3. /\ NoPass /\ attFiles' \subseteq Atts /\ temps' \subseteq Paths /\ UNCHANGED storeVars
  BY <1>1 DEF PassFails, Typed, TypeOK
<1>4. faults' \in 0 .. MaxFaults
  BY <1>1, Limits DEF PassFails, Typed, TypeOK
<1>5. failures' \in [Atts -> 0 .. MaxAttempts]
  BY <1>1, Limits DEF PassFails, Typed, TypeOK
<1> QED BY <1>2, <1>3, <1>4, <1>5, EndOfPass

LEMMA StoreChangesStep == ASSUME IInv, StoreChanges PROVE IInv'
<1>1. Typed  BY DEF IInv
<1>2. UNCHANGED <<cacheVars, passVars, failures, faults>> /\ changes' = changes + 1
  BY DEF StoreChanges
<1> USE <1>2 DEF cacheVars, passVars, snapshot
<1>3. store' \in [Convs -> Counts]
  <2>1. CASE store' = store  BY <1>1, <2>1 DEF Typed, TypeOK
  <2>2. CASE \E c \in Convs : store[c] < MaxMessages /\ store' = [store EXCEPT ![c] = store[c] + 1]
    <3>1. PICK c \in Convs : store[c] < MaxMessages /\ store' = [store EXCEPT ![c] = store[c] + 1]
      BY <2>2
    <3>2. store \in [Convs -> Counts] /\ store[c] + 1 \in Counts
      BY <1>1, <3>1, Limits DEF Typed, TypeOK, Counts
    <3> QED BY <3>1, <3>2
  <2>3. CASE \E c \in Convs : store' = [store EXCEPT ![c] = 0]
    <3>1. 0 \in Counts  BY Limits DEF Counts
    <3> QED BY <1>1, <2>3, <3>1 DEF Typed, TypeOK
  <2> QED BY <2>1, <2>2, <2>3 DEF StoreChanges
<1>4. atts' \in [Atts -> {"absent", "local", "remote"}]
  BY <1>1 DEF StoreChanges, Typed, TypeOK
<1>5. changes' \in 0 .. MaxChanges
  BY <1>1, Limits DEF StoreChanges, Typed, TypeOK
<1>6. Typed'  BY <1>1, <1>3, <1>4, <1>5 DEF Typed, TypeOK
<1>7. Phased'  BY DEF IInv, Phased, FilesOf, Render
<1>8. Dealt'  BY SameRendering DEF IInv, Dealt, Passed
<1>9. InHand'  BY DEF IInv, InHand, NextFile, FilesOf, Render
<1>10. Attached'  BY DEF IInv, Attached
<1> QED BY <1>6, <1>7, <1>8, <1>9, <1>10 DEF IInv

LEMMA StutterStep == ASSUME IInv, UNCHANGED vars PROVE IInv'
<1> USE DEF vars, storeVars, cacheVars, passVars, snapshot
<1>1. Typed'  BY DEF IInv, Typed, TypeOK
<1>2. Phased'  BY DEF IInv, Phased, FilesOf, Render
<1>3. Dealt'  BY SameRendering DEF IInv, Dealt, Passed
<1>4. InHand'  BY DEF IInv, InHand, NextFile, FilesOf, Render
<1>5. Attached'  BY DEF IInv, Attached
<1> QED BY <1>1, <1>2, <1>3, <1>4, <1>5 DEF IInv

-----------------------------------------------------------------------------
(* The theorems. *)

LEMMA InitIInv == ASSUME Init PROVE IInv
<1>1. 0 \in Counts /\ 1 \in Counts  BY Limits DEF Counts
<1>2. files \in [Paths -> Contents] /\ \A p \in Paths : files[p] = None
  BY DEF Init, Contents
<1>3. NoRows \in [Convs -> Counts] /\ NoAtts \in [Atts -> {"absent", "local", "remote"}]
  BY <1>1 DEF NoRows, NoAtts
<1>4. TypeOK  BY <1>1, <1>2, <1>3, Limits DEF Init, TypeOK
<1>5. Typed  BY <1>2, <1>4 DEF Typed
<1>6. Phased /\ InHand /\ Attached  BY DEF Init, Phased, InHand, Attached
<1>7. Dealt  BY DEF Init, Dealt, Passed
<1> QED BY <1>5, <1>6, <1>7 DEF IInv

LEMMA NextIInv == ASSUME IInv, [Next]_vars PROVE IInv'
<1>1. CASE ReadStore
  BY <1>1, ReadConversationsStep, ReadMessagesStep, ReadAttachmentsStep DEF ReadStore
<1>2. CASE WriteConversations
  BY <1>2, ConversationUnchangedStep, ConversationCappedStep, StartConversationStep,
     WriteFileStep, RenameStep, EndConversationStep DEF WriteConversations
<1>3. CASE SyncAttachments
  BY <1>3, StartAttachmentsStep, MaterializeStep, DownloadFailsStep, StartPruneStep
     DEF SyncAttachments
<1>4. CASE Prune  BY <1>4, PruneStep
<1>5. CASE StoreChanges  BY <1>5, StoreChangesStep
<1>6. CASE PassFails  BY <1>6, PassFailsStep
<1>7. CASE UNCHANGED vars  BY <1>7, StutterStep
<1> QED BY <1>1, <1>2, <1>3, <1>4, <1>5, <1>6, <1>7 DEF Next, SyncStep

\* The inductive invariant holds in every state (poll_loop, sync_once).
THEOREM Invariance == Spec => []IInv
<1>1. Init => IInv  BY InitIInv
<1>2. IInv /\ [Next]_vars => IInv'  BY NextIInv
<1> QED BY <1>1, <1>2, PTL DEF Spec

\* Two files of one rendering split its newest messages between them.
LEMMA Split == ASSUME Typed PROVE SplitWhole
<1> SUFFICES ASSUME NEW c \in Convs, files[<<c, "main">>] # None, files[<<c, "archive">>] # None,
                    files[<<c, "archive">>].total = files[<<c, "main">>].total
             PROVE  /\ files[<<c, "main">>].msgs \cap files[<<c, "archive">>].msgs = {}
                    /\ files[<<c, "main">>].msgs # {}
                    /\ files[<<c, "main">>].msgs \cup files[<<c, "archive">>].msgs =
                          (files[<<c, "archive">>].omitted + 1) .. files[<<c, "main">>].total
  BY DEF Typed, SplitWhole
<1>1. <<c, "main">> \in Paths /\ <<c, "archive">> \in Paths  BY PathFacts DEF Suffixes
<1>2. PICK r1, n1 \in Counts : files[<<c, "main">>] = Rendered(r1, n1)["main"]
  BY <1>1 DEF Typed
<1>3. PICK r2, n2 \in Counts : files[<<c, "archive">>] = Rendered(r2, n2)["archive"]
  BY <1>1 DEF Typed
<1>4. n1 # 0 /\ n2 # 0  BY <1>2, <1>3, RenderedFacts DEF Suffixes
<1>5. PICK t1 \in 1 .. n1 :
        /\ t1 = Fitting(n1, TailBudget)
        /\ Rendered(r1, n1)["main"] = File(r1, n1, n1 - t1 + 1, n1, 0)
  BY <1>4, RenderedFacts
<1>6. PICK t2 \in 1 .. n2, o2 \in 0 .. n2 :
        /\ t2 = Fitting(n2, TailBudget) /\ o2 <= n2 - t2
        /\ Rendered(r2, n2)["archive"] =
              IF t2 = n2 THEN None ELSE File(r2, n2, o2 + 1, n2 - t2, o2)
  BY <1>4, RenderedFacts
<1>7. /\ files[<<c, "main">>].total = n1 /\ files[<<c, "main">>].msgs = (n1 - t1 + 1) .. n1
      /\ files[<<c, "archive">>].total = n2 /\ files[<<c, "archive">>].omitted = o2
      /\ files[<<c, "archive">>].msgs = (o2 + 1) .. (n2 - t2)
  BY <1>2, <1>3, <1>5, <1>6 DEF File
<1>8. n1 = n2 /\ t1 = t2  BY <1>5, <1>6, <1>7
<1>9. n1 \in Nat /\ t1 \in Nat /\ o2 \in Nat /\ t1 >= 1 /\ t1 <= n1 /\ o2 <= n1 - t1
  BY <1>5, <1>6, <1>8, Limits DEF Counts
<1>10. /\ ((n1 - t1 + 1) .. n1) \cap ((o2 + 1) .. (n1 - t1)) = {}
       /\ n1 \in (n1 - t1 + 1) .. n1
       /\ ((n1 - t1 + 1) .. n1) \cup ((o2 + 1) .. (n1 - t1)) = (o2 + 1) .. n1
  BY <1>9
<1> QED BY <1>7, <1>8, <1>10

\* In every state two cached files of one rendering split its newest messages, and the
\* archive's header counts the others (render_conversation_files, write_if_changed).
THEOREM SplitWholeHolds == Spec => []SplitWhole
<1>1. IInv => SplitWhole  BY Split DEF IInv
<1> QED BY <1>1, Invariance, PTL

\* Before a removal every file of a store that did not change is expected.
LEMMA NothingUnexpected ==
    ASSUME IInv, Synced, QuietPoll, pc = "prune"
    PROVE  Unexpected = {} /\ attFiles \subseteq expectedAtts
<1>1. rows = store /\ msgs = store /\ snapAtts = atts  BY DEF QuietPoll
<1>2. \A p \in Paths : files[p] = Render(p[1])[p[2]]
  BY <1>1, PathFacts DEF Synced, Render
<1>3. ASSUME NEW p \in Paths, files[p] # None PROVE p \in expected
  <2>1. PICK c \in Convs : c = p[1]  BY PathFacts
  <2>2. p \in FilesOf(c)  BY <1>2, <1>3, <2>1, PathFacts DEF FilesOf
  <2>3. rows[c] > 0
    <3>1. rows[c] \in Counts /\ msgs[c] \in Counts /\ rows[c] = msgs[c]
      BY <1>1 DEF IInv, Typed, TypeOK
    <3>2. rows[c] # 0
      BY <1>2, <1>3, <2>1, <3>1, RenderedFacts, PathFacts DEF Render
    <3> QED BY <3>1, <3>2, Limits DEF Counts
  <2>4. Passed(c)  BY <2>3 DEF Passed
  <2>5. Pending(c) = {}
    BY <1>2, <2>1, PathFacts DEF Pending
  <2> QED BY <2>2, <2>4, <2>5 DEF IInv, Dealt
<1>4. Unexpected = {}  BY <1>3 DEF Unexpected
<1>5. attFiles \subseteq expectedAtts
  BY <1>1 DEF Synced, IInv, Attached
<1> QED BY <1>4, <1>5

\* A step of such a pass changes no file.
LEMMA Quiet ==
    ASSUME IInv, [Next]_vars, Synced, QuietPoll
    PROVE  files' = files /\ attFiles \subseteq attFiles'
<1> USE DEF storeVars, cacheVars, passVars, snapshot
<1>1. files = [p \in Paths |-> files[p]]  BY DEF IInv, Typed
<1>2. CASE ReadStore
  BY <1>2 DEF ReadStore, ReadConversations, ReadMessages, ReadAttachments
<1>3. CASE Rename
  <2>1. PICK p \in writing : files' = [files EXCEPT ![p] = Render(p[1])[p[2]]]
    BY <1>3 DEF Rename
  <2>2. p \in Paths  BY <1>3, <2>1 DEF IInv, Typed, TypeOK
  <2>3. rows = store /\ msgs = store  BY <1>3 DEF QuietPoll, Rename
  <2>4. files[p] = Render(p[1])[p[2]]
    BY <2>2, <2>3, PathFacts DEF Synced, Render
  <2>5. files' = files  BY <1>1, <2>1, <2>2, <2>4
  <2> QED BY <1>3, <2>5 DEF Rename
<1>4. CASE ConversationUnchanged \/ ConversationCapped \/ StartConversation \/ WriteFile
              \/ EndConversation
  BY <1>4 DEF ConversationUnchanged, ConversationCapped, StartConversation, WriteFile,
              EndConversation
<1>5. CASE SyncAttachments
  BY <1>5 DEF SyncAttachments, StartAttachments, Materialize, DownloadFails, StartPrune
<1>6. CASE Prune
  <2>1. Unexpected = {} /\ attFiles \subseteq expectedAtts
    BY <1>6, NothingUnexpected DEF Prune
  <2>2. files' = [p \in Paths |-> IF p \in Unexpected THEN None ELSE files[p]]
        /\ attFiles' = attFiles \cap expectedAtts
    BY <1>6 DEF Prune
  <2> QED BY <1>1, <2>1, <2>2
<1>7. CASE PassFails
  <2>1. PICK removed \in SUBSET (IF pc = "prune" THEN Unexpected ELSE {}) :
           files' = [p \in Paths |-> IF p \in removed THEN None ELSE files[p]]
    BY <1>7 DEF PassFails
  <2>2. removed = {}  BY <2>1, NothingUnexpected
  <2>3. files' = files  BY <1>1, <2>1, <2>2
  <2> QED BY <1>7, <2>3 DEF PassFails
<1>8. CASE StoreChanges \/ UNCHANGED vars  BY <1>8 DEF StoreChanges, vars
<1> QED BY <1>2, <1>3, <1>4, <1>5, <1>6, <1>7, <1>8 DEF Next, SyncStep, WriteConversations

\* A pass over a store that the cache already matches, whatever it ends in, rewrites
\* and removes no file, so that it does not stir the watcher (write_if_changed,
\* prune_except).
THEOREM QuietPollWritesNothingHolds == Spec => QuietPollWritesNothing
<1>1. IInv /\ [Next]_vars => [Synced /\ QuietPoll => files' = files /\ attFiles \subseteq attFiles']_vars
  BY Quiet
<1> QED BY <1>1, Invariance, PTL DEF Spec, QuietPollWritesNothing
=============================================================================
