------------------------- MODULE RemoteIndexProofs -------------------------
(***************************************************************************)
(* Proofs about replication to an index host, for any documents, paths,   *)
(* faults and stores: types, the ledger, and the refinement of Mirror.    *)
(***************************************************************************)
EXTENDS RemoteIndex, TLAPS

\* Every step of the source and of the host.
LEMMA Steps ==
    ASSUME Next
    PROVE  \/ \E p \in Paths :
                \/ IndexDocument(p) \/ ChangeAccess(p)
                \/ ScanDenied(p) \/ ScanOversized(p) \/ ScanUnchanged(p) \/ ScanChanged(p)
                \/ PruneMissing(p) \/ AbortOnAccess(p)
           \/ MigrateStore \/ LoseStore \/ HandleCall \/ HandleLate \/ DropLate
           \/ ReadStatus \/ SameEpoch \/ ClearLedger \/ AdoptEpoch
           \/ StartPrune \/ RecordAnswer \/ FinishPass \/ CallFails \/ PassInterrupted
    BY DEF Next, Pass

-----------------------------------------------------------------------------
(* Types. *)

LEMMA InitTyped == ASSUME Init PROVE TypeOK
    <1>1. None \in Content
        BY DEF Content
    <1>2. Nothing \in [Paths -> Content] /\ rows \in [Paths -> Content]
          /\ ledger \in [Paths -> Content] /\ snap \in [Paths -> Content]
        BY <1>1 DEF Init, Nothing
    <1>3. held \in [Paths -> SUBSET Docs]
        BY DEF Init, Content
    <1>4. access \in [Paths -> {"yes", "no", "error"}] /\ call \in Call
        BY DEF Init, Call
    <1> QED
        BY <1>2, <1>3, <1>4, BoundsAssumption DEF Init, TypeOK

\* A call is empty, or one of a path with a document or a deletion.
LEMMA CallTyped ==
    ASSUME TypeOK, call # NoCall
    PROVE  call \in [path : Paths, doc : Content, applied : BOOLEAN]
           /\ [path |-> call.path, doc |-> call.doc] \in Request
    BY DEF TypeOK, Call, Request

LEMMA SentTyped ==
    ASSUME NEW p \in Paths, NEW d \in Content, Send(p, d)
    PROVE  call' \in Call
    BY DEF Send, Call

LEMMA StepTyped == ASSUME TypeOK, [Next]_vars PROVE TypeOK'
    <1> USE DEF TypeOK
    <1>0. None \in Content /\ Nothing \in [Paths -> Content] /\ NoCall \in Call
        BY DEF Content, Nothing, Call
    <1>1. ASSUME NEW p \in Paths, IndexDocument(p) PROVE TypeOK'
        <2>1. changes' \in 0 .. MaxChanges
            BY <1>1, BoundsAssumption DEF IndexDocument
        <2>2. PICK d \in Content : doc' = [doc EXCEPT ![p] = d]
                                   /\ held' = [held EXCEPT ![p] = @ \cup ({d} \ {None})]
            BY <1>1 DEF IndexDocument
        <2>3. held[p] \cup ({d} \ {None}) \in SUBSET Docs
            BY DEF Content
        <2>4. doc' \in [Paths -> Content] /\ held' \in [Paths -> SUBSET Docs]
            BY <2>2, <2>3
        <2> QED
            BY <1>1, <2>1, <2>4 DEF IndexDocument, hostVars, ledgerVars, passVars
    <1>2. ASSUME NEW p \in Paths, ChangeAccess(p) PROVE TypeOK'
        <2>1. changes' \in 0 .. MaxChanges
            BY <1>2, BoundsAssumption DEF ChangeAccess
        <2>2. access' \in [Paths -> {"yes", "no", "error"}]
            BY <1>2 DEF ChangeAccess
        <2> QED
            BY <1>2, <2>1, <2>2 DEF ChangeAccess, hostVars, ledgerVars, passVars
    <1>3. ASSUME MigrateStore \/ LoseStore PROVE TypeOK'
        <2>1. epoch' \in 1 .. MaxEpoch
            BY <1>3, BoundsAssumption DEF MigrateStore, LoseStore
        <2> QED
            BY <1>0, <1>3, <2>1 DEF MigrateStore, LoseStore, sourceVars, ledgerVars, passVars
    <1>4. ASSUME HandleCall PROVE TypeOK'
        <2>1. rows' \in [Paths -> Content]
            BY <1>4, CallTyped DEF HandleCall, Store
        <2>2. call' \in Call
            BY <1>4, CallTyped DEF HandleCall, Call
        <2>3. doubt' \in SUBSET Paths
            BY <1>4 DEF HandleCall
        <2> QED
            BY <1>4, <2>1, <2>2, <2>3 DEF HandleCall, sourceVars, ledgerVars
    <1>5. ASSUME HandleLate PROVE TypeOK'
        <2>1. PICK r \in late : Store(r) /\ late' = late \ {r} /\ doubt' = doubt \cup {r.path}
            BY <1>5 DEF HandleLate
        <2>2. r.path \in Paths /\ r.doc \in Content
            BY DEF Request
        <2>3. rows' \in [Paths -> Content]
            BY <2>1, <2>2 DEF Store
        <2> QED
            BY <1>5, <2>1, <2>2, <2>3 DEF HandleLate, sourceVars, ledgerVars, passVars
    <1>6. ASSUME DropLate PROVE TypeOK'
        BY <1>6 DEF DropLate, sourceVars, hostVars, ledgerVars, passVars
    <1>7. ASSUME ReadStatus PROVE TypeOK'
        BY <1>7, BoundsAssumption DEF ReadStatus, sourceVars, hostVars, ledgerVars
    <1>8. ASSUME SameEpoch PROVE TypeOK'
        BY <1>8 DEF SameEpoch, StartScan, sourceVars, hostVars, ledgerVars
    <1>9. ASSUME ClearLedger PROVE TypeOK'
        BY <1>0, <1>9 DEF ClearLedger, sourceVars, hostVars
    <1>10. ASSUME AdoptEpoch PROVE TypeOK'
        BY <1>10 DEF AdoptEpoch, StartScan, sourceVars, hostVars
    <1>11. ASSUME NEW p \in Paths, ScanDenied(p) PROVE TypeOK'
        BY <1>0, <1>11, SentTyped DEF ScanDenied, sourceVars, hostVars, ledgerVars
    <1>12. ASSUME NEW p \in Paths, ScanOversized(p) PROVE TypeOK'
        BY <1>12 DEF ScanOversized, sourceVars, hostVars, ledgerVars
    <1>13. ASSUME NEW p \in Paths, ScanUnchanged(p) PROVE TypeOK'
        BY <1>13 DEF ScanUnchanged, sourceVars, hostVars, ledgerVars
    <1>14. ASSUME NEW p \in Paths, ScanChanged(p) PROVE TypeOK'
        <2>1. call' \in Call
            BY <1>14, SentTyped DEF ScanChanged
        <2> QED
            BY <1>14, <2>1 DEF ScanChanged, sourceVars, hostVars, ledgerVars
    <1>15. ASSUME StartPrune PROVE TypeOK'
        BY <1>0, <1>15 DEF StartPrune, sourceVars, hostVars, ledgerVars
    <1>16. ASSUME NEW p \in Paths, PruneMissing(p) PROVE TypeOK'
        BY <1>0, <1>16, SentTyped DEF PruneMissing, sourceVars, hostVars, ledgerVars
    <1>17. ASSUME RecordAnswer PROVE TypeOK'
        <2>1. ledger' \in [Paths -> Content]
            BY <1>17, CallTyped DEF RecordAnswer
        <2> QED
            BY <1>0, <1>17, <2>1 DEF RecordAnswer, sourceVars, hostVars
    <1>18. ASSUME FinishPass \/ (\E p \in Paths : AbortOnAccess(p)) PROVE TypeOK'
        BY <1>0, <1>18, BoundsAssumption
        DEF FinishPass, AbortOnAccess, EndOfPass, sourceVars, hostVars, ledgerVars
    <1>19. ASSUME CallFails PROVE TypeOK'
        <2>1. late' \in SUBSET Request /\ doubt' \in SUBSET Paths
            BY <1>19, CallTyped DEF CallFails
        <2>2. faults' \in 0 .. MaxFaults
            BY <1>19, BoundsAssumption DEF CallFails
        <2>3. pc' = "idle" /\ seenEpoch' \in 0 .. MaxEpoch /\ snap' = Nothing /\ todo' = {}
              /\ seen' = {} /\ call' = NoCall
            BY <1>19, BoundsAssumption DEF CallFails, EndOfPass
        <2> QED
            BY <1>0, <1>19, <2>1, <2>2, <2>3 DEF CallFails, sourceVars, hostVars, ledgerVars
    <1>20. ASSUME PassInterrupted PROVE TypeOK'
        <2>1. faults' \in 0 .. MaxFaults /\ seenEpoch' \in 0 .. MaxEpoch
            BY <1>20, BoundsAssumption DEF PassInterrupted, EndOfPass
        <2> QED
            BY <1>0, <1>20, <2>1 DEF PassInterrupted, EndOfPass, sourceVars, hostVars, ledgerVars
    <1>21. ASSUME UNCHANGED vars PROVE TypeOK'
        BY <1>21 DEF vars, sourceVars, hostVars, ledgerVars, passVars
    <1> QED
        BY <1>1, <1>2, <1>3, <1>4, <1>5, <1>6, <1>7, <1>8, <1>9, <1>10, <1>11, <1>12, <1>13,
           <1>14, <1>15, <1>16, <1>17, <1>18, <1>19, <1>20, <1>21, Steps

\* The source's pass, its ledger, the host and the requests between them are well
\* typed in every reachable state.
THEOREM RemoteTypeCorrect == Spec => []TypeOK
    <1>1. Init => TypeOK
        BY InitTyped
    <1>2. TypeOK /\ [Next]_vars => TypeOK'
        BY StepTyped
    <1> QED
        BY <1>1, <1>2, PTL DEF Spec
-----------------------------------------------------------------------------
(* The ledger. *)

Agrees(p) == p \in doubt \/ rows[p] = ledger[p]

\* What the host has of the path of the call under way: what the ledger says, until
\* it handles the call, and then what the call carries.
CallAgrees ==
    call # NoCall =>
        IF call.applied THEN call.path \in doubt \/ rows[call.path] = call.doc
        ELSE Agrees(call.path)

\* No epoch is known before the host has it, the ledger's never after the pass has
\* read the host's; no call is under way before the scan, and the ledger is empty
\* when it adopts an epoch.
PassOrder ==
    /\ ledgerEpoch <= epoch /\ seenEpoch <= epoch
    /\ pc \in {"idle", "epoch", "clear"} => call = NoCall
    /\ pc = "clear" => ledger = Nothing
    /\ pc = "epoch" => ledgerEpoch <= seenEpoch

LedgerInv == PassOrder /\ LedgerExact /\ (ledgerEpoch = epoch => CallAgrees)

LEMMA NoCallPath == ASSUME NEW p \in Paths PROVE NoCall.path # p
    BY PathsAssumption DEF NoCall

LEMMA PassOrderStep ==
    ASSUME TypeOK, PassOrder, [Next]_vars
    PROVE  PassOrder'
    <1> USE DEF PassOrder
    <1>1. ASSUME MigrateStore \/ LoseStore PROVE PassOrder'
        BY <1>1 DEF TypeOK, MigrateStore, LoseStore, ledgerVars, passVars
    <1>2. ASSUME NEW p \in Paths,
                 \/ ScanDenied(p) \/ ScanOversized(p) \/ ScanUnchanged(p) \/ ScanChanged(p)
                 \/ PruneMissing(p)
          PROVE  PassOrder'
        BY <1>2 DEF ScanDenied, ScanOversized, ScanUnchanged, ScanChanged, PruneMissing,
                    hostVars, ledgerVars
    <1>3. ASSUME HandleCall PROVE PassOrder'
        BY <1>3 DEF HandleCall, ledgerVars
    <1>4. ASSUME ReadStatus \/ SameEpoch \/ ClearLedger \/ AdoptEpoch PROVE PassOrder'
        BY <1>4 DEF TypeOK, ReadStatus, SameEpoch, ClearLedger, AdoptEpoch, StartScan, hostVars,
                    ledgerVars
    <1>5. ASSUME StartPrune PROVE PassOrder'
        BY <1>5 DEF StartPrune, hostVars, ledgerVars
    <1>6. ASSUME RecordAnswer PROVE PassOrder'
        BY <1>6 DEF RecordAnswer, hostVars
    <1>7. ASSUME EndOfPass, UNCHANGED hostVars, UNCHANGED ledgerVars PROVE PassOrder'
        BY <1>7 DEF TypeOK, EndOfPass, hostVars, ledgerVars
    <1>8. ASSUME FinishPass \/ CallFails \/ PassInterrupted \/ \E p \in Paths : AbortOnAccess(p)
          PROVE  PassOrder'
        BY <1>7, <1>8 DEF FinishPass, CallFails, PassInterrupted, AbortOnAccess
    <1>9. ASSUME epoch' = epoch, UNCHANGED ledgerVars, UNCHANGED passVars PROVE PassOrder'
        BY <1>9 DEF ledgerVars, passVars
    <1>10. ASSUME \/ \E p \in Paths : IndexDocument(p) \/ ChangeAccess(p)
                  \/ HandleLate \/ DropLate \/ UNCHANGED vars
           PROVE  PassOrder'
        BY <1>9, <1>10 DEF IndexDocument, ChangeAccess, HandleLate, DropLate, vars, hostVars
    <1> QED
        BY <1>1, <1>2, <1>3, <1>4, <1>5, <1>6, <1>8, <1>10, Steps

\* With another epoch than the host's, the ledger promises nothing.
LEMMA LedgerStep ==
    ASSUME TypeOK, LedgerInv, [Next]_vars
    PROVE  LedgerExact' /\ (ledgerEpoch' = epoch' => CallAgrees')
    <1> USE DEF LedgerInv, LedgerExact, CallAgrees, Agrees
    <1> DEFINE Goal == LedgerExact' /\ (ledgerEpoch' = epoch' => CallAgrees')
    <1>1. ASSUME MigrateStore \/ LoseStore PROVE Goal
        BY <1>1 DEF TypeOK, PassOrder, MigrateStore, LoseStore, ledgerVars
    <1>2. ASSUME NEW p \in Paths, NEW d, Send(p, d), call = NoCall, UNCHANGED hostVars,
                 UNCHANGED ledgerVars, doubt' = doubt
          PROVE  Goal
        <2>1. call'.path = p /\ ~call'.applied
            BY <1>2 DEF Send
        <2>2. \A q \in Paths : NoCall.path # q
            BY NoCallPath
        <2>3. ledgerEpoch = epoch => \A q \in Paths : Agrees(q)
            BY <1>2, <2>2
        <2> QED
            BY <1>2, <2>1, <2>3 DEF hostVars, ledgerVars
    <1>3. ASSUME NEW p \in Paths, ScanDenied(p) \/ ScanChanged(p) \/ PruneMissing(p) PROVE Goal
        BY <1>2, <1>3 DEF ScanDenied, ScanChanged, PruneMissing
    <1>4. ASSUME UNCHANGED hostVars, UNCHANGED ledgerVars, doubt \subseteq doubt', call' = call
          PROVE  Goal
        BY <1>4 DEF hostVars, ledgerVars
    <1>5. ASSUME NEW p \in Paths,
                 IndexDocument(p) \/ ChangeAccess(p) \/ ScanOversized(p) \/ ScanUnchanged(p)
          PROVE  Goal
        BY <1>4, <1>5 DEF IndexDocument, ChangeAccess, ScanOversized, ScanUnchanged, passVars
    <1>6. ASSUME DropLate \/ ReadStatus \/ SameEpoch \/ StartPrune \/ UNCHANGED vars PROVE Goal
        BY <1>4, <1>6 DEF DropLate, ReadStatus, SameEpoch, StartPrune, vars, passVars
    <1>7. ASSUME HandleCall PROVE Goal
        <2>1. PICK p \in Paths : p = call.path
            BY <1>7, CallTyped DEF HandleCall
        <2>2. /\ rows' = [rows EXCEPT ![p] = call.doc]
              /\ call'.path = p /\ call'.doc = call.doc /\ call'.applied
            BY <1>7, <2>1, CallTyped DEF HandleCall, Store
        <2>3. rows'[p] = call'.doc /\ \A q \in Paths \ {p} : rows'[q] = rows[q]
            BY <2>2 DEF TypeOK
        <2>4. \A q \in Paths \ {p} : q \in doubt => q \in doubt'
            BY <1>7, <2>1 DEF HandleCall
        <2> QED
            BY <1>7, <2>1, <2>2, <2>3, <2>4 DEF HandleCall, ledgerVars
    <1>8. ASSUME HandleLate PROVE Goal
        <2>1. PICK r \in late : rows' = [rows EXCEPT ![r.path] = r.doc]
                                /\ doubt' = doubt \cup {r.path}
            BY <1>8 DEF HandleLate, Store
        <2>2. \A q : q # r.path /\ q \in Paths => rows'[q] = rows[q]
            BY <2>1 DEF TypeOK
        <2>3. call # NoCall => call.path \in Paths
            BY CallTyped
        <2> QED
            BY <1>8, <2>1, <2>2, <2>3 DEF HandleLate, ledgerVars, passVars
    <1>9. ASSUME ClearLedger PROVE Goal
        <2>1. ledgerEpoch' # epoch'
            BY <1>9 DEF TypeOK, PassOrder, ClearLedger, hostVars
        <2> QED
            BY <2>1
    <1>10. ASSUME AdoptEpoch PROVE Goal
        <2>1. call = NoCall /\ call' = NoCall /\ rows' = rows /\ ledger' = Nothing
            BY <1>10 DEF PassOrder, AdoptEpoch, hostVars
        <2>2. \A p \in Paths : rows[p] = None \/ p \in doubt'
            BY <1>10 DEF AdoptEpoch
        <2> QED
            BY <2>1, <2>2 DEF Nothing
    <1>11. ASSUME RecordAnswer PROVE Goal
        <2>1. PICK p \in Paths : p = call.path
            BY <1>11, CallTyped DEF RecordAnswer
        <2>2. /\ ledger' = [ledger EXCEPT ![p] = call.doc]
              /\ call' = NoCall /\ call # NoCall /\ call.applied
            BY <1>11, <2>1 DEF RecordAnswer
        <2>3. ledger'[p] = call.doc /\ \A q \in Paths \ {p} : ledger'[q] = ledger[q]
            BY <2>2 DEF TypeOK
        <2> QED
            BY <1>11, <2>1, <2>2, <2>3 DEF RecordAnswer, hostVars
    <1>12. ASSUME EndOfPass, call = NoCall, UNCHANGED hostVars, UNCHANGED ledgerVars, doubt' = doubt
           PROVE  Goal
        BY <1>4, <1>12 DEF EndOfPass
    <1>13. ASSUME FinishPass \/ PassInterrupted \/ \E p \in Paths : AbortOnAccess(p) PROVE Goal
        BY <1>12, <1>13 DEF FinishPass, PassInterrupted, AbortOnAccess
    <1>14. ASSUME CallFails PROVE Goal
        <2>1. /\ call # NoCall /\ call' = NoCall /\ doubt \subseteq doubt'
              /\ call.applied => call.path \in doubt'
            BY <1>14 DEF CallFails, EndOfPass
        <2>2. \A q \in Paths : NoCall.path # q
            BY NoCallPath
        <2> QED
            BY <1>14, <2>1, <2>2 DEF CallFails, hostVars, ledgerVars
    <1> QED
        BY <1>1, <1>3, <1>5, <1>6, <1>7, <1>8, <1>9, <1>10, <1>11, <1>13, <1>14, Steps

\* The ledger describes the host's rows exactly, outside the path of the call under
\* way and the paths in doubt, in every reachable state: through lost and late
\* calls, process ends, migrations and new stores.
THEOREM LedgerExactHolds == Spec => []LedgerExact
    <1>1. Init => LedgerInv
        BY BoundsAssumption
        DEF Init, LedgerInv, PassOrder, LedgerExact, CallAgrees
    <1>2. TypeOK /\ LedgerInv /\ [Next]_vars => LedgerInv'
        BY PassOrderStep, LedgerStep DEF LedgerInv
    <1>3. LedgerInv => LedgerExact
        BY DEF LedgerInv
    <1> QED
        BY <1>1, <1>2, <1>3, RemoteTypeCorrect, PTL DEF Spec
-----------------------------------------------------------------------------
(* The refinement. *)

\* Whatever is on its way to the host, the source has held it.
Genuine(p, d) == d \in held[p] \cup {None}
SourceInv ==
    /\ \A p \in Paths : Genuine(p, doc[p]) /\ Genuine(p, snap[p])
    /\ call # NoCall => Genuine(call.path, call.doc)
    /\ \A r \in late : Genuine(r.path, r.doc)

LEMMA SourceInit == ASSUME Init PROVE SourceInv
    BY DEF Init, SourceInv, Genuine, Nothing

LEMMA SourceStep ==
    ASSUME TypeOK, SourceInv, [Next]_vars
    PROVE  SourceInv'
    <1> USE DEF SourceInv, Genuine
    <1>1. ASSUME NEW p \in Paths, IndexDocument(p) PROVE SourceInv'
        <2>1. PICK d \in Content : doc' = [doc EXCEPT ![p] = d]
                                   /\ held' = [held EXCEPT ![p] = @ \cup ({d} \ {None})]
            BY <1>1 DEF IndexDocument
        <2>2. \A q \in Paths : held[q] \subseteq held'[q]
            BY <2>1 DEF TypeOK
        <2>3. \A q \in Paths : doc'[q] \in held'[q] \cup {None}
            BY <2>1, <2>2 DEF TypeOK
        <2>4. call # NoCall => call.path \in Paths
            BY CallTyped
        <2>5. \A r \in late : r.path \in Paths
            BY DEF TypeOK, Request
        <2> QED
            BY <1>1, <2>2, <2>3, <2>4, <2>5 DEF IndexDocument, passVars
    <1>2. ASSUME UNCHANGED <<doc, held>>, snap' \in {snap, doc, Nothing}, late' \subseteq late,
                 call' \in {call, NoCall}
          PROVE  SourceInv'
        BY <1>2 DEF Nothing
    <1>3. ASSUME NEW p \in Paths,
                 ChangeAccess(p) \/ ScanOversized(p) \/ ScanUnchanged(p) \/ AbortOnAccess(p)
          PROVE  SourceInv'
        BY <1>2, <1>3 DEF ChangeAccess, ScanOversized, ScanUnchanged, AbortOnAccess, EndOfPass,
                         sourceVars, passVars
    <1>4. ASSUME \/ MigrateStore \/ LoseStore \/ HandleLate \/ DropLate
                 \/ ReadStatus \/ SameEpoch \/ ClearLedger \/ AdoptEpoch
          PROVE  SourceInv'
        BY <1>2, <1>4 DEF MigrateStore, LoseStore, HandleLate, DropLate, ReadStatus, SameEpoch,
                         ClearLedger, AdoptEpoch, StartScan, sourceVars, passVars
    <1>5. ASSUME StartPrune \/ RecordAnswer \/ FinishPass \/ PassInterrupted \/ UNCHANGED vars
          PROVE  SourceInv'
        BY <1>2, <1>5 DEF StartPrune, RecordAnswer, FinishPass, PassInterrupted, EndOfPass, vars,
                         sourceVars, passVars
    <1>6. ASSUME HandleCall PROVE SourceInv'
        <2>1. call'.path = call.path /\ call'.doc = call.doc
            BY <1>6, CallTyped DEF HandleCall
        <2> QED
            BY <1>6, <2>1 DEF HandleCall, sourceVars
    <1>7. ASSUME NEW p \in Paths, NEW d, Send(p, d), Genuine(p, d), UNCHANGED <<doc, held, snap, late>>
          PROVE  SourceInv'
        <2>1. call'.path = p /\ call'.doc = d
            BY <1>7 DEF Send
        <2> QED
            BY <1>7, <2>1
    <1>8. ASSUME NEW p \in Paths, ScanDenied(p) \/ ScanChanged(p) \/ PruneMissing(p) PROVE SourceInv'
        BY <1>7, <1>8 DEF ScanDenied, ScanChanged, PruneMissing, sourceVars
    <1>9. ASSUME CallFails PROVE SourceInv'
        <2>1. late' \subseteq late \cup {[path |-> call.path, doc |-> call.doc]} /\ call # NoCall
            BY <1>9 DEF CallFails
        <2>2. snap' = Nothing /\ call' = NoCall
            BY <1>9 DEF CallFails, EndOfPass
        <2>3. UNCHANGED <<doc, held>>
            BY <1>9 DEF CallFails, sourceVars
        <2>4. \A r \in late' : Genuine(r.path, r.doc)
            BY <2>1
        <2> QED
            BY <2>2, <2>3, <2>4 DEF Nothing
    <1> QED
        BY <1>1, <1>3, <1>4, <1>5, <1>6, <1>8, <1>9, Steps

LEMMA MirrorStep ==
    ASSUME TypeOK, SourceInv, [Next]_vars
    PROVE  [M!MirrorNext]_(M!mirrorVars)
    <1> USE DEF M!MirrorNext, M!mirrorVars
    <1>1. ASSUME NEW p \in Paths, IndexDocument(p) PROVE M!Index(p)
        BY <1>1 DEF IndexDocument, M!Index, Content, hostVars
    <1>2. ASSUME MigrateStore \/ LoseStore PROVE M!Renew
        BY <1>2 DEF MigrateStore, LoseStore, M!Renew, Nothing, sourceVars
    <1>3. ASSUME NEW p \in Paths, NEW d, Genuine(p, d), rows' = [rows EXCEPT ![p] = d],
                 UNCHANGED <<doc, held, epoch>>
          PROVE  M!Copy(p)
        BY <1>3 DEF Genuine, M!Copy
    <1>4. ASSUME HandleCall PROVE \E p \in Paths : M!Copy(p)
        <2>1. call.path \in Paths /\ Genuine(call.path, call.doc)
            BY <1>4, CallTyped DEF HandleCall, SourceInv
        <2> QED
            BY <1>3, <1>4, <2>1 DEF HandleCall, Store, sourceVars
    <1>5. ASSUME HandleLate PROVE \E p \in Paths : M!Copy(p)
        <2>1. PICK r \in late : rows' = [rows EXCEPT ![r.path] = r.doc]
            BY <1>5 DEF HandleLate, Store
        <2>2. r.path \in Paths /\ Genuine(r.path, r.doc)
            BY DEF TypeOK, Request, SourceInv
        <2> QED
            BY <1>3, <1>5, <2>1, <2>2 DEF HandleLate, sourceVars
    <1>6. ASSUME NEW p \in Paths,
                 \/ ChangeAccess(p) \/ ScanDenied(p) \/ ScanOversized(p) \/ ScanUnchanged(p)
                 \/ ScanChanged(p) \/ PruneMissing(p) \/ AbortOnAccess(p)
          PROVE  UNCHANGED M!mirrorVars
        BY <1>6 DEF ChangeAccess, ScanDenied, ScanOversized, ScanUnchanged, ScanChanged,
                    PruneMissing, AbortOnAccess, sourceVars, hostVars
    <1>7. ASSUME \/ DropLate \/ ReadStatus \/ SameEpoch \/ ClearLedger \/ AdoptEpoch \/ StartPrune
                 \/ RecordAnswer \/ FinishPass \/ CallFails \/ PassInterrupted \/ UNCHANGED vars
          PROVE  UNCHANGED M!mirrorVars
        BY <1>7 DEF DropLate, ReadStatus, SameEpoch, ClearLedger, AdoptEpoch, StartPrune,
                    RecordAnswer, FinishPass, CallFails, PassInterrupted, vars, sourceVars, hostVars
    <1> QED
        BY <1>1, <1>2, <1>4, <1>5, <1>6, <1>7, Steps

\* Replication implements Mirror: whatever the network and the processes do, the
\* host's row of a path is absent or a document that the source has held for that
\* path, rows change one at a time, and vanish together only with a new epoch.
THEOREM IsMirrorHolds == Spec => IsMirror
    <1>1. Init => M!MirrorInit
        BY DEF Init, M!MirrorInit, Nothing, Content
    <1>2. TypeOK /\ SourceInv /\ [Next]_vars => [M!MirrorNext]_(M!mirrorVars)
        BY MirrorStep
    <1>3. Init => SourceInv
        BY SourceInit
    <1>4. TypeOK /\ SourceInv /\ [Next]_vars => SourceInv'
        BY SourceStep
    <1> QED
        BY <1>1, <1>2, <1>3, <1>4, RemoteTypeCorrect, PTL DEF Spec, IsMirror, M!MirrorSpec
=============================================================================
