------------------------- MODULE MeshRequestProofs -------------------------
(***************************************************************************)
(* Theorems about MeshRequest, for any hosts, routes and tools: an answer  *)
(* tells of every host once and does not claim more than it has            *)
(* (HonestAnswer), no host executes a request more often than it was       *)
(* accepted (AtMostOnce), and a relay once learnt stays (RelayKept).       *)
(***************************************************************************)
EXTENDS MeshRequest, FiniteSetTheorems, TLAPS

-----------------------------------------------------------------------------
(* The inductive invariant. *)

\* What the memory knows of relays is on disk or in the configuration.
RelaysSaved ==
    \A p \in Peers : "relay" \in known[p] => "relay" \in cache[p] \/ "relay" \in Static[p]

StatusType == [host : Hosts, state : States]
StatusBags == UNION {[D -> Nat \ {0}] : D \in SUBSET StatusType}

CallType ==
    [st : {"new", "running", "answered", "error", "refused", "over"}, todo : SUBSET Hosts,
     statuses : StatusBags, hits : SUBSET Hosts, partial : BOOLEAN]

MessageType ==
    [send : Sends, host : Peers, via : Waits, body : {"request", "duplicate"} \cup Results]

\* TypeOK, in one piece for each variable.
Typed ==
    /\ TopologyTyped
    /\ args \in [tool : Tools, asked : SUBSET Hosts, acl : BOOLEAN]
    /\ sub \in [Sends -> CallType]
    /\ leg \in [Sends -> [Hosts -> {"idle", "done"} \cup Waits]]
    /\ net \subseteq MessageType
    /\ seen \in [Hosts -> BOOLEAN] /\ accepted \in 0 .. 2
    /\ runs \in [Hosts -> Nat] /\ good \subseteq Hosts /\ refusals \subseteq Hosts
    /\ forgets \in 0 .. MaxForgets

\* A call that is running or answered has one status of each host it has done with,
\* and what the statuses say is so.
Tally(s) ==
    LET told == BagToSet(sub[s].statuses)
    IN  /\ sub[s].st = "answered" => sub[s].todo = {}
        /\ Told(s) \cup sub[s].todo = Targets /\ Told(s) \cap sub[s].todo = {}
        /\ \A t, u \in told : t.host = u.host => t = u
        /\ \A t \in told :
            /\ sub[s].statuses[t] = 1
            /\ t.state # "failed" => t.host \in sub[s].hits
            /\ t.state = "ok" => t.host \in good
            /\ ~sub[s].partial => t.state = "ok"

Tallies == \A s \in Sends : sub[s].st \in {"running", "answered"} => Tally(s)

\* A message is of a call that was sent; an answer is waited for, and is honest.
Messages ==
    \A m \in net :
        /\ leg[m.send][m.host] # "idle"
        /\ m.via \in {"cloud", "prefix"} => m.host \in Cloud
        /\ m.body # "request" => Awaited(m)
        /\ m.body = "ok" => m.host \in good

\* No call has two messages under way.
OneMessage == \A m, n \in net : m.send = n.send /\ m.host = n.host => m = n

\* Hosts that are visited one after the other wait for their turn.
InTurn ==
    \A s \in Sends :
        /\ sub[s].st = "new" => \A h \in Hosts : leg[s][h] = "idle"
        /\ sub[s].st = "running" /\ args.tool \notin Fanned =>
            \A g, h \in sub[s].todo : leg[s][g] # "idle" => g <= h

\* A tool for one host is asked of one host.
OneAsked == args.tool \in Single => \A g, h \in args.asked : g = h

Count(b) == IF b THEN 1 ELSE 0
Open(s, h) == \E m \in net : m.send = s /\ m.host = h /\ m.body = "request"
Claimed(s) ==
    sub[s].st \in {"running", "answered", "error"} \/ \E h \in Hosts : leg[s][h] # "idle"

\* Every execution, and every request that may become one, is of another call.
Executions ==
    \A h \in Hosts \ Cloud :
        runs[h] + Count(Open(1, h)) + Count(Open(2, h))
            <= Count(leg[1][h] # "idle") + Count(leg[2][h] # "idle")

Claims ==
    /\ Count(Claimed(1)) + Count(Claimed(2)) <= accepted
    /\ accepted <= Count(sub[1].st # "new") + Count(sub[2].st # "new")

\* Only an execution makes a peer remember the id.
Remembered == \A h \in Peers \ Cloud : seen[h] => runs[h] > 0

Repeated == refusals # {} => accepted > 1

IInv ==
    /\ Typed /\ RelaysSaved
    /\ Tallies /\ Messages /\ OneMessage /\ InTurn /\ OneAsked
    /\ Executions /\ Claims /\ Remembered /\ Repeated

-----------------------------------------------------------------------------
(* Lemmas about the operators. *)

\* New statuses, told once each, beside those that are there.
LEMMA BagFacts ==
    ASSUME NEW B \in StatusBags, NEW T \in SUBSET StatusType
    PROVE  /\ B (+) SetToBag(T) \in StatusBags
           /\ BagToSet(B (+) SetToBag(T)) = BagToSet(B) \cup T
           /\ T \cap BagToSet(B) = {} =>
                /\ \A t \in BagToSet(B) : (B (+) SetToBag(T))[t] = B[t]
                /\ \A t \in T : (B (+) SetToBag(T))[t] = 1
<1> DEFINE C == B (+) SetToBag(T)
<1>1. PICK D \in SUBSET StatusType : B \in [D -> Nat \ {0}]  BY DEF StatusBags
<1>2. C = [t \in D \cup T |-> (IF t \in D THEN B[t] ELSE 0) + (IF t \in T THEN 1 ELSE 0)]
  BY <1>1 DEF (+), SetToBag
<1>3. \A t \in D : B[t] \in Nat \ {0}  BY <1>1
<1> HIDE DEF C
<1>4. C \in [D \cup T -> Nat \ {0}]  BY <1>2, <1>3
<1>5. D \cup T \in SUBSET StatusType  BY <1>1
<1>6. C \in StatusBags  BY <1>4, <1>5 DEF StatusBags
<1>7. DOMAIN C = D \cup T /\ DOMAIN B = D  BY <1>1, <1>4
<1>8. T \cap D = {} => (\A t \in D : C[t] = B[t]) /\ (\A t \in T : C[t] = 1)
  BY <1>2, <1>3
<1> QED BY <1>6, <1>7, <1>8 DEF C, BagToSet

LEMMA CallFacts ==
    ASSUME NEW c \in CallType
    PROVE  /\ c.statuses \in StatusBags /\ IsABag(c.statuses)
           /\ BagToSet(c.statuses) \subseteq StatusType
<1>1. c.statuses \in StatusBags  BY DEF CallType
<1>2. PICK D \in SUBSET StatusType : c.statuses \in [D -> Nat \ {0}]  BY <1>1 DEF StatusBags
<1>3. DOMAIN c.statuses = D /\ c.statuses \in [D -> {n \in Nat : n > 0}]  BY <1>2
<1> QED BY <1>1, <1>3 DEF IsABag, BagToSet

\* The pieces make the type invariant of the model.
LEMMA TypedTypeOK == Typed => TypeOK
<1> SUFFICES ASSUME Typed PROVE TypeOK  OBVIOUS
<1>1. \A s \in Sends : sub[s] \in CallType  BY DEF Typed
<1>2. \A s \in Sends :
        /\ sub[s].st \in {"new", "running", "answered", "error", "refused", "over"}
        /\ sub[s].todo \in SUBSET Hosts /\ sub[s].hits \in SUBSET Hosts
        /\ sub[s].partial \in BOOLEAN
  BY <1>1 DEF CallType
<1>3. \A s \in Sends : IsABag(sub[s].statuses) /\ BagToSet(sub[s].statuses) \subseteq StatusType
  BY <1>1, CallFacts
<1>4. \A m \in net : m \in MessageType  BY DEF Typed
<1> QED BY <1>2, <1>3, <1>4 DEF Typed, TypeOK, StatusType, MessageType

\* What a tool ends in is one of the results, and the state of its status.
LEMMA OutcomeFacts ==
    ASSUME NEW o \in Outcomes
    PROVE  o \in Results /\ (IF o = "error" THEN "failed" ELSE o) \in States
BY DEF Outcomes, Results, States

LEMMA TargetFacts ==
    ASSUME Typed
    PROVE  /\ Targets \subseteq Hosts /\ args.asked \subseteq Targets
           /\ args.tool \in Single => Targets = args.asked
<1>1. args.asked \subseteq Hosts  BY DEF Typed
<1>2. Local \in Hosts  BY DEF Hosts
<1> QED BY <1>1, <1>2 DEF Targets, Single

LEMMA HostFacts ==
    /\ Local \in Hosts /\ Local \notin Peers /\ Peers \subseteq Hosts
    /\ \A h \in Hosts : h \in Nat /\ (h # Local => h > Local)
    /\ Local \notin Cloud
BY PeersAssumption, CloudAssumption DEF Hosts, Local

\* A tool that fails as a whole has asked nobody else, or nobody else yet.
LEMMA NobodyElse ==
    ASSUME IInv, NEW s \in Sends, NEW h \in Hosts, sub[s].st = "running", h \in sub[s].todo,
           args.tool \in Single \/ (args.tool = "status" /\ h = Local),
           NEW g \in sub[s].todo, leg[s][g] # "idle"
    PROVE  g = h
<1>1. Typed /\ sub[s] \in CallType  BY DEF IInv, Typed
<1>2. sub[s].todo \subseteq Targets  BY DEF IInv, Tallies, Tally
<1>3. CASE args.tool \in Single
  <2>1. g \in args.asked /\ h \in args.asked  BY <1>1, <1>2, <1>3, TargetFacts
  <2> QED BY <1>3, <2>1 DEF IInv, OneAsked
<1>4. CASE args.tool = "status" /\ h = Local
  <2>1. args.tool \notin Fanned  BY <1>4 DEF Fanned
  <2>2. g <= h  BY <2>1 DEF IInv, InTurn
  <2>3. g \in Hosts  BY <1>1 DEF CallType
  <2> QED BY <1>4, <2>2, <2>3, HostFacts
<1> QED BY <1>3, <1>4

\* A call that ends with an error keeps what it has merged.
LEMMA FailedFacts ==
    ASSUME NEW c \in CallType, NEW e, e = [c EXCEPT !.st = "error", !.todo = {}]
    PROVE  e \in CallType /\ e.st = "error" /\ e.todo = {}
BY DEF CallType

\* Nothing but the count of executions, the calls' states and the messages matters
\* to the invariants that count.
LEMMA CountsKept ==
    ASSUME IInv, Typed',
           \A t \in Sends, g \in Hosts : Open(t, g)' => Open(t, g),
           \A t \in Sends, g \in Hosts : leg[t][g] # "idle" => leg'[t][g] # "idle",
           \A t \in Sends : Claimed(t)' <=> Claimed(t),
           \A t \in Sends : sub'[t].st # "new" <=> sub[t].st # "new",
           \A g \in Hosts : \/ runs'[g] = runs[g]
                            \/ /\ runs'[g] = runs[g] + 1
                               /\ \E t \in Sends : leg[t][g] = "idle" /\ leg'[t][g] # "idle",
           UNCHANGED <<seen, accepted, refusals>>
    PROVE  Executions' /\ Claims' /\ Remembered' /\ Repeated'
<1>1. Typed  BY DEF IInv
<1>2. Executions'
  <2> SUFFICES ASSUME NEW g \in Hosts \ Cloud
               PROVE  runs'[g] + Count(Open(1, g))' + Count(Open(2, g))'
                        <= Count(leg[1][g] # "idle")' + Count(leg[2][g] # "idle")'
    BY DEF Executions
  <2>1. runs[g] + Count(Open(1, g)) + Count(Open(2, g))
            <= Count(leg[1][g] # "idle") + Count(leg[2][g] # "idle")
    BY DEF IInv, Executions
  <2>2. Count(Open(1, g))' <= Count(Open(1, g)) /\ Count(Open(2, g))' <= Count(Open(2, g))
    BY DEF Count, Sends
  <2>3. /\ Count(Open(1, g)) \in 0 .. 1 /\ Count(Open(2, g)) \in 0 .. 1
        /\ Count(Open(1, g))' \in 0 .. 1 /\ Count(Open(2, g))' \in 0 .. 1
    BY DEF Count
  <2>4. runs[g] \in Nat /\ runs'[g] \in Nat  BY <1>1 DEF Typed
  <2> QED BY <2>1, <2>2, <2>3, <2>4 DEF Count, Sends
<1>3. Claims'  BY DEF IInv, Claims, Count, Sends
<1>4. Remembered'
  <2>1. \A g \in Hosts : runs[g] \in Nat /\ (runs[g] > 0 => runs'[g] > 0)  BY <1>1, SMTT(30) DEF Typed
  <2> QED BY <2>1, HostFacts DEF IInv, Remembered
<1>5. Repeated'  BY DEF IInv, Repeated
<1> QED BY <1>2, <1>3, <1>4, <1>5

\* The call of h has ended: its state is merged, its answers are gone.
LEMMA JoinStep ==
    ASSUME IInv, NEW s \in Sends, NEW h \in Hosts, NEW state \in States,
           sub[s].st = "running", h \in sub[s].todo,
           sub' = [sub EXCEPT ![s] = Joined(s, h, state)],
           leg' = [leg EXCEPT ![s][h] = "done"],
           net' \subseteq net,
           \A m \in net' : m.send = s /\ m.host = h => m.body = "request",
           good \subseteq good', good' \subseteq Hosts, state = "ok" => h \in good',
           \/ runs' = runs
           \/ leg[s][h] = "idle" /\ runs' = [runs EXCEPT ![h] = @ + 1],
           UNCHANGED <<topologyVars, args, seen, accepted, refusals, forgets>>
    PROVE  IInv'
<1> DEFINE fails == state = "failed" /\ (args.tool \in Single \/ (args.tool = "status" /\ h = Local))
           new == Status(h, state)
           bag == sub[s].statuses (+) SetToBag({new})
<1>1. Typed /\ sub[s] \in CallType  BY DEF IInv, Typed
<1>2. new \in StatusType /\ new.host = h /\ new.state = state  BY DEF Status, StatusType
<1>3. Tally(s)  BY DEF IInv, Tallies
<1>4. new \notin BagToSet(sub[s].statuses)
  BY <1>2, <1>3 DEF Tally, Told
<1>5. /\ bag \in StatusBags /\ BagToSet(bag) = BagToSet(sub[s].statuses) \cup {new}
      /\ \A t \in BagToSet(sub[s].statuses) : bag[t] = sub[s].statuses[t]
      /\ bag[new] = 1
  <2>1. {new} \in SUBSET StatusType  BY <1>2
  <2> QED BY <1>1, <1>4, <2>1, BagFacts, CallFacts
<1> DEFINE hits == IF state = "failed" THEN sub[s].hits ELSE sub[s].hits \cup {h}
           joined == [st |-> IF sub[s].todo = {h} THEN "answered" ELSE "running",
                      todo |-> sub[s].todo \ {h}, statuses |-> bag, hits |-> hits,
                      partial |-> sub[s].partial \/ state # "ok"]
<1>6. /\ sub'[s] = IF fails THEN [sub[s] EXCEPT !.st = "error", !.todo = {}] ELSE joined
      /\ \A t \in Sends \ {s} : sub'[t] = sub[t]
  BY <1>1 DEF Typed, Joined
<1> HIDE DEF new, bag
<1>7. /\ sub[s].hits \subseteq hits /\ hits \subseteq Hosts /\ (state # "failed" => h \in hits)
  BY <1>1 DEF CallType
<1> HIDE DEF hits
<1>8. sub'[s] \in CallType
  <2>1. CASE fails
    <3>1. sub'[s] = [sub[s] EXCEPT !.st = "error", !.todo = {}]  BY <1>6, <2>1
    <3> QED BY <1>1, <3>1, FailedFacts, Zenon
  <2>2. CASE ~fails
    <3>1. joined \in CallType  BY <1>1, <1>5, <1>7 DEF CallType
    <3> QED BY <1>6, <2>2, <3>1
  <2> QED BY <2>1, <2>2
<1>9. /\ fails => sub'[s].st = "error" /\ sub'[s].todo = {}
      /\ ~fails => /\ sub'[s].st = IF sub[s].todo = {h} THEN "answered" ELSE "running"
                   /\ sub'[s].todo = sub[s].todo \ {h} /\ sub'[s].statuses = bag
                   /\ sub'[s].hits = hits /\ sub'[s].partial = (sub[s].partial \/ state # "ok")
  <2>1. CASE fails
    <3>1. sub'[s] = [sub[s] EXCEPT !.st = "error", !.todo = {}]  BY <1>6, <2>1
    <3>2. sub'[s].st = "error" /\ sub'[s].todo = {}  BY <1>1, <3>1, FailedFacts, Zenon
    <3> QED BY <2>1, <3>2
  <2>2. CASE ~fails
    <3>1. sub'[s] = joined  BY <1>6, <2>2
    <3> QED BY <2>2, <3>1
  <2> QED BY <2>1, <2>2
<1>10. \A t \in Sends, g \in Hosts : leg'[t][g] = IF t = s /\ g = h THEN "done" ELSE leg[t][g]
  BY <1>1 DEF Typed
<1>11. Typed'
  <2>1. sub' \in [Sends -> CallType]  BY <1>1, <1>8 DEF Typed
  <2>2. leg' \in [Sends -> [Hosts -> {"idle", "done"} \cup Waits]]  BY <1>1 DEF Typed
  <2>3. runs' \in [Hosts -> Nat]  BY <1>1 DEF Typed
  <2>4. TopologyTyped'  BY <1>1 DEF Typed, TopologyTyped, topologyVars
  <2> QED BY <1>1, <2>1, <2>2, <2>3, <2>4 DEF Typed
<1>12. RelaysSaved'  BY DEF IInv, RelaysSaved, topologyVars
<1>13. Targets' = Targets  BY DEF Targets
<1>14. Tallies'
  <2> SUFFICES ASSUME NEW t \in Sends, sub'[t].st \in {"running", "answered"}
               PROVE  Tally(t)'
    BY DEF Tallies
  <2>1. CASE t # s
    <3>1. sub'[t] = sub[t] /\ Tally(t)  BY <1>6, <2>1 DEF IInv, Tallies
    <3> QED BY <1>13, <3>1 DEF Tally, Told
  <2>2. CASE t = s
    <3>1. ~fails  BY <1>9, <2>2
    <3> HIDE DEF fails
    <3>2. Told(s)' = Told(s) \cup {h}  BY <1>2, <1>5, <1>9, <3>1 DEF Told
    <3>3. sub'[s].st = "answered" => sub'[s].todo = {}  BY <1>9, <3>1
    <3>4. Told(s)' \cup sub'[s].todo = Targets' /\ Told(s)' \cap sub'[s].todo = {}
      BY <1>3, <1>9, <1>13, <3>1, <3>2 DEF Tally
    <3>5. \A u \in BagToSet(sub[s].statuses) : u.host # h
      BY <1>3 DEF Tally, Told
    <3>6. \A u, v \in BagToSet(sub[s].statuses) : u.host = v.host => u = v
      BY <1>3 DEF Tally
    <3>7. BagToSet(sub'[s].statuses) = BagToSet(sub[s].statuses) \cup {new}
      BY <1>5, <1>9, <3>1
    <3>8. \A u, v \in BagToSet(sub'[s].statuses) : u.host = v.host => u = v
      BY <1>2, <3>5, <3>6, <3>7
    <3>9. ASSUME NEW u \in BagToSet(sub'[s].statuses)
          PROVE  /\ sub'[s].statuses[u] = 1
                 /\ u.state # "failed" => u.host \in sub'[s].hits
                 /\ u.state = "ok" => u.host \in good'
                 /\ ~sub'[s].partial => u.state = "ok"
      <4>1. CASE u = new  BY <1>2, <1>5, <1>7, <1>9, <3>1, <4>1
      <4>2. CASE u \in BagToSet(sub[s].statuses)
        BY <1>3, <1>5, <1>7, <1>9, <3>1, <4>2 DEF Tally
      <4> QED BY <3>7, <4>1, <4>2
    <3> QED BY <2>2, <3>3, <3>4, <3>8, <3>9 DEF Tally
  <2> QED BY <2>1, <2>2
<1>15. \A m \in net' : m \in net /\ m.send \in Sends /\ m.host \in Hosts
  BY <1>1, HostFacts DEF Typed, MessageType
<1>16. Messages'
  <2> SUFFICES ASSUME NEW m \in net'
               PROVE  /\ leg'[m.send][m.host] # "idle"
                      /\ m.via \in {"cloud", "prefix"} => m.host \in Cloud
                      /\ m.body # "request" => Awaited(m)'
                      /\ m.body = "ok" => m.host \in good'
    BY DEF Messages
  <2>1. /\ leg[m.send][m.host] # "idle"
        /\ m.via \in {"cloud", "prefix"} => m.host \in Cloud
        /\ m.body # "request" => Awaited(m)
        /\ m.body = "ok" => m.host \in good
    BY DEF IInv, Messages
  <2>2. leg'[m.send][m.host] # "idle"  BY <1>10, <1>15, <2>1
  <2>3. ASSUME m.body # "request" PROVE Awaited(m)'
    <3>1. Awaited(m) /\ (m.send # s \/ m.host # h)  BY <2>1, <2>3
    <3>2. leg'[m.send][m.host] = leg[m.send][m.host]  BY <1>10, <1>15, <3>1
    <3>3. CASE m.send # s
      BY <1>6, <1>15, <3>1, <3>2, <3>3 DEF Awaited, Waiting
    <3>4. CASE m.send = s
      <4>1. m.host \in sub[s].todo /\ m.host # h  BY <3>1, <3>4 DEF Awaited, Waiting
      <4>2. ~fails
        BY <2>1, <3>4, <4>1, NobodyElse
      <4>3. sub'[s].st = "running" /\ m.host \in sub'[s].todo  BY <1>9, <4>1, <4>2
      <4> QED BY <3>1, <3>2, <3>4, <4>3 DEF Awaited, Waiting
    <3> QED BY <3>3, <3>4
  <2> QED BY <2>1, <2>2, <2>3
<1>17. OneMessage'  BY DEF IInv, OneMessage
<1>18. InTurn'
  <2> SUFFICES ASSUME NEW t \in Sends
               PROVE  /\ sub'[t].st = "new" => \A g \in Hosts : leg'[t][g] = "idle"
                      /\ sub'[t].st = "running" /\ args.tool \notin Fanned =>
                           \A g, k \in sub'[t].todo : leg'[t][g] # "idle" => g <= k
    BY DEF InTurn
  <2>1. CASE t # s
    <3>1. \A g \in Hosts : leg'[t][g] = leg[t][g]  BY <1>10, <2>1
    <3>2. sub'[t] = sub[t] /\ sub[t].todo \subseteq Hosts  BY <1>1, <1>6, <2>1 DEF Typed, CallType
    <3> QED BY <3>1, <3>2 DEF IInv, InTurn
  <2>2. CASE t = s
    <3>1. sub[s].todo \subseteq Hosts  BY <1>1 DEF CallType
    <3>2. sub'[s].todo \subseteq sub[s].todo \ {h} /\ sub'[s].st # "new"  BY <1>9
    <3>3. \A g \in sub'[s].todo : leg'[s][g] = leg[s][g]  BY <1>10, <3>1, <3>2
    <3> QED BY <2>2, <3>2, <3>3 DEF IInv, InTurn
  <2> QED BY <2>1, <2>2
<1>19. OneAsked'  BY DEF IInv, OneAsked
<1>20. Executions' /\ Claims' /\ Remembered' /\ Repeated'
  <2>1. \A t \in Sends, g \in Hosts : Open(t, g)' => Open(t, g)  BY DEF Open
  <2>2. \A t \in Sends, g \in Hosts : leg[t][g] # "idle" => leg'[t][g] # "idle"  BY <1>10
  <2>3. \A t \in Sends : /\ sub[t].st \in {"running", "answered", "error"}
                            <=> sub'[t].st \in {"running", "answered", "error"}
                         /\ sub'[t].st # "new" <=> sub[t].st # "new"
    BY <1>6, <1>9
  <2>4. \A t \in Sends : Claimed(t)' <=> Claimed(t)
    BY <1>10, <2>3 DEF Claimed
  <2>5. \A g \in Hosts : \/ runs'[g] = runs[g]
                         \/ /\ runs'[g] = runs[g] + 1
                            /\ \E t \in Sends : leg[t][g] = "idle" /\ leg'[t][g] # "idle"
    BY <1>1, <1>10 DEF Typed
  <2> QED BY <1>11, <2>1, <2>2, <2>3, <2>4, <2>5, CountsKept
<1> QED BY <1>11, <1>12, <1>14, <1>16, <1>17, <1>18, <1>19, <1>20 DEF IInv

\* What an invariant about claims needs: nobody claims anew, and more executions.
LEMMA ClaimsKept ==
    ASSUME IInv, Typed',
           \A t \in Sends : Claimed(t)' <=> Claimed(t),
           \A t \in Sends : sub'[t].st # "new" <=> sub[t].st # "new",
           \A g \in Hosts : runs'[g] = runs[g],
           UNCHANGED <<seen, accepted, refusals>>
    PROVE  Claims' /\ Remembered' /\ Repeated'
<1>1. Claims'  BY DEF IInv, Claims, Count, Sends
<1>2. Remembered'  BY HostFacts DEF IInv, Remembered
<1>3. Repeated'  BY DEF IInv, Repeated
<1> QED BY <1>1, <1>2, <1>3

\* Invariants of the calls and of the topology that do not look at messages.
LEMMA SubKept ==
    ASSUME IInv, good \subseteq good', UNCHANGED <<args, sub, known, cache>>
    PROVE  RelaysSaved' /\ Tallies' /\ OneAsked'
<1>1. Targets' = Targets  BY DEF Targets
<1>2. Tallies'
  <2> SUFFICES ASSUME NEW t \in Sends, sub[t].st \in {"running", "answered"}
               PROVE  Tally(t)'
    BY DEF Tallies
  <2>1. Tally(t)  BY DEF IInv, Tallies
  <2> QED BY <1>1, <2>1 DEF Tally, Told
<1> QED BY <1>2 DEF IInv, RelaysSaved, OneAsked

\* A request goes out to a host whose turn it is.
LEMMA SendStep ==
    ASSUME IInv, NEW s \in Sends, NEW h \in Peers, NEW via \in Waits, Turn(s, h),
           via \in {"cloud", "prefix"} => h \in Cloud,
           SendVia(s, h, via),
           UNCHANGED <<topologyVars, args, seen, accepted, runs, good, refusals, forgets>>
    PROVE  IInv'
<1> DEFINE q == Request(s, h, via)
<1>1. Typed /\ h \in Hosts  BY HostFacts DEF IInv
<1>2. q \in MessageType /\ q.send = s /\ q.host = h /\ q.via = via /\ q.body = "request"
  BY DEF Request, MessageType
<1> HIDE DEF q
<1>3. net' = net \cup {q} /\ sub' = sub  BY DEF SendVia, q
<1>4. \A t \in Sends, g \in Hosts : leg'[t][g] = IF t = s /\ g = h THEN via ELSE leg[t][g]
  BY <1>1 DEF SendVia, Typed
<1>5. Typed'
  <2>1. net' \subseteq MessageType  BY <1>1, <1>2, <1>3 DEF Typed
  <2>2. leg' \in [Sends -> [Hosts -> {"idle", "done"} \cup Waits]]
    BY <1>1 DEF Typed, SendVia
  <2>3. TopologyTyped'  BY <1>1 DEF Typed, TopologyTyped, topologyVars
  <2> QED BY <1>1, <1>3, <2>1, <2>2, <2>3 DEF Typed
<1>6. RelaysSaved' /\ Tallies' /\ OneAsked'  BY <1>3, SubKept DEF topologyVars
<1>7. leg[s][h] = "idle" /\ \A m \in net : ~(m.send = s /\ m.host = h)
  BY DEF Turn, IInv, Messages
<1>8. \A m \in net : m.send \in Sends /\ m.host \in Hosts
  BY <1>1, HostFacts DEF Typed, MessageType
<1>9. via # "idle"  BY DEF Waits
<1>10. Messages'
  <2> SUFFICES ASSUME NEW m \in net'
               PROVE  /\ leg'[m.send][m.host] # "idle"
                      /\ m.via \in {"cloud", "prefix"} => m.host \in Cloud
                      /\ m.body # "request" => Awaited(m)'
                      /\ m.body = "ok" => m.host \in good
    BY DEF Messages
  <2>1. CASE m = q  BY <1>1, <1>2, <1>4, <1>9, <2>1
  <2>2. CASE m \in net
    <3>1. leg'[m.send][m.host] = leg[m.send][m.host]  BY <1>4, <1>7, <1>8, <2>2
    <3> QED BY <1>3, <2>2, <3>1 DEF IInv, Messages, Awaited, Waiting
  <2> QED BY <1>3, <2>1, <2>2
<1>11. OneMessage'  BY <1>2, <1>3, <1>7 DEF IInv, OneMessage
<1>12. InTurn'
  <2> SUFFICES ASSUME NEW t \in Sends
               PROVE  /\ sub[t].st = "new" => \A g \in Hosts : leg'[t][g] = "idle"
                      /\ sub[t].st = "running" /\ args.tool \notin Fanned =>
                           \A g, k \in sub[t].todo : leg'[t][g] # "idle" => g <= k
    BY <1>3 DEF InTurn
  <2>1. sub[t].todo \subseteq Hosts  BY <1>1 DEF Typed, CallType
  <2> QED BY <1>4, <2>1 DEF IInv, InTurn, Turn
<1>13. Executions'
  <2> SUFFICES ASSUME NEW g \in Hosts \ Cloud
               PROVE  runs[g] + Count(Open(1, g))' + Count(Open(2, g))'
                        <= Count(leg[1][g] # "idle")' + Count(leg[2][g] # "idle")'
    BY DEF Executions
  <2>1. runs[g] + Count(Open(1, g)) + Count(Open(2, g))
            <= Count(leg[1][g] # "idle") + Count(leg[2][g] # "idle")
    BY DEF IInv, Executions
  <2>2. runs[g] \in Nat  BY <1>1 DEF Typed
  <2>3. \A t \in Sends : (t # s \/ g # h) => /\ (Open(t, g)' <=> Open(t, g))
                                             /\ leg'[t][g] = leg[t][g]
    BY <1>2, <1>3, <1>4 DEF Open
  <2>4. g = h => ~Open(s, g) /\ leg[s][g] = "idle" /\ leg'[s][g] # "idle"
    BY <1>1, <1>4, <1>7, <1>9 DEF Open
  <2>5. CASE s = 1  BY <2>1, <2>2, <2>3, <2>4, <2>5 DEF Count, Sends
  <2>6. CASE s = 2  BY <2>1, <2>2, <2>3, <2>4, <2>6 DEF Count, Sends
  <2> QED BY <2>5, <2>6 DEF Sends
<1>14. Claims' /\ Remembered' /\ Repeated'
  <2>1. \A t \in Sends : Claimed(t)' <=> Claimed(t)
    BY <1>3, <1>4 DEF Claimed, Turn
  <2> QED BY <1>3, <1>5, <2>1, ClaimsKept
<1> QED BY <1>5, <1>6, <1>10, <1>11, <1>12, <1>13, <1>14 DEF IInv

\* A request goes out again, in the place of the one that is done with.
LEMMA ResendStep ==
    ASSUME IInv, NEW m \in net, NEW via \in Waits,
           via = "prefix" => m.host \in Cloud, via # "cloud",
           m.body = "request" \/ m.host \in Cloud,
           leg' = [leg EXCEPT ![m.send][m.host] = via],
           net' = (net \ {m}) \cup {Request(m.send, m.host, via)},
           UNCHANGED <<topologyVars, args, sub, seen, accepted, runs, good, refusals, forgets>>
    PROVE  IInv'
<1> DEFINE s == m.send
           h == m.host
           q == Request(s, h, via)
<1>1. Typed /\ s \in Sends /\ h \in Hosts /\ h \in Peers
  BY HostFacts DEF IInv, Typed, MessageType
<1>2. q \in MessageType /\ q.send = s /\ q.host = h /\ q.via = via /\ q.body = "request"
  BY <1>1 DEF Request, MessageType
<1>3. net' = (net \ {m}) \cup {q}  OBVIOUS
<1> HIDE DEF q
<1>4. \A t \in Sends, g \in Hosts : leg'[t][g] = IF t = s /\ g = h THEN via ELSE leg[t][g]
  BY <1>1 DEF Typed
<1>5. Typed'
  <2>1. net' \subseteq MessageType  BY <1>1, <1>2, <1>3 DEF Typed
  <2>2. leg' \in [Sends -> [Hosts -> {"idle", "done"} \cup Waits]]
    BY <1>1 DEF Typed
  <2>3. TopologyTyped'  BY <1>1 DEF Typed, TopologyTyped, topologyVars
  <2> QED BY <1>1, <2>1, <2>2, <2>3 DEF Typed
<1>6. RelaysSaved' /\ Tallies' /\ OneAsked'  BY SubKept DEF topologyVars
<1>7. leg[s][h] # "idle" /\ \A n \in net \ {m} : ~(n.send = s /\ n.host = h)
  BY DEF IInv, Messages, OneMessage
<1>8. \A n \in net : n.send \in Sends /\ n.host \in Hosts
  BY <1>1, HostFacts DEF Typed, MessageType
<1>9. via # "idle"  BY DEF Waits
<1>10. Messages'
  <2> SUFFICES ASSUME NEW n \in net'
               PROVE  /\ leg'[n.send][n.host] # "idle"
                      /\ n.via \in {"cloud", "prefix"} => n.host \in Cloud
                      /\ n.body # "request" => Awaited(n)'
                      /\ n.body = "ok" => n.host \in good
    BY DEF Messages
  <2>1. CASE n = q  BY <1>1, <1>2, <1>4, <1>9, <2>1
  <2>2. CASE n \in net \ {m}
    <3>1. leg'[n.send][n.host] = leg[n.send][n.host]  BY <1>4, <1>7, <1>8, <2>2
    <3> QED BY <2>2, <3>1 DEF IInv, Messages, Awaited, Waiting
  <2> QED BY <1>3, <2>1, <2>2
<1>11. OneMessage'  BY <1>2, <1>3, <1>7 DEF IInv, OneMessage
<1>12. InTurn'
  <2> SUFFICES ASSUME NEW t \in Sends
               PROVE  /\ sub[t].st = "new" => \A g \in Hosts : leg'[t][g] = "idle"
                      /\ sub[t].st = "running" /\ args.tool \notin Fanned =>
                           \A g, k \in sub[t].todo : leg'[t][g] # "idle" => g <= k
    BY DEF InTurn
  <2>1. sub[t].todo \subseteq Hosts  BY <1>1 DEF Typed, CallType
  <2>2. \A g \in Hosts : leg'[t][g] # "idle" <=> leg[t][g] # "idle"  BY <1>4, <1>7, <1>9
  <2> QED BY <2>1, <2>2 DEF IInv, InTurn
<1>13. Executions'
  <2> SUFFICES ASSUME NEW g \in Hosts \ Cloud
               PROVE  runs[g] + Count(Open(1, g))' + Count(Open(2, g))'
                        <= Count(leg[1][g] # "idle")' + Count(leg[2][g] # "idle")'
    BY DEF Executions
  <2>1. runs[g] + Count(Open(1, g)) + Count(Open(2, g))
            <= Count(leg[1][g] # "idle") + Count(leg[2][g] # "idle")
    BY DEF IInv, Executions
  <2>2. runs[g] \in Nat  BY <1>1 DEF Typed
  <2>3. \A t \in Sends : leg'[t][g] # "idle" <=> leg[t][g] # "idle"  BY <1>4, <1>7, <1>9
  <2>4. \A t \in Sends : Open(t, g)' => Open(t, g)
    BY <1>2, <1>3 DEF Open
  <2> QED BY <2>1, <2>2, <2>3, <2>4 DEF Count, Sends
<1>14. Claims' /\ Remembered' /\ Repeated'
  <2>1. \A t \in Sends : Claimed(t)' <=> Claimed(t)
    BY <1>4, <1>7, <1>9 DEF Claimed
  <2> QED BY <1>5, <2>1, ClaimsKept
<1> QED BY <1>5, <1>6, <1>10, <1>11, <1>12, <1>13, <1>14 DEF IInv

\* A peer has handled a request: who waits for it gets an answer.
LEMMA AnswerStep ==
    ASSUME IInv, NEW m \in net, NEW body \in {"duplicate"} \cup Results,
           m.body = "request", Answer(m, body),
           good \subseteq good', body = "ok" => m.host \in good',
           UNCHANGED <<args, sub, leg, known, cache>>
    PROVE  /\ net' \subseteq MessageType
           /\ RelaysSaved' /\ Tallies' /\ Messages' /\ OneMessage' /\ InTurn' /\ OneAsked'
           /\ \A t \in Sends, g \in Hosts : Open(t, g)' => Open(t, g)
           /\ Open(m.send, m.host) /\ ~Open(m.send, m.host)'
<1> DEFINE a == [m EXCEPT !.body = body]
<1>1. Typed /\ m \in MessageType  BY DEF IInv, Typed
<1>2. /\ a \in MessageType /\ a.send = m.send /\ a.host = m.host /\ a.via = m.via
      /\ a.body = body /\ body # "request"
  BY <1>1 DEF MessageType, Results
<1> HIDE DEF a
<1>3. net' = (net \ {m}) \cup (IF Awaited(m) THEN {a} ELSE {})  BY DEF Answer, a
<1>4. net' \subseteq MessageType  BY <1>1, <1>2, <1>3 DEF Typed
<1>5. RelaysSaved' /\ Tallies' /\ OneAsked'  BY SubKept
<1>6. \A n \in net \ {m} : n.send # m.send \/ n.host # m.host  BY DEF IInv, OneMessage
<1>7. Messages'
  <2> SUFFICES ASSUME NEW n \in net'
               PROVE  /\ leg[n.send][n.host] # "idle"
                      /\ n.via \in {"cloud", "prefix"} => n.host \in Cloud
                      /\ n.body # "request" => Awaited(n)'
                      /\ n.body = "ok" => n.host \in good'
    BY DEF Messages
  <2>1. CASE n \in net
    BY <2>1 DEF IInv, Messages, Awaited, Waiting
  <2>2. CASE Awaited(m) /\ n = a
    <3>1. Awaited(n)'  BY <1>2, <2>2 DEF Awaited, Waiting
    <3> QED BY <1>2, <2>2, <3>1 DEF IInv, Messages
  <2> QED BY <1>3, <2>1, <2>2
<1>8. OneMessage'  BY <1>2, <1>3, <1>6 DEF IInv, OneMessage
<1>9. InTurn'  BY DEF IInv, InTurn
<1>10. \A t, g : Open(t, g)' => Open(t, g)  BY <1>2, <1>3 DEF Open
<1>11. Open(m.send, m.host) /\ ~Open(m.send, m.host)'  BY <1>2, <1>3, <1>6 DEF Open
<1> QED BY <1>4, <1>5, <1>7, <1>8, <1>9, <1>10, <1>11

\* A request refused as a duplicate is the second one.
LEMMA SecondRequest ==
    ASSUME IInv, NEW m \in net, m.body = "request", m.host \notin Cloud, runs[m.host] > 0
    PROVE  accepted > 1
<1> DEFINE h == m.host
<1>1. Typed /\ m.send \in Sends /\ h \in Hosts \ Cloud /\ runs[h] \in Nat
  BY HostFacts DEF IInv, Typed, MessageType
<1>2. Open(m.send, h)  BY DEF Open
<1>3. runs[h] + Count(Open(1, h)) + Count(Open(2, h))
          <= Count(leg[1][h] # "idle") + Count(leg[2][h] # "idle")
  BY <1>1 DEF IInv, Executions
<1>4. leg[1][h] # "idle" /\ leg[2][h] # "idle"
  BY <1>1, <1>2, <1>3 DEF Count, Sends
<1>5. Claimed(1) /\ Claimed(2)  BY <1>1, <1>4 DEF Claimed
<1>6. accepted \in Nat  BY <1>1 DEF Typed
<1> QED BY <1>5, <1>6 DEF IInv, Claims, Count

LEMMA HandleDuplicateStep ==
    ASSUME IInv, NEW m \in net, HandleDuplicate(m)
    PROVE  IInv'
<1>1. /\ m.body = "request" /\ m.host \notin Cloud /\ seen[m.host]
      /\ Answer(m, "duplicate") /\ refusals' = refusals \cup {m.host}
      /\ UNCHANGED <<topologyVars, args, sub, leg, seen, accepted, runs, good, forgets>>
  BY DEF HandleDuplicate
<1>2. Typed /\ m.host \in Peers /\ m.host \in Hosts
  BY HostFacts DEF IInv, Typed, MessageType
<1>3. /\ net' \subseteq MessageType
      /\ RelaysSaved' /\ Tallies' /\ Messages' /\ OneMessage' /\ InTurn' /\ OneAsked'
      /\ \A t \in Sends, g \in Hosts : Open(t, g)' => Open(t, g)
  <2>1. "duplicate" # "ok"  OBVIOUS
  <2> QED BY <1>1, <2>1, AnswerStep DEF topologyVars
<1>4. Typed'  BY <1>1, <1>2, <1>3 DEF Typed, TopologyTyped, topologyVars
<1>5. accepted > 1
  <2>1. runs[m.host] > 0  BY <1>1, <1>2 DEF IInv, Remembered
  <2> QED BY <1>1, <2>1, SecondRequest
<1>6. Executions'
  <2> SUFFICES ASSUME NEW g \in Hosts \ Cloud
               PROVE  runs[g] + Count(Open(1, g))' + Count(Open(2, g))'
                        <= Count(leg[1][g] # "idle") + Count(leg[2][g] # "idle")
    BY <1>1 DEF Executions, Count
  <2>1. runs[g] + Count(Open(1, g)) + Count(Open(2, g))
            <= Count(leg[1][g] # "idle") + Count(leg[2][g] # "idle")
    BY DEF IInv, Executions
  <2>2. runs[g] \in Nat  BY <1>2 DEF Typed
  <2> QED BY <1>3, <2>1, <2>2 DEF Count, Sends
<1>7. Claims' /\ Remembered' /\ Repeated'
  BY <1>1, <1>5 DEF IInv, Claims, Claimed, Count, Remembered, Repeated
<1> QED BY <1>3, <1>4, <1>6, <1>7 DEF IInv

LEMMA HandleRequestStep ==
    ASSUME IInv, NEW m \in net, HandleRequest(m)
    PROVE  IInv'
<1>1. PICK o \in Outcomes :
        /\ Answer(m, o)
        /\ good' = IF o = "ok" THEN good \cup {m.host} ELSE good
  BY DEF HandleRequest
<1>2. /\ m.body = "request"
      /\ seen' = [seen EXCEPT ![m.host] = m.host \notin Cloud]
      /\ runs' = [runs EXCEPT ![m.host] = @ + 1]
      /\ UNCHANGED <<topologyVars, args, sub, leg, accepted, refusals, forgets>>
  BY DEF HandleRequest
<1>3. Typed /\ m.host \in Peers /\ m.host \in Hosts /\ m.send \in Sends
  BY HostFacts DEF IInv, Typed, MessageType
<1>4. o \in Results  BY OutcomeFacts
<1>5. /\ net' \subseteq MessageType
      /\ RelaysSaved' /\ Tallies' /\ Messages' /\ OneMessage' /\ InTurn' /\ OneAsked'
      /\ \A t \in Sends, g \in Hosts : Open(t, g)' => Open(t, g)
      /\ Open(m.send, m.host) /\ ~Open(m.send, m.host)'
  BY <1>1, <1>2, <1>4, AnswerStep DEF topologyVars
<1>6. Typed'
  <2>1. seen' \in [Hosts -> BOOLEAN]  BY <1>2, <1>3 DEF Typed
  <2>2. runs' \in [Hosts -> Nat]  BY <1>2, <1>3 DEF Typed
  <2>3. good' \subseteq Hosts  BY <1>1, <1>3 DEF Typed
  <2> QED BY <1>2, <1>3, <1>5, <2>1, <2>2, <2>3 DEF Typed, TopologyTyped, topologyVars
<1>7. Executions'
  <2> SUFFICES ASSUME NEW g \in Hosts \ Cloud
               PROVE  runs'[g] + Count(Open(1, g))' + Count(Open(2, g))'
                        <= Count(leg[1][g] # "idle") + Count(leg[2][g] # "idle")
    BY <1>2 DEF Executions, Count
  <2>1. runs[g] + Count(Open(1, g)) + Count(Open(2, g))
            <= Count(leg[1][g] # "idle") + Count(leg[2][g] # "idle")
    BY DEF IInv, Executions
  <2>2. runs[g] \in Nat /\ runs'[g] = IF g = m.host THEN runs[g] + 1 ELSE runs[g]
    BY <1>2, <1>3 DEF Typed
  <2> QED BY <1>3, <1>5, <2>1, <2>2 DEF Count, Sends
<1>8. Claims' /\ Repeated'
  BY <1>2 DEF IInv, Claims, Claimed, Count, Repeated
<1>9. Remembered'
  <2> SUFFICES ASSUME NEW g \in Peers \ Cloud, seen'[g] PROVE runs'[g] > 0
    BY DEF Remembered
  <2>1. g \in Hosts /\ runs[g] \in Nat  BY <1>3, HostFacts DEF Typed
  <2> QED BY <1>2, <1>3, <2>1 DEF Typed, IInv, Remembered
<1> QED BY <1>5, <1>6, <1>7, <1>8, <1>9 DEF IInv

\* The asked node itself.
LEMMA AskLocalStep ==
    ASSUME IInv, NEW s \in Sends, AskLocal(s)
    PROVE  IInv'
<1>1. PICK o \in Outcomes :
        /\ Join(s, Local, IF o = "error" THEN "failed" ELSE o)
        /\ good' = IF o = "ok" THEN good \cup {Local} ELSE good
  BY DEF AskLocal
<1> DEFINE state == IF o = "error" THEN "failed" ELSE o
<1>2. state \in States  BY OutcomeFacts
<1>3. state = "ok" => Local \in good'  BY <1>1
<1>4. good \subseteq good' /\ good' \subseteq Hosts  BY <1>1, HostFacts DEF IInv, Typed
<1>5. Join(s, Local, state)  BY <1>1
<1> HIDE DEF state
<1>6. /\ sub[s].st = "running" /\ Local \in sub[s].todo /\ leg[s][Local] = "idle"
      /\ runs' = [runs EXCEPT ![Local] = @ + 1]
      /\ UNCHANGED <<topologyVars, args, seen, accepted, refusals, forgets>>
  BY DEF AskLocal, Turn
<1>7. /\ sub' = [sub EXCEPT ![s] = Joined(s, Local, state)]
      /\ leg' = [leg EXCEPT ![s][Local] = "done"]
      /\ net' \subseteq net
      /\ \A m \in net' : m.send = s /\ m.host = Local => m.body = "request"
  BY <1>5 DEF Join
<1>8. Local \in Hosts  BY HostFacts
<1> QED BY <1>2, <1>3, <1>4, <1>6, <1>7, <1>8, JoinStep, Zenon

\* A peer's call has ended.
LEMMA PeerJoinStep ==
    ASSUME IInv, NEW s \in Sends, NEW h \in Peers, NEW state \in States,
           sub[s].st = "running", h \in sub[s].todo, Join(s, h, state),
           state = "ok" => h \in good,
           UNCHANGED <<topologyVars, args, seen, accepted, runs, good, refusals, forgets>>
    PROVE  IInv'
<1>1. h \in Hosts /\ good \subseteq Hosts  BY HostFacts DEF IInv, Typed
<1>2. /\ sub' = [sub EXCEPT ![s] = Joined(s, h, state)]
      /\ leg' = [leg EXCEPT ![s][h] = "done"]
      /\ net' \subseteq net
      /\ \A m \in net' : m.send = s /\ m.host = h => m.body = "request"
  BY DEF Join
<1>3. good \subseteq good' /\ good' \subseteq Hosts /\ (state = "ok" => h \in good')  BY <1>1
<1>4. \/ runs' = runs
      \/ leg[s][h] = "idle" /\ runs' = [runs EXCEPT ![h] = @ + 1]
  OBVIOUS
<1>5. UNCHANGED <<topologyVars, args, seen, accepted, refusals, forgets>>  OBVIOUS
<1> QED BY <1>1, <1>2, <1>3, <1>4, <1>5, JoinStep, ZenonT(30)

LEMMA AskPeerSteps ==
    ASSUME IInv, NEW s \in Sends, NEW h \in Peers,
           AskNobody(s, h) \/ AskPeer(s, h) \/ ConnectFails(s, h) \/ PeerFails(s, h)
    PROVE  IInv'
<1>1. {"partial", "failed"} \subseteq States  BY DEF States
<1>2. {"direct", "relay", "proxy", "cloud"} \subseteq Waits  BY DEF Waits
<1>3. CASE AskNobody(s, h)
  <2>1. Turn(s, h) /\ (Join(s, h, "partial") \/ Join(s, h, "failed"))
    BY <1>3 DEF AskNobody
  <2> QED BY <1>1, <1>3, <2>1, PeerJoinStep DEF AskNobody, Turn
<1>4. CASE AskPeer(s, h)
  <2>1. \E via \in {"direct", "relay", "cloud"} :
           SendVia(s, h, via) /\ (via = "cloud" => h \in Cloud)
    BY <1>4 DEF AskPeer
  <2> QED BY <1>2, <1>4, <2>1, SendStep DEF AskPeer
<1>5. CASE ConnectFails(s, h)
  <2>1. SendVia(s, h, "relay") \/ SendVia(s, h, "proxy") \/ Join(s, h, "failed")
    BY <1>5 DEF ConnectFails, FallBack
  <2>2. CASE SendVia(s, h, "relay") \/ SendVia(s, h, "proxy")
    BY <1>2, <1>5, <2>2, SendStep DEF ConnectFails
  <2>3. CASE Join(s, h, "failed")
    BY <1>1, <1>5, <2>3, PeerJoinStep DEF ConnectFails, Turn
  <2> QED BY <2>1, <2>2, <2>3
<1>6. CASE PeerFails(s, h)
  BY <1>1, <1>6, PeerJoinStep DEF PeerFails, Waiting
<1> QED BY <1>3, <1>4, <1>5, <1>6

LEMMA TakeAnswerStep ==
    ASSUME IInv, NEW m \in net, TakeAnswer(m)
    PROVE  IInv'
<1>1. m \in MessageType /\ m.send \in Sends /\ m.host \in Peers
  BY DEF IInv, Typed, MessageType
<1>2. m.body # "request" /\ Awaited(m) /\ (m.body = "ok" => m.host \in good)
  BY DEF TakeAnswer, IInv, Messages
<1> DEFINE state == IF m.body \in {"error", "duplicate"} THEN "failed" ELSE m.body
<1>3. CASE Join(m.send, m.host, state)
  <2>1. state \in States /\ (state = "ok" => m.host \in good)
    BY <1>1, <1>2 DEF MessageType, Results, States
  <2> HIDE DEF state
  <2> QED BY <1>1, <1>2, <1>3, <2>1, PeerJoinStep DEF TakeAnswer, Awaited, Waiting
<1>4. CASE /\ m.via = "cloud"
           /\ leg' = [leg EXCEPT ![m.send][m.host] = "prefix"]
           /\ net' = (net \ {m}) \cup {Request(m.send, m.host, "prefix")}
           /\ UNCHANGED sub
  <2>1. m.host \in Cloud  BY <1>4 DEF IInv, Messages
  <2>2. "prefix" \in Waits /\ "prefix" # "cloud"  BY DEF Waits
  <2> QED BY <1>4, <2>1, <2>2, ResendStep DEF TakeAnswer
<1> QED BY <1>3, <1>4 DEF TakeAnswer

LEMMA HubRefusesStep ==
    ASSUME IInv, NEW m \in net, HubRefuses(m)
    PROVE  IInv'
<1>1. m \in MessageType /\ m.send \in Sends /\ m.host \in Peers /\ m.host \in Hosts
  BY HostFacts DEF IInv, Typed, MessageType
<1>2. m.body = "request"
      /\ UNCHANGED <<topologyVars, args, seen, accepted, runs, good, refusals, forgets>>
  BY DEF HubRefuses
<1>3. CASE ~Awaited(m)
  <2>1. net' = net \ {m} /\ UNCHANGED <<sub, leg>>  BY <1>3 DEF HubRefuses
  <2>2. Typed'  BY <1>2, <2>1 DEF IInv, Typed, TopologyTyped, topologyVars
  <2>3. RelaysSaved' /\ Tallies' /\ OneAsked'  BY <1>2, <2>1, SubKept DEF topologyVars
  <2>4. Messages'  BY <1>2, <2>1 DEF IInv, Messages, Awaited, Waiting
  <2>5. OneMessage' /\ InTurn'  BY <1>2, <2>1 DEF IInv, OneMessage, InTurn
  <2>6. Executions' /\ Claims' /\ Remembered' /\ Repeated'
    <3>1. \A t, g : Open(t, g)' => Open(t, g)  BY <2>1 DEF Open
    <3>2. \A t : Claimed(t)' <=> Claimed(t)  BY <2>1 DEF Claimed
    <3> QED BY <1>2, <2>1, <2>2, <3>1, <3>2, CountsKept
  <2> QED BY <2>2, <2>3, <2>4, <2>5, <2>6 DEF IInv
<1>4. CASE /\ Awaited(m)
           /\ sub' = [sub EXCEPT ![m.send] = Joined(m.send, m.host, "failed")]
           /\ leg' = [leg EXCEPT ![m.send][m.host] = "done"]
           /\ net' = net \ {m}
  <2>1. PICK s \in Sends, h \in Hosts : s = m.send /\ h = m.host  BY <1>1
  <2>2. /\ sub[s].st = "running" /\ h \in sub[s].todo
        /\ sub' = [sub EXCEPT ![s] = Joined(s, h, "failed")]
        /\ leg' = [leg EXCEPT ![s][h] = "done"]
        /\ net' \subseteq net
    BY <1>4, <2>1 DEF Awaited, Waiting
  <2>3. \A n \in net' : n.send = s /\ n.host = h => n.body = "request"
    BY <1>4, <2>1 DEF IInv, OneMessage
  <2>4. "failed" \in States  BY DEF States
  <2>5. /\ good \subseteq good' /\ good' \subseteq Hosts
        /\ "failed" = "ok" => h \in good'
    BY <1>2 DEF IInv, Typed
  <2>6. \/ runs' = runs
        \/ leg[s][h] = "idle" /\ runs' = [runs EXCEPT ![h] = @ + 1]
    BY <1>2
  <2>7. UNCHANGED <<topologyVars, args, seen, accepted, refusals, forgets>>  BY <1>2
  <2> QED BY <2>2, <2>3, <2>4, <2>5, <2>6, <2>7, JoinStep, Zenon
<1>5. CASE /\ leg' = [leg EXCEPT ![m.send][m.host] = "retry"]
           /\ net' = (net \ {m}) \cup {Request(m.send, m.host, "retry")}
           /\ UNCHANGED sub
  <2>1. "retry" \in Waits /\ "retry" # "prefix" /\ "retry" # "cloud"  BY DEF Waits
  <2> QED BY <1>2, <1>5, <2>1, ResendStep
<1> QED BY <1>3, <1>4, <1>5 DEF HubRefuses

\* All the hosts that are still out have failed.
LEMMA OverallTimeoutStep ==
    ASSUME IInv, NEW s \in Sends, OverallTimeout(s)
    PROVE  IInv'
<1> DEFINE T == {Status(h, "failed") : h \in sub[s].todo}
           bag == sub[s].statuses (+) SetToBag(T)
<1>1. Typed /\ sub[s] \in CallType /\ Tally(s) /\ sub[s].st = "running"
  BY DEF OverallTimeout, IInv, Typed, Tallies
<1>2. /\ net' = {m \in net : m.body = "request" \/ m.send # s}
      /\ UNCHANGED <<topologyVars, args, leg, seen, accepted, runs, good, refusals, forgets>>
  BY DEF OverallTimeout
<1>3. sub' = [sub EXCEPT ![s] = [sub[s] EXCEPT !.st = "answered", !.todo = {}, !.partial = TRUE,
                                              !.statuses = bag]]
  BY <1>1 DEF OverallTimeout, Typed
<1>4. T \in SUBSET StatusType /\ \A t \in T : t.host \in sub[s].todo /\ t.state = "failed"
  <2>1. \A h \in sub[s].todo : /\ Status(h, "failed") \in StatusType
                               /\ Status(h, "failed").host = h
                               /\ Status(h, "failed").state = "failed"
    BY <1>1 DEF CallType, StatusType, States, Status
  <2> QED BY <2>1
<1>5. {t.host : t \in T} = sub[s].todo
  <2>1. \A h \in sub[s].todo : Status(h, "failed").host = h  BY DEF Status
  <2>2. \A h \in sub[s].todo : \E t \in T : h = t.host  BY <2>1
  <2> QED BY <1>4, <2>2
<1>6. T \cap BagToSet(sub[s].statuses) = {}  BY <1>1, <1>4 DEF Tally, Told
<1> HIDE DEF T
<1>7. /\ bag \in StatusBags /\ BagToSet(bag) = BagToSet(sub[s].statuses) \cup T
      /\ \A t \in BagToSet(sub[s].statuses) : bag[t] = sub[s].statuses[t]
      /\ \A t \in T : bag[t] = 1
  BY <1>1, <1>4, <1>6, BagFacts, CallFacts
<1> HIDE DEF bag
<1>8. /\ sub'[s] \in CallType /\ sub'[s].st = "answered" /\ sub'[s].todo = {}
      /\ sub'[s].partial /\ sub'[s].statuses = bag /\ sub'[s].hits = sub[s].hits
  BY <1>1, <1>3, <1>7 DEF CallType, Typed
<1>9. \A t \in Sends \ {s} : sub'[t] = sub[t]  BY <1>1, <1>3 DEF Typed
<1>10. Typed'
  <2>1. sub' \in [Sends -> CallType]  BY <1>1, <1>3, <1>8 DEF Typed
  <2> QED BY <1>1, <1>2, <2>1 DEF Typed, TopologyTyped, topologyVars
<1>11. RelaysSaved' /\ OneAsked'  BY <1>2 DEF IInv, RelaysSaved, OneAsked, topologyVars
<1>12. Targets' = Targets  BY <1>2 DEF Targets
<1>13. Tally(s)'
  <2>1. Told(s)' = Told(s) \cup sub[s].todo  BY <1>5, <1>7, <1>8 DEF Told
  <2>2. Told(s)' \cup sub'[s].todo = Targets' /\ Told(s)' \cap sub'[s].todo = {}
    BY <1>1, <1>8, <1>12, <2>1 DEF Tally
  <2>3. \A t \in T : \A u \in BagToSet(sub[s].statuses) : t.host # u.host
    BY <1>1, <1>4 DEF Tally, Told
  <2>4. \A t, u \in T : t.host = u.host => t = u
    BY <1>4 DEF StatusType
  <2>5. \A t, u \in BagToSet(sub'[s].statuses) : t.host = u.host => t = u
    BY <1>1, <1>7, <1>8, <2>3, <2>4 DEF Tally
  <2>6. ASSUME NEW t \in BagToSet(sub'[s].statuses)
        PROVE  /\ sub'[s].statuses[t] = 1
               /\ t.state # "failed" => t.host \in sub'[s].hits
               /\ t.state = "ok" => t.host \in good'
    BY <1>1, <1>2, <1>4, <1>7, <1>8 DEF Tally
  <2> QED BY <1>8, <2>2, <2>5, <2>6 DEF Tally
<1>14. Tallies'
  <2> SUFFICES ASSUME NEW t \in Sends, t # s, sub'[t].st \in {"running", "answered"}
               PROVE  Tally(t)'
    BY <1>13 DEF Tallies
  <2>1. sub'[t] = sub[t] /\ Tally(t)  BY <1>9 DEF IInv, Tallies
  <2> QED BY <1>2, <1>12, <2>1 DEF Tally, Told
<1>15. \A m \in net : m.send \in Sends  BY <1>1 DEF Typed, MessageType
<1>16. Messages'
  <2> SUFFICES ASSUME NEW m \in net, m.body = "request" \/ m.send # s
               PROVE  /\ leg[m.send][m.host] # "idle"
                      /\ m.via \in {"cloud", "prefix"} => m.host \in Cloud
                      /\ m.body # "request" => Awaited(m)'
                      /\ m.body = "ok" => m.host \in good
    BY <1>2 DEF Messages
  <2>1. m.send # s => sub'[m.send] = sub[m.send]  BY <1>9, <1>15
  <2> QED BY <1>2, <2>1 DEF IInv, Messages, Awaited, Waiting
<1>17. OneMessage'  BY <1>2 DEF IInv, OneMessage
<1>18. InTurn'  BY <1>2, <1>8, <1>9 DEF IInv, InTurn
<1>19. Executions' /\ Claims' /\ Remembered' /\ Repeated'
  <2>1. \A t, g : Open(t, g)' => Open(t, g)  BY <1>2 DEF Open
  <2>2. \A t \in Sends : /\ sub[t].st \in {"running", "answered", "error"}
                            <=> sub'[t].st \in {"running", "answered", "error"}
                         /\ sub'[t].st # "new" <=> sub[t].st # "new"
    BY <1>1, <1>8, <1>9
  <2>3. \A t \in Sends : Claimed(t)' <=> Claimed(t)  BY <1>2, <2>2 DEF Claimed
  <2> QED BY <1>2, <1>10, <2>1, <2>2, <2>3, CountsKept
<1> QED BY <1>10, <1>11, <1>14, <1>16, <1>17, <1>18, <1>19 DEF IInv

\* A call before it is claimed.
LEMMA NewCallFacts == NewCall \in CallType /\ Delivered(NewCall) = NewCall
<1>1. EmptyBag \in StatusBags
  <2>1. EmptyBag = [e \in {} |-> 1]  BY DEF EmptyBag, SetToBag
  <2>2. EmptyBag \in [{} -> Nat \ {0}]  BY <2>1
  <2> QED BY <2>2 DEF StatusBags
<1> QED BY <1>1 DEF NewCall, CallType, Delivered

LEMMA SubmitStep ==
    ASSUME IInv, NEW s \in Sends, Submit(s)
    PROVE  IInv'
<1> DEFINE call == IF seen[Local] THEN [NewCall EXCEPT !.st = "refused"]
                   ELSE [NewCall EXCEPT !.st = "running", !.todo = Targets]
<1>1. Typed /\ sub[s].st = "new" /\ \A h \in Hosts : leg[s][h] = "idle"
  BY DEF Submit, IInv, InTurn
<1>2. /\ seen' = [seen EXCEPT ![Local] = TRUE]
      /\ accepted' = IF seen[Local] THEN accepted ELSE accepted + 1
      /\ UNCHANGED <<topologyVars, args, leg, net, runs, good, refusals, forgets>>
  BY DEF Submit
<1>3. sub' = [t \in Sends |-> IF t = s THEN call ELSE Delivered(sub[t])]  BY DEF Submit
<1>4. /\ call \in CallType /\ call.st = (IF seen[Local] THEN "refused" ELSE "running")
      /\ ~seen[Local] => call.todo = Targets /\ call.statuses = EmptyBag
  <2>1. Targets \subseteq Hosts  BY <1>1, TargetFacts
  <2>2. [NewCall EXCEPT !.st = "refused"] \in CallType
    BY NewCallFacts DEF CallType
  <2>3. [NewCall EXCEPT !.st = "running", !.todo = Targets] \in CallType
    BY <2>1, NewCallFacts DEF CallType
  <2>4. call \in CallType  BY <2>2, <2>3
  <2> QED BY <2>4 DEF NewCall
<1> HIDE DEF call
<1>5. ASSUME NEW t \in Sends \ {s}
      PROVE  /\ sub'[t] \in CallType
             /\ sub[t].st = "running" \/ sub'[t].st = "running" => sub'[t] = sub[t]
             /\ sub'[t].st # "answered" /\ sub'[t].st # "error"
             /\ sub'[t].st = "new" <=> sub[t].st = "new"
  <2>1. sub'[t] = Delivered(sub[t]) /\ sub[t] \in CallType  BY <1>1, <1>3 DEF Typed
  <2>2. CASE sub[t].st = "running"  BY <2>1, <2>2 DEF Delivered
  <2>3. CASE sub[t].st # "running"
    <3>1. sub'[t] = [NewCall EXCEPT !.st = IF sub[t].st = "new" THEN "new" ELSE "over"]
      BY <2>1, <2>3 DEF Delivered
    <3>2. sub'[t] \in CallType /\ sub'[t].st = IF sub[t].st = "new" THEN "new" ELSE "over"
      BY <3>1, NewCallFacts DEF CallType
    <3> QED BY <2>3, <3>2
  <2> QED BY <2>2, <2>3
<1>6. sub'[s] = call  BY <1>3
<1>7. Typed'
  <2>1. sub' \in [Sends -> CallType]  BY <1>3, <1>4, <1>5, <1>6
  <2>2. accepted' \in 0 .. 2
    <3>1. accepted <= Count(sub[1].st # "new") + Count(sub[2].st # "new")
      BY DEF IInv, Claims
    <3>2. Count(sub[1].st # "new") + Count(sub[2].st # "new") <= 1
      BY <1>1 DEF Count, Sends
    <3>3. accepted \in 0 .. 2  BY <1>1 DEF Typed
    <3>4. Count(sub[1].st # "new") + Count(sub[2].st # "new") \in 0 .. 2  BY DEF Count
    <3> QED BY <1>2, <3>1, <3>2, <3>3, <3>4
  <2>3. seen' \in [Hosts -> BOOLEAN]  BY <1>1, <1>2 DEF Typed
  <2> QED BY <1>1, <1>2, <2>1, <2>2, <2>3 DEF Typed, TopologyTyped, topologyVars
<1>8. RelaysSaved' /\ OneAsked' /\ Targets' = Targets /\ OneMessage'
  BY <1>2 DEF IInv, RelaysSaved, OneAsked, Targets, topologyVars, OneMessage
<1>9. Tallies'
  <2> SUFFICES ASSUME NEW t \in Sends, sub'[t].st \in {"running", "answered"}
               PROVE  Tally(t)'
    BY DEF Tallies
  <2>1. CASE t = s
    <3>1. sub'[s].st = "running" /\ sub'[s].todo = Targets /\ sub'[s].statuses = EmptyBag
      BY <1>4, <1>6, <2>1
    <3>2. BagToSet(sub'[s].statuses) = {}
      BY <3>1 DEF BagToSet, EmptyBag, SetToBag
    <3>3. Told(s)' = {}  BY <3>2 DEF Told
    <3> QED BY <1>8, <2>1, <3>1, <3>2, <3>3 DEF Tally
  <2>2. CASE t # s
    <3>1. sub'[t] = sub[t] /\ Tally(t)  BY <1>5, <2>2 DEF IInv, Tallies
    <3> QED BY <1>2, <1>8, <3>1 DEF Tally, Told
  <2> QED BY <2>1, <2>2
<1>10. Messages'
  <2> SUFFICES ASSUME NEW m \in net, m.body # "request" PROVE Awaited(m)'
    BY <1>2 DEF IInv, Messages
  <2>1. Awaited(m) /\ m.send \in Sends /\ m.host \in Hosts
    BY <1>1, HostFacts DEF IInv, Messages, Typed, MessageType
  <2>2. m.send # s /\ sub'[m.send] = sub[m.send]
    BY <1>1, <1>5, <2>1 DEF Awaited, Waiting
  <2> QED BY <1>2, <2>1, <2>2 DEF Awaited, Waiting
<1>11. InTurn'
  <2> SUFFICES ASSUME NEW t \in Sends
               PROVE  /\ sub'[t].st = "new" => \A h \in Hosts : leg[t][h] = "idle"
                      /\ sub'[t].st = "running" /\ args.tool \notin Fanned =>
                           \A g, h \in sub'[t].todo : leg[t][g] # "idle" => g <= h
    BY <1>2 DEF InTurn
  <2>1. CASE t = s
    <3>1. sub'[s].todo \subseteq Hosts  BY <1>4, <1>6 DEF CallType
    <3> QED BY <1>1, <2>1, <3>1
  <2>2. CASE t # s  BY <1>5, <2>2 DEF IInv, InTurn
  <2> QED BY <2>1, <2>2
<1>12. Executions'
  <2>1. \A t, g : Open(t, g)' <=> Open(t, g)  BY <1>2 DEF Open
  <2> QED BY <1>2, <2>1 DEF IInv, Executions, Count
<1>13. Claims'
  <2>1. accepted \in Nat  BY <1>1 DEF Typed
  <2>2. \A t \in Sends \ {s} : Claimed(t)' => Claimed(t)
    BY <1>2, <1>5 DEF Claimed
  <2>3. ~Claimed(s) /\ (Claimed(s)' => ~seen[Local]) /\ sub'[s].st # "new"
    BY <1>1, <1>2, <1>4, <1>6 DEF Claimed
  <2>4. CASE s = 1
    BY <1>1, <1>2, <1>5, <2>1, <2>2, <2>3, <2>4 DEF IInv, Claims, Count, Sends
  <2>5. CASE s = 2
    BY <1>1, <1>2, <1>5, <2>1, <2>2, <2>3, <2>5 DEF IInv, Claims, Count, Sends
  <2> QED BY <2>4, <2>5 DEF Sends
<1>14. Remembered'
  <2>1. \A g \in Peers : seen'[g] = seen[g]  BY <1>1, <1>2, HostFacts DEF Typed
  <2> QED BY <1>2, <2>1 DEF IInv, Remembered
<1>15. Repeated'
  <2>1. accepted \in Nat /\ accepted' >= accepted  BY <1>1, <1>2 DEF Typed
  <2> QED BY <1>2, <1>7, <2>1 DEF IInv, Repeated, Typed
<1> QED BY <1>7, <1>8, <1>9, <1>10, <1>11, <1>12, <1>13, <1>14, <1>15 DEF IInv

-----------------------------------------------------------------------------
(* The memory of ids, the topology, the start. *)

LEMMA ForgetStep ==
    ASSUME IInv, NEW h \in Hosts, Forget(h)
    PROVE  IInv'
<1>1. /\ forgets < MaxForgets /\ seen' = [seen EXCEPT ![h] = FALSE] /\ forgets' = forgets + 1
      /\ UNCHANGED <<topologyVars, args, sub, leg, net, accepted, runs, good, refusals>>
  BY DEF Forget
<1>2. Typed  BY DEF IInv
<1>3. Typed'
  <2>1. seen' \in [Hosts -> BOOLEAN]  BY <1>1, <1>2 DEF Typed
  <2>2. forgets' \in 0 .. MaxForgets  BY <1>1, <1>2, ForgetsAssumption DEF Typed
  <2> QED BY <1>1, <1>2, <2>1, <2>2 DEF Typed, TopologyTyped, topologyVars
<1>4. RelaysSaved' /\ Tallies' /\ OneAsked'  BY <1>1, SubKept DEF topologyVars
<1>5. Messages' /\ OneMessage' /\ InTurn'
  BY <1>1 DEF IInv, Messages, Awaited, Waiting, OneMessage, InTurn
<1>6. Executions' /\ Claims' /\ Repeated'
  BY <1>1 DEF IInv, Executions, Open, Count, Claims, Claimed, Repeated
<1>7. Remembered'
  <2>1. \A g \in Peers : seen'[g] => seen[g]  BY <1>1, <1>2, HostFacts DEF Typed
  <2> QED BY <1>1, <2>1 DEF IInv, Remembered
<1> QED BY <1>3, <1>4, <1>5, <1>6, <1>7 DEF IInv

\* What is learnt anew never lacks a relay that the cache has.
LEMMA FreshFacts ==
    ASSUME cache \in [Peers -> SUBSET Routes], NEW fresh \in Fresh \cup {cache}
    PROVE  /\ fresh \in [Peers -> SUBSET Routes]
           /\ \A p \in Peers : "relay" \in cache[p] => "relay" \in fresh[p]
<1>1. CASE fresh = cache  BY <1>1
<1>2. CASE fresh \in Fresh
  <2>1. PICK projected \in SUBSET Listed, registered \in SUBSET Listed :
          fresh = Merged(Provided(projected, registered))
    BY <1>2 DEF Fresh
  <2> DEFINE provided == Provided(projected, registered)
  <2>2. \A p \in Peers : provided[p] \subseteq Routes  BY DEF Provided
  <2>3. fresh = [p \in Peers |-> IF "relay" \notin cache[p] THEN provided[p]
                                 ELSE IF provided[p] = {} THEN cache[p]
                                 ELSE provided[p] \cup {"relay"}]
    BY <2>1 DEF Merged
  <2> HIDE DEF provided
  <2> QED BY <2>2, <2>3 DEF Routes
<1> QED BY <1>1, <1>2

LEMMA RetainedFacts ==
    ASSUME NEW fresh \in [Peers -> SUBSET Routes], NEW old \in [Peers -> SUBSET Routes]
    PROVE  /\ Retained(fresh, old) \in [Peers -> SUBSET Routes]
           /\ \A p \in Peers : "relay" \in Retained(fresh, old)[p]
                                 <=> "relay" \in fresh[p] \/ "relay" \in old[p]
<1>1. \A p \in Peers : Retained(fresh, old)[p] =
         IF fresh[p] = {} THEN old[p] ELSE fresh[p] \cup (old[p] \cap {"relay", "proxy"})
  BY DEF Retained
<1>2. Retained(fresh, old) \in [Peers -> SUBSET Routes]  BY DEF Retained, Routes
<1> QED BY <1>1, <1>2

\* A refresh of the topology keeps every relay, in memory and on disk.
LEMMA RefreshFacts ==
    ASSUME TopologyTyped, RelaysSaved, RefreshTopology
    PROVE  /\ TopologyTyped' /\ RelaysSaved'
           /\ \A p \in Peers : "relay" \in known[p] => "relay" \in known'[p]
<1>1. PICK fresh \in Fresh : Saved(fresh) /\ known' = Retained(fresh, known)
  BY DEF RefreshTopology
<1>2. /\ fresh \in [Peers -> SUBSET Routes]
      /\ \A p \in Peers : "relay" \in cache[p] => "relay" \in fresh[p]
  BY FreshFacts DEF TopologyTyped
<1>3. /\ known' \in [Peers -> SUBSET Routes]
      /\ \A p \in Peers : "relay" \in known'[p] <=> "relay" \in fresh[p] \/ "relay" \in known[p]
  BY <1>1, <1>2, RetainedFacts DEF TopologyTyped
<1>4. cache' = fresh /\ refreshes' \in 0 .. MaxRefreshes
  BY <1>1, RefreshesAssumption DEF Saved, TopologyTyped
<1> QED BY <1>2, <1>3, <1>4 DEF TopologyTyped, RelaysSaved

\* So does a restart: what it starts from is at least what is on disk.
LEMMA StartFacts ==
    ASSUME TopologyTyped, RelaysSaved, StartTopology
    PROVE  /\ TopologyTyped' /\ RelaysSaved'
           /\ \A p \in Peers : "relay" \in known[p] => "relay" \in known'[p]
<1>1. PICK start \in Fresh \cup {cache}, dropped \in SUBSET Listed :
        /\ \/ start \in Fresh /\ Saved(start)
           \/ start = cache /\ UNCHANGED <<cache, refreshes>>
        /\ known' = [p \in Peers |-> IF p \in dropped /\ start[p] # {}
                                     THEN Retained(start, Static)[p] \ {"proxy"}
                                     ELSE Retained(start, Static)[p]]
  BY DEF StartTopology
<1>2. /\ start \in [Peers -> SUBSET Routes]
      /\ \A p \in Peers : "relay" \in cache[p] => "relay" \in start[p]
  BY FreshFacts DEF TopologyTyped
<1> DEFINE retained == Retained(start, Static)
<1>3. /\ retained \in [Peers -> SUBSET Routes]
      /\ \A p \in Peers : "relay" \in retained[p] <=> "relay" \in start[p] \/ "relay" \in Static[p]
  BY <1>2, StaticAssumption, RetainedFacts
<1> HIDE DEF retained
<1>4. known' = [p \in Peers |-> IF p \in dropped /\ start[p] # {}
                                THEN retained[p] \ {"proxy"} ELSE retained[p]]
  BY <1>1 DEF retained
<1>5. known' \in [Peers -> SUBSET Routes]  BY <1>3, <1>4
<1>6. \A p \in Peers : "relay" \in known'[p] <=> "relay" \in start[p] \/ "relay" \in Static[p]
  BY <1>3, <1>4
<1>7. cache' = start /\ refreshes' \in 0 .. MaxRefreshes
  BY <1>1, RefreshesAssumption DEF Saved, TopologyTyped
<1> QED BY <1>2, <1>5, <1>6, <1>7 DEF TopologyTyped, RelaysSaved

LEMMA RestartStep ==
    ASSUME IInv, Restart
    PROVE  IInv'
<1> DEFINE ended(s) == [sub[s] EXCEPT !.st = "error", !.todo = {}]
<1>1. /\ forgets < MaxForgets /\ forgets' = forgets + 1
      /\ StartTopology
      /\ sub' = [s \in Sends |-> IF sub[s].st = "running" THEN ended(s) ELSE sub[s]]
      /\ seen' = [seen EXCEPT ![Local] = FALSE] /\ net' = {m \in net : m.body = "request"}
      /\ UNCHANGED <<args, leg, accepted, runs, good, refusals>>
  BY DEF Restart
<1>2. Typed /\ TopologyTyped /\ RelaysSaved  BY DEF IInv, Typed
<1>3. TopologyTyped' /\ RelaysSaved'  BY <1>1, <1>2, StartFacts
<1>4. ASSUME NEW s \in Sends
      PROVE  /\ sub'[s] \in CallType /\ sub'[s].st # "running"
             /\ sub[s].st # "running" => sub'[s] = sub[s]
             /\ sub[s].st = "running" => sub'[s].st = "error"
  <2>1. sub[s] \in CallType  BY <1>2 DEF Typed
  <2>2. ended(s) \in CallType /\ ended(s).st = "error"  BY <2>1, FailedFacts
  <2> HIDE DEF ended
  <2>3. sub'[s] = IF sub[s].st = "running" THEN ended(s) ELSE sub[s]  BY <1>1
  <2> QED BY <2>1, <2>2, <2>3
<1>5. Typed'
  <2>1. sub' \in [Sends -> CallType]
    <3>1. sub' = [s \in Sends |-> sub'[s]]  BY <1>1
    <3> QED BY <1>4, <3>1
  <2>2. seen' \in [Hosts -> BOOLEAN]  BY <1>1, <1>2 DEF Typed
  <2>3. forgets' \in 0 .. MaxForgets
    <3>1. forgets \in 0 .. MaxForgets  BY <1>2 DEF Typed
    <3> HIDE DEF ended
    <3> QED BY <1>1, <3>1, ForgetsAssumption
  <2> QED BY <1>1, <1>2, <1>3, <2>1, <2>2, <2>3 DEF Typed
<1>6. Tallies'
  <2>1. Targets' = Targets  BY <1>1 DEF Targets
  <2> SUFFICES ASSUME NEW s \in Sends, sub'[s].st \in {"running", "answered"}
               PROVE  Tally(s)'
    BY DEF Tallies
  <2>2. sub'[s] = sub[s] /\ Tally(s)  BY <1>4 DEF IInv, Tallies
  <2> QED BY <1>1, <2>1, <2>2 DEF Tally, Told
<1>7. Messages' /\ OneMessage' /\ OneAsked'
  BY <1>1 DEF IInv, Messages, OneMessage, OneAsked
<1>8. InTurn'  BY <1>1, <1>4 DEF IInv, InTurn
<1>9. Executions'
  <2>1. \A t, g : Open(t, g)' <=> Open(t, g)  BY <1>1 DEF Open
  <2> QED BY <1>1, <2>1 DEF IInv, Executions, Count
<1>10. Claims' /\ Repeated'
  <2>1. \A s \in Sends : Claimed(s)' <=> Claimed(s)  BY <1>1, <1>4 DEF Claimed
  <2>2. \A s \in Sends : sub'[s].st # "new" <=> sub[s].st # "new"  BY <1>4
  <2> QED BY <1>1, <2>1, <2>2 DEF IInv, Claims, Count, Sends, Repeated
<1>11. Remembered'
  <2>1. \A g \in Peers : seen'[g] = seen[g]  BY <1>1, <1>2, HostFacts DEF Typed
  <2> QED BY <1>1, <2>1 DEF IInv, Remembered
<1> QED BY <1>3, <1>5, <1>6, <1>7, <1>8, <1>9, <1>10, <1>11 DEF IInv

LEMMA NextIInv == IInv /\ [Next]_vars => IInv'
<1> SUFFICES ASSUME IInv, [Next]_vars PROVE IInv'  OBVIOUS
<1>1. CASE \E s \in Sends : Call(s)
  BY <1>1, SubmitStep, AskLocalStep, OverallTimeoutStep, AskPeerSteps DEF Call
<1>2. CASE \E m \in net : TakeAnswer(m) \/ HubRefuses(m) \/ HandleDuplicate(m) \/ HandleRequest(m)
  BY <1>2, TakeAnswerStep, HubRefusesStep, HandleDuplicateStep, HandleRequestStep
<1>3. CASE \E h \in Hosts : Forget(h)  BY <1>3, ForgetStep
<1>4. CASE Refresh
  <2>1. RefreshTopology /\ UNCHANGED requestVars  BY <1>4 DEF Refresh
  <2>2. TopologyTyped' /\ RelaysSaved'  BY <2>1, RefreshFacts DEF IInv, Typed
  <2>3. Typed'  BY <2>1, <2>2 DEF IInv, Typed, requestVars
  <2>4. Tallies' /\ OneAsked'
    BY <2>1 DEF IInv, Tallies, Tally, Told, Targets, OneAsked, requestVars
  <2>5. Messages' /\ OneMessage' /\ InTurn'
    BY <2>1 DEF IInv, Messages, Awaited, Waiting, OneMessage, InTurn, requestVars
  <2>6. Executions' /\ Claims' /\ Remembered' /\ Repeated'
    BY <2>1 DEF IInv, Executions, Open, Count, Claims, Claimed, Remembered, Repeated, requestVars
  <2> QED BY <2>2, <2>3, <2>4, <2>5, <2>6 DEF IInv
<1>5. CASE Restart  BY <1>5, RestartStep
<1>6. CASE UNCHANGED vars
  <2>1. UNCHANGED topologyVars /\ UNCHANGED requestVars  BY <1>6 DEF vars
  <2>2. Typed' /\ RelaysSaved'
    BY <2>1 DEF IInv, Typed, TopologyTyped, RelaysSaved, topologyVars, requestVars
  <2>3. Tallies' /\ OneAsked'
    BY <2>1 DEF IInv, Tallies, Tally, Told, Targets, OneAsked, requestVars
  <2>4. Messages' /\ OneMessage' /\ InTurn'
    BY <2>1 DEF IInv, Messages, Awaited, Waiting, OneMessage, InTurn, requestVars
  <2>5. Executions' /\ Claims' /\ Remembered' /\ Repeated'
    BY <2>1 DEF IInv, Executions, Open, Count, Claims, Claimed, Remembered, Repeated, requestVars
  <2> QED BY <2>2, <2>3, <2>4, <2>5 DEF IInv
<1> QED BY <1>1, <1>2, <1>3, <1>4, <1>5, <1>6 DEF Next

LEMMA InitIInv == Init => IInv
<1> SUFFICES ASSUME Init PROVE IInv  OBVIOUS
<1>1. TopologyTyped /\ RelaysSaved
  <2>1. TopologyInit  BY DEF Init
  <2>2. cache \in [Peers -> SUBSET Routes]  BY <2>1 DEF TopologyInit, Routes
  <2>3. known = Retained(cache, Static) /\ refreshes = 0  BY <2>1 DEF TopologyInit
  <2> QED BY <2>2, <2>3, StaticAssumption, RefreshesAssumption, RetainedFacts
          DEF TopologyTyped, RelaysSaved
<1>2. /\ sub = [s \in Sends |-> NewCall] /\ leg = [s \in Sends |-> [h \in Hosts |-> "idle"]]
      /\ net = {} /\ seen = [h \in Hosts |-> FALSE]
      /\ accepted = 0 /\ runs = [h \in Hosts |-> 0] /\ good = {} /\ refusals = {} /\ forgets = 0
      /\ args \in [tool : Tools, asked : SUBSET Hosts, acl : BOOLEAN]
  BY DEF Init
<1>3. \A s \in Sends : sub[s] \in CallType /\ sub[s].st = "new"
  BY <1>2, NewCallFacts DEF NewCall
<1>4. Typed
  <2>1. sub \in [Sends -> CallType]  BY <1>2, <1>3
  <2>2. leg \in [Sends -> [Hosts -> {"idle", "done"} \cup Waits]]  BY <1>2
  <2> QED BY <1>1, <1>2, <2>1, <2>2, ForgetsAssumption DEF Typed
<1>5. Tallies /\ Messages /\ OneMessage /\ InTurn
  BY <1>2, <1>3 DEF Tallies, Messages, OneMessage, InTurn
<1>6. OneAsked
  <2> SUFFICES ASSUME args.tool \in Single, NEW g \in args.asked, NEW h \in args.asked, g # h
               PROVE  FALSE
    BY DEF OneAsked
  <2>1. Cardinality(args.asked) <= 1  BY DEF Init
  <2>2. IsFiniteSet(args.asked)
    <3>1. IsFiniteSet(Hosts)  BY PeersAssumption, FS_AddElement DEF Hosts
    <3> QED BY <1>2, <3>1, FS_Subset
  <2>3. Cardinality({g}) = 1 /\ IsFiniteSet({g})  BY FS_Singleton
  <2>4. Cardinality({g} \cup {h}) = 2 /\ IsFiniteSet({g} \cup {h})
    <3>1. h \notin {g}  OBVIOUS
    <3>2. Cardinality({g} \cup {h}) = Cardinality({g}) + 1 /\ IsFiniteSet({g} \cup {h})
      BY <2>3, <3>1, FS_AddElement
    <3> QED BY <2>3, <3>2
  <2>5. {g} \cup {h} \in SUBSET args.asked  OBVIOUS
  <2>6. Cardinality({g} \cup {h}) <= Cardinality(args.asked)  BY <2>2, <2>5, FS_Subset
  <2>7. Cardinality(args.asked) \in Nat  BY <2>2, FS_CardinalityType
  <2> QED BY <2>1, <2>4, <2>6, <2>7
<1>7. Executions /\ Claims /\ Remembered /\ Repeated
  <2>1. \A s, h : ~Open(s, h)  BY <1>2 DEF Open
  <2>2. \A s \in Sends : ~Claimed(s)  BY <1>2, <1>3 DEF Claimed
  <2>3. \A h \in Hosts : leg[1][h] = "idle" /\ leg[2][h] = "idle" /\ runs[h] = 0
    BY <1>2 DEF Sends
  <2>4. Executions  BY <2>1, <2>3 DEF Executions, Count
  <2>5. Claims  BY <1>2, <1>3, <2>2 DEF Claims, Count, Sends
  <2>6. Remembered  BY <1>2, HostFacts DEF Remembered
  <2> QED BY <1>2, <2>4, <2>5, <2>6 DEF Repeated
<1> QED BY <1>1, <1>4, <1>5, <1>6, <1>7 DEF IInv

-----------------------------------------------------------------------------
(* The theorems. *)

\* The inductive invariant holds of every behaviour of the asked node, its peers
\* and the hub (mcp.rs, gptadmin.rs).
THEOREM Invariance == Spec => []IInv
<1>1. Init => IInv  BY InitIInv
<1>2. IInv /\ [Next]_vars => IInv'  BY NextIInv
<1> QED BY <1>1, <1>2, PTL DEF Spec

\* An answer of the mesh has one status of every host, and one that does not call
\* itself partial has the complete results of every host (run_search and the other
\* tools of mcp.rs), however answers, failures, refusals and timeouts fall together.
THEOREM HonestAnswerHolds == Spec => []HonestAnswer
<1>1. IInv => HonestAnswer
  <2> SUFFICES ASSUME IInv PROVE HonestAnswer  OBVIOUS
  <2>1. TypeOK  BY TypedTypeOK DEF IInv
  <2>2. \A s \in Sends : sub[s].st = "answered" => Tally(s)  BY DEF IInv, Tallies
  <2>3. OneStatusEach  BY <2>2 DEF OneStatusEach, Tally
  <2>4. ASSUME NEW s \in Sends, sub[s].st = "answered", ~sub[s].partial
        PROVE  args.asked \subseteq sub[s].hits /\ args.asked \subseteq good
    <3>1. Tally(s) /\ Told(s) = Targets /\ args.asked \subseteq Targets
      BY <2>2, <2>4, TargetFacts DEF IInv, Tally
    <3> QED BY <2>4, <3>1 DEF Tally, Told
  <2> QED BY <2>1, <2>3, <2>4 DEF HonestAnswer
<1> QED BY <1>1, Invariance, PTL

\* No host executes a request more often than a client's call was accepted, though
\* calls are repeated over the relay and outlive their sender, and nothing but a
\* client's repeat is refused as a duplicate (claim_request).
THEOREM AtMostOnceHolds == Spec => []AtMostOnce
<1>1. IInv => AtMostOnce
  <2> SUFFICES ASSUME IInv PROVE AtMostOnce  OBVIOUS
  <2>1. ASSUME NEW h \in Hosts \ Cloud PROVE runs[h] <= accepted
    <3>1. runs[h] + Count(Open(1, h)) + Count(Open(2, h))
              <= Count(leg[1][h] # "idle") + Count(leg[2][h] # "idle")
      BY DEF IInv, Executions
    <3>2. Count(Claimed(1)) + Count(Claimed(2)) <= accepted  BY DEF IInv, Claims
    <3>3. \A s \in Sends : leg[s][h] # "idle" => Claimed(s)  BY DEF Claimed
    <3>4. runs[h] \in Nat /\ accepted \in Nat  BY DEF IInv, Typed
    <3> QED BY <3>1, <3>2, <3>3, <3>4 DEF Count, Sends
  <2> QED BY <2>1 DEF AtMostOnce, IInv, Repeated
<1> QED BY <1>1, Invariance, PTL

\* A relay that was once learnt is never lost, by a refresh that the host did not
\* answer or by a restart (replace_topology, refresh_cache).
THEOREM RelayKeptHolds == Spec => RelayKept
<1>1. IInv /\ [Next]_vars => [\A p \in Peers : "relay" \in known[p] => "relay" \in known'[p]]_topologyVars
  <2> SUFFICES ASSUME IInv, [Next]_vars, ~UNCHANGED topologyVars
               PROVE  \A p \in Peers : "relay" \in known[p] => "relay" \in known'[p]
    OBVIOUS
  <2>1. RefreshTopology \/ StartTopology
    BY DEF Next, Call, vars, Submit, AskLocal, OverallTimeout, AskNobody, AskPeer,
           ConnectFails, PeerFails, TakeAnswer, HubRefuses, HandleDuplicate,
           HandleRequest, Forget, Refresh, Restart
  <2> QED BY <2>1, RefreshFacts, StartFacts DEF IInv, Typed
<1> QED BY <1>1, Invariance, PTL DEF Spec, RelayKept
=============================================================================
