---------------------------- MODULE MeshRequest ----------------------------
(***************************************************************************)
(* A tool call on the mesh (mcp.rs): the node that a client asks claims   *)
(* the request id, asks itself and its peers, in parallel or one after    *)
(* the other, over the signed cloud route, directly, through the hub or a *)
(* local proxy, and merges answers, failures and timeouts into one        *)
(* answer.  A client may send the same request again.                     *)
(***************************************************************************)
EXTENDS MeshTopology, Bags

CONSTANTS
    Cloud,         \* peers behind a signed cloud route (cloud_transport.rs)
    Tools,         \* the tools under test
    MaxAsked,      \* bound on the hosts of a request
    MaxForgets     \* bound on request ids that leave a node's memory

Local == 0
Hosts == Peers \cup {Local}
Sends == {1, 2}                         \* the client's first call and its repeat
Fanned == {"search", "paths"}           \* all hosts at once, under one deadline
Visited == {"duplicates", "locations", "status"}    \* one host after the other
Single == {"read", "directory"}         \* one host, its error is the call's error

ASSUME CloudAssumption == Cloud \subseteq Peers
ASSUME ToolsAssumption == Tools \subseteq Fanned \cup Visited \cup Single
ASSUME ForgetsAssumption == MaxForgets \in Nat

VARIABLES
    args,          \* what the request asks: its tool, its hosts, whether it has an ACL
    sub,           \* [Sends -> the state of one call at the asked node]
    leg,           \* [Sends -> [Hosts -> where the call to that host is]]
    net,           \* requests and answers under way
    seen,          \* [Hosts -> BOOLEAN]: the host remembers the request id
    accepted,      \* history: calls whose id was claimed
    runs,          \* history: [Hosts -> how often the host executed the request]
    good,          \* history: hosts that executed it completely
    refusals,      \* history: hosts that refused it as a duplicate
    forgets

requestVars == <<args, sub, leg, net, seen, accepted, runs, good, refusals, forgets>>
vars == <<topologyVars, requestVars>>

Waits == {"direct", "relay", "retry", "proxy", "cloud", "prefix"}
Results == {"ok", "partial", "error"}
States == {"ok", "partial", "failed"}
NewCall == [st |-> "new", todo |-> {}, statuses |-> EmptyBag, hits |-> {}, partial |-> FALSE]

TypeOK ==
    /\ TopologyTyped
    /\ args \in [tool : Tools, asked : SUBSET Hosts, acl : BOOLEAN]
    /\ \A s \in Sends :
        /\ sub[s].st \in {"new", "running", "answered", "error", "refused", "over"}
        /\ sub[s].todo \in SUBSET Hosts /\ sub[s].hits \in SUBSET Hosts
        /\ sub[s].partial \in BOOLEAN
        /\ IsABag(sub[s].statuses)
        /\ BagToSet(sub[s].statuses) \subseteq [host : Hosts, state : States]
    /\ leg \in [Sends -> [Hosts -> {"idle", "done"} \cup Waits]]
    /\ \A m \in net : m \in [send : Sends, host : Peers, via : Waits,
                             body : {"request", "duplicate"} \cup Results]
    /\ seen \in [Hosts -> BOOLEAN] /\ accepted \in 0 .. 2
    /\ runs \in [Hosts -> Nat] /\ good \in SUBSET Hosts /\ refusals \in SUBSET Hosts
    /\ forgets \in 0 .. MaxForgets

Init ==
    /\ TopologyInit
    /\ args \in [tool : Tools, asked : SUBSET Hosts \ {{}}, acl : BOOLEAN]
    /\ Cardinality(args.asked) <= IF args.tool \in Single THEN 1 ELSE MaxAsked
    /\ args.acl => args.tool \in {"search", "read"}
    /\ sub = [s \in Sends |-> NewCall] /\ leg = [s \in Sends |-> [h \in Hosts |-> "idle"]]
    /\ net = {} /\ seen = [h \in Hosts |-> FALSE]
    /\ accepted = 0 /\ runs = [h \in Hosts |-> 0] /\ good = {} /\ refusals = {} /\ forgets = 0
-----------------------------------------------------------------------------
(* The asked node. *)

\* What executing the tool can end in.
Outcomes ==
    CASE args.tool \in {"search", "paths", "duplicates"} -> Results
      [] args.tool \in {"read", "directory", "status"} -> {"ok", "error"}
      [] OTHER -> {"ok"}

\* search_status reports the node itself whether it is asked or not.
Targets == args.asked \cup (IF args.tool = "status" THEN {Local} ELSE {})

\* What is left of an answer that has been delivered.
Delivered(c) == IF c.st = "running" THEN c ELSE [NewCall EXCEPT !.st = IF c.st = "new" THEN "new" ELSE "over"]

\* claim_request: a call whose id is remembered is refused, any other one starts.
Submit(s) ==
    /\ sub[s].st = "new" /\ (s = 2 => sub[1].st # "new")
    /\ LET call == IF seen[Local] THEN [NewCall EXCEPT !.st = "refused"]
                   ELSE [NewCall EXCEPT !.st = "running", !.todo = Targets]
       IN  sub' = [t \in Sends |-> IF t = s THEN call ELSE Delivered(sub[t])]
    /\ seen' = [seen EXCEPT ![Local] = TRUE]
    /\ accepted' = IF seen[Local] THEN accepted ELSE accepted + 1
    /\ UNCHANGED <<topologyVars, args, leg, net, runs, good, refusals, forgets>>

Status(h, state) == [host |-> h, state |-> state]

\* Mutant: a partial host does not make the answer partial.
JoinedForgivingly(s, h, state) ==
    [st |-> IF sub[s].todo = {h} THEN "answered" ELSE "running",
     todo |-> sub[s].todo \ {h},
     statuses |-> sub[s].statuses (+) SetToBag({Status(h, state)}),
     hits |-> IF state = "failed" THEN sub[s].hits ELSE sub[s].hits \cup {h},
     partial |-> sub[s].partial \/ state = "failed"]

\* The call of h has ended in state: its status, the flag and the hits are merged,
\* and the answer is complete when nobody is left.  A single read has no status
\* of a failure, the call itself fails.
Joined(s, h, state) ==
    IF state = "failed" /\ (args.tool \in Single \/ (args.tool = "status" /\ h = Local))
    THEN [sub[s] EXCEPT !.st = "error", !.todo = {}]
    ELSE [st |-> IF sub[s].todo = {h} THEN "answered" ELSE "running",
          todo |-> sub[s].todo \ {h},
          statuses |-> sub[s].statuses (+) SetToBag({Status(h, state)}),
          hits |-> IF state = "failed" THEN sub[s].hits ELSE sub[s].hits \cup {h},
          partial |-> sub[s].partial \/ state # "ok"]

\* The answers of h that nobody will read go with it; a request may still arrive.
Join(s, h, state) ==
    /\ sub' = [sub EXCEPT ![s] = Joined(s, h, state)]
    /\ leg' = [leg EXCEPT ![s][h] = "done"]
    /\ net' = {m \in net : m.body = "request" \/ m.send # s \/ m.host # h}

\* Whose turn it is: every host's at once, or the first one's.
Turn(s, h) ==
    /\ sub[s].st = "running" /\ h \in sub[s].todo /\ leg[s][h] = "idle"
    /\ args.tool \notin Fanned => \A g \in sub[s].todo : h <= g

AskLocal(s) ==
    /\ Turn(s, Local)
    /\ \E o \in Outcomes :
        /\ Join(s, Local, IF o = "error" THEN "failed" ELSE o)
        /\ good' = IF o = "ok" THEN good \cup {Local} ELSE good
    /\ runs' = [runs EXCEPT ![Local] = @ + 1]
    /\ UNCHANGED <<topologyVars, args, seen, accepted, refusals, forgets>>

\* A peer is not asked at all: a search without an ACL reports it as partial, an
\* unknown host and an operation the cloud route does not have as failed.
NeedsAcl == args.tool \in {"search", "read"} /\ ~args.acl
CloudTools == {"search", "read", "locations", "status"}

AskNobody(s, h) ==
    /\ Turn(s, h)
    /\ \/ NeedsAcl /\ Join(s, h, IF args.tool = "search" THEN "partial" ELSE "failed")
       \/ ~NeedsAcl /\ known[h] = {} /\ Join(s, h, "failed")
       \/ ~NeedsAcl /\ h \in Cloud /\ args.tool \notin CloudTools /\ Join(s, h, "failed")
    /\ UNCHANGED <<topologyVars, args, seen, accepted, runs, good, refusals, forgets>>

Request(s, h, via) == [send |-> s, host |-> h, via |-> via, body |-> "request"]

SendVia(s, h, via) ==
    /\ leg' = [leg EXCEPT ![s][h] = via]
    /\ net' = net \cup {Request(s, h, via)}
    /\ UNCHANGED sub

\* call_remote: the cloud route alone, a relay where there is no address, or the address.
AskPeer(s, h) ==
    /\ Turn(s, h) /\ ~NeedsAcl /\ known[h] # {}
    /\ IF h \in Cloud THEN args.tool \in CloudTools /\ SendVia(s, h, "cloud")
       ELSE IF "direct" \in known[h] THEN SendVia(s, h, "direct")
       ELSE "relay" \in known[h] /\ SendVia(s, h, "relay")
    /\ UNCHANGED <<topologyVars, args, seen, accepted, runs, good, refusals, forgets>>

\* The peer's address cannot be connected to: the relay, else the proxy.
FallBack(s, h) ==
    IF "relay" \in known[h] THEN SendVia(s, h, "relay")
    ELSE IF "proxy" \in known[h] THEN SendVia(s, h, "proxy")
    ELSE Join(s, h, "failed")

ConnectFails(s, h) ==
    /\ Turn(s, h) /\ ~NeedsAcl /\ h \notin Cloud /\ "direct" \in known[h]
    /\ FallBack(s, h)
    /\ UNCHANGED <<topologyVars, args, seen, accepted, runs, good, refusals, forgets>>

Waiting(s, h) == sub[s].st = "running" /\ h \in sub[s].todo /\ leg[s][h] \in Waits
Awaited(m) == Waiting(m.send, m.host) /\ leg[m.send][m.host] = m.via

\* Mutant: any failed direct call is tried again another way.
PeerFailsThenFallsBack(s, h) ==
    /\ Waiting(s, h)
    /\ IF leg[s][h] = "direct" THEN FallBack(s, h) ELSE Join(s, h, "failed")
    /\ UNCHANGED <<topologyVars, args, seen, accepted, runs, good, refusals, forgets>>

\* Mutant: only the overall deadline bounds a peer's call.
PeerFailsUnderDeadline(s, h) ==
    /\ Waiting(s, h) /\ args.tool \in Fanned
    /\ Join(s, h, "failed")
    /\ UNCHANGED <<topologyVars, args, seen, accepted, runs, good, refusals, forgets>>

\* The call times out or breaks: the outcome is unknown, so nothing is repeated.
PeerFails(s, h) ==
    /\ Waiting(s, h)
    /\ Join(s, h, "failed")
    /\ UNCHANGED <<topologyVars, args, seen, accepted, runs, good, refusals, forgets>>

\* join_hosts_with_timeout gives up on every host that is still out.
OverallTimeout(s) ==
    /\ sub[s].st = "running" /\ args.tool \in Fanned
    /\ sub' = [sub EXCEPT ![s] =
        [sub[s] EXCEPT !.st = "answered", !.todo = {}, !.partial = TRUE,
                       !.statuses = @ (+) SetToBag({Status(h, "failed") : h \in sub[s].todo})]]
    /\ net' = {m \in net : m.body = "request" \/ m.send # s}
    /\ UNCHANGED <<topologyVars, args, leg, seen, accepted, runs, good, refusals, forgets>>

\* An answer arrives at the call that waits for it: the cloud route repeats a read
\* whose text was too long as a prefix read.
TakeAnswer(m) ==
    /\ m.body # "request"
    /\ \/ Join(m.send, m.host, IF m.body \in {"error", "duplicate"} THEN "failed" ELSE m.body)
       \/ /\ m.via = "cloud" /\ args.tool = "read" /\ m.body = "ok"
          /\ leg' = [leg EXCEPT ![m.send][m.host] = "prefix"]
          /\ net' = (net \ {m}) \cup {Request(m.send, m.host, "prefix")}
          /\ UNCHANGED sub
    /\ UNCHANGED <<topologyVars, args, seen, accepted, runs, good, refusals, forgets>>
-----------------------------------------------------------------------------
(* The hub and the peers. *)

\* The hub refuses a relayed call for its missing instructions.  Only when it says
\* that the child was not contacted is the call repeated, and only once.
HubRefuses(m) ==
    /\ m.body = "request" /\ m.via \in {"relay", "retry"}
    /\ IF ~Awaited(m)
       THEN net' = net \ {m} /\ UNCHANGED <<sub, leg>>
       ELSE \/ /\ sub' = [sub EXCEPT ![m.send] = Joined(m.send, m.host, "failed")]
               /\ leg' = [leg EXCEPT ![m.send][m.host] = "done"]
               /\ net' = net \ {m}
            \/ /\ m.via = "relay"
               /\ leg' = [leg EXCEPT ![m.send][m.host] = "retry"]
               /\ net' = (net \ {m}) \cup {Request(m.send, m.host, "retry")}
               /\ UNCHANGED sub
    /\ UNCHANGED <<topologyVars, args, seen, accepted, runs, good, refusals, forgets>>

Answer(m, body) ==
    net' = (net \ {m}) \cup (IF Awaited(m) THEN {[m EXCEPT !.body = body]} ELSE {})

\* A peer handles a forwarded call: for itself alone, once while it remembers the
\* id.  The cloud readers keep no ids.
HandleDuplicate(m) ==
    /\ m.body = "request" /\ m.host \notin Cloud /\ seen[m.host]
    /\ Answer(m, "duplicate") /\ refusals' = refusals \cup {m.host}
    /\ UNCHANGED <<topologyVars, args, sub, leg, seen, accepted, runs, good, forgets>>

HandleRequest(m) ==
    /\ m.body = "request" /\ (m.host \in Cloud \/ ~seen[m.host])
    /\ \E o \in Outcomes :
        /\ Answer(m, o)
        /\ good' = IF o = "ok" THEN good \cup {m.host} ELSE good
    /\ seen' = [seen EXCEPT ![m.host] = m.host \notin Cloud]
    /\ runs' = [runs EXCEPT ![m.host] = @ + 1]
    /\ UNCHANGED <<topologyVars, args, sub, leg, accepted, refusals, forgets>>

\* Sixty seconds have passed, or 4096 newer ids have pushed this one out.
Forget(h) ==
    /\ seen[h] /\ forgets < MaxForgets
    /\ seen' = [seen EXCEPT ![h] = FALSE] /\ forgets' = forgets + 1
    /\ UNCHANGED <<topologyVars, args, sub, leg, net, accepted, runs, good, refusals>>

Refresh == RefreshTopology /\ UNCHANGED requestVars

\* The asked node starts anew: its calls and its memory of ids are gone.
Restart ==
    /\ \E s \in Sends : sub[s].st = "running"
    /\ forgets < MaxForgets /\ forgets' = forgets + 1
    /\ StartTopology
    /\ sub' = [s \in Sends |-> IF sub[s].st = "running"
                               THEN [sub[s] EXCEPT !.st = "error", !.todo = {}] ELSE sub[s]]
    /\ seen' = [seen EXCEPT ![Local] = FALSE] /\ net' = {m \in net : m.body = "request"}
    /\ UNCHANGED <<args, leg, accepted, runs, good, refusals>>
-----------------------------------------------------------------------------
Call(s) ==
    \/ Submit(s) \/ AskLocal(s) \/ OverallTimeout(s)
    \/ \E h \in Peers : AskNobody(s, h) \/ AskPeer(s, h) \/ ConnectFails(s, h) \/ PeerFails(s, h)

Next ==
    \/ \E s \in Sends : Call(s)
    \/ \E m \in net : TakeAnswer(m) \/ HubRefuses(m) \/ HandleDuplicate(m) \/ HandleRequest(m)
    \/ \E h \in Hosts : Forget(h)
    \/ Refresh \/ Restart

Spec == Init /\ [][Next]_vars

\* The asked node runs its futures and its timers; nothing is assumed of the
\* network, the hub or the peers.
FairSpec == Spec /\ \A s \in Sends : WF_vars(Call(s))
-----------------------------------------------------------------------------
Told(s) == {t.host : t \in BagToSet(sub[s].statuses)}

\* An answer has exactly one status of every host it was to ask, however answers,
\* failures and the overall timeout fall together.
OneStatusEach ==
    \A s \in Sends : sub[s].st = "answered" =>
        /\ Told(s) = Targets
        /\ \A t, u \in BagToSet(sub[s].statuses) : t.host = u.host => t = u
        /\ \A t \in BagToSet(sub[s].statuses) : sub[s].statuses[t] = 1

\* The answer is well formed and tells of every host, and one that does not call
\* itself partial has the results of every host that was asked, each of which did
\* execute the request completely.
HonestAnswer ==
    /\ TypeOK /\ OneStatusEach
    /\ \A s \in Sends : sub[s].st = "answered" /\ ~sub[s].partial =>
        args.asked \subseteq sub[s].hits /\ args.asked \subseteq good

\* A host executes the request at most once for each call that was accepted, though
\* calls are repeated over the relay, fall back and outlive their sender.  (A
\* cloud reader may be asked a second time, for a prefix of the same text.)  And a
\* host refuses a duplicate only of a client's repeat: the node's own retries and
\* fall-backs never collide with themselves.
AtMostOnce ==
    /\ \A h \in Hosts \ Cloud : runs[h] <= accepted
    /\ refusals # {} => accepted > 1

\* Every call ends, whatever the network, the hub and the peers do: once the client
\* has stopped asking, the node comes to rest.
CallsEnd == <>[](\A s \in Sends : sub[s].st # "running")
=============================================================================
