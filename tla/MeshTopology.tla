---------------------------- MODULE MeshTopology ----------------------------
(***************************************************************************)
(* The routes a node has to its peers: the hub's projection (a direct     *)
(* address) and its registry of children (a relay through the hub) are    *)
(* fetched, merged with the cache on disk, saved, and put in place of the  *)
(* topology in memory (gptadmin.rs, MeshService::replace_topology, the    *)
(* start and the refresh loop of server.rs).                              *)
(***************************************************************************)
EXTENDS Integers, Sequences, FiniteSets

CONSTANTS
    Peers,         \* the other hosts, as numbers: the order in which they are asked
    Listed,        \* the peers that the hub may list
    Static,        \* [Peers -> SUBSET Routes]: the peers of the configuration file
    MaxRefreshes   \* bound on refreshes, the one at a restart included

Routes == {"direct", "relay", "proxy"}

ASSUME PeersAssumption ==
    Peers \subseteq Nat \ {0} /\ IsFiniteSet(Peers) /\ Listed \subseteq Peers
ASSUME StaticAssumption == Static \in [Peers -> SUBSET Routes]
ASSUME RefreshesAssumption == MaxRefreshes \in Nat

VARIABLES
    known,         \* [Peers -> SUBSET Routes]: the topology in memory, {} an unknown host
    cache,         \* [Peers -> SUBSET Routes]: the snapshot on disk
    refreshes

topologyVars == <<known, cache, refreshes>>

TopologyTyped ==
    /\ known \in [Peers -> SUBSET Routes]
    /\ cache \in [Peers -> SUBSET Routes]
    /\ refreshes \in 0 .. MaxRefreshes

\* fetch: direct addresses from the projection, relays from the registry.  A
\* failed probe empties the registry's part, and nothing at all is an error.
Provided(projected, registered) ==
    [p \in Peers |-> {r \in Routes : \/ r = "direct" /\ p \in projected
                                     \/ r = "relay" /\ p \in registered}]

\* Mutant: the hosts that did not answer this time are dropped.
MergedAfresh(provided) == provided

\* refresh_cache: a cached host with a relay is kept, or gets its relay back.
Merged(provided) ==
    [p \in Peers |-> IF "relay" \notin cache[p] THEN provided[p]
                     ELSE IF provided[p] = {} THEN cache[p]
                     ELSE provided[p] \cup {"relay"}]

\* replace_topology: known hosts stay, with their relay and their local proxy.
Retained(fresh, old) ==
    [p \in Peers |-> IF fresh[p] = {} THEN old[p]
                     ELSE fresh[p] \cup (old[p] \cap {"relay", "proxy"})]

\* Every result of a successful fetch, merged with the cache.
Fresh ==
    {Merged(Provided(d[1], d[2])) :
        d \in {e \in (SUBSET Listed) \X (SUBSET Listed) : e[1] \cup e[2] # {}}}

\* The process has started without the hub, on what an earlier one has saved.
TopologyInit ==
    /\ cache \in {[p \in Peers |-> IF p \in Listed THEN r ELSE {}] :
                    r \in {{}, {"relay"}}}
    /\ known = Retained(cache, Static)
    /\ refreshes = 0

\* The merged result is saved before it is used.
Saved(fresh) ==
    /\ refreshes < MaxRefreshes /\ refreshes' = refreshes + 1
    /\ cache' = fresh

\* A tick of the refresh loop (when the fetch or the save fails, nothing changes).
RefreshTopology == \E fresh \in Fresh : Saved(fresh) /\ known' = Retained(fresh, known)

\* run_server: the topology of a new process, from the hub or from the cache.
\* Whether a host of both files keeps its proxy is the library's affair.
StartTopology ==
    \E start \in Fresh \cup {cache}, dropped \in SUBSET Listed :
        /\ \/ start \in Fresh /\ Saved(start)
           \/ start = cache /\ UNCHANGED <<cache, refreshes>>
        /\ known' = [p \in Peers |-> IF p \in dropped /\ start[p] # {}
                                     THEN Retained(start, Static)[p] \ {"proxy"}
                                     ELSE Retained(start, Static)[p]]

\* A relay that was ever learnt is never lost again, not by a refresh that the
\* host did not answer and not by a restart: it is the only way to some hosts.
RelayKept == [][\A p \in Peers : "relay" \in known[p] => "relay" \in known'[p]]_topologyVars
=============================================================================
