------------------------------ MODULE Mirror ------------------------------
(***************************************************************************)
(* What replication to an index host promises, whatever the network and   *)
(* the processes do: the host's row of a path is always absent or one of  *)
(* the documents that the source index has held for that very path, it is *)
(* replaced in one piece, and rows vanish together only with a new store.  *)
(***************************************************************************)
EXTENDS Integers

CONSTANTS Paths, Docs, None

VARIABLES source,   \* [Paths -> Docs \cup {None}]: the source's extraction cache
          held,     \* [Paths -> SUBSET Docs]: every document source has held
          mirror,   \* [Paths -> Docs \cup {None}]: the rows of the index host
          store     \* the identity under which the host offers its rows

mirrorVars == <<source, held, mirror, store>>

MirrorInit ==
    /\ source \in [Paths -> Docs \cup {None}]
    /\ held = [p \in Paths |-> {source[p]} \ {None}]
    /\ mirror = [p \in Paths |-> None]
    /\ store = 1

\* The source indexes another document of p, or drops the one it had.
Index(p) ==
    \E d \in Docs \cup {None} :
        /\ source' = [source EXCEPT ![p] = d]
        /\ held' = [held EXCEPT ![p] = @ \cup ({d} \ {None})]
        /\ UNCHANGED <<mirror, store>>

\* The host stores a document the source has held, or deletes the row.
Copy(p) ==
    \E d \in held[p] \cup {None} :
        /\ mirror' = [mirror EXCEPT ![p] = d]
        /\ UNCHANGED <<source, held, store>>

\* The host says it is another store, with the rows it had or with none.
Renew ==
    /\ store' = store + 1
    /\ mirror' \in {mirror, [p \in Paths |-> None]}
    /\ UNCHANGED <<source, held>>

MirrorNext == Renew \/ \E p \in Paths : Index(p) \/ Copy(p)

MirrorSpec == MirrorInit /\ [][MirrorNext]_mirrorVars
=============================================================================
