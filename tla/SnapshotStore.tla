--------------------------- MODULE SnapshotStore ----------------------------
(***************************************************************************)
(* What the snapshot machinery promises, as its users see it: a server has *)
(* a keyspace in memory or is down, and one file.  The file only ever      *)
(* changes as a whole: to the complete keyspace of a running server, or to *)
(* nothing when a server moves whatever is there out of the way, or by     *)
(* somebody outside.                                                       *)
(***************************************************************************)
EXTENDS FiniteSets

CONSTANTS
    Procs,     \* server processes, by pid
    Keys,      \* a keyspace is the set of keys in it
    Missing,   \* no file
    Foreign    \* files put there from outside

VARIABLES
    file,      \* what the path holds
    memory,    \* each server's keyspace
    up         \* the servers that run

snapshotVars == <<file, memory, up>>

\* An image written by meebis: complete and readable.
Image(ks) == [body |-> ks, fault |-> "none"]

SnapshotInit ==
    /\ file \in Foreign \cup {Missing}
    /\ memory = [p \in Procs |-> {}]
    /\ up = {}

Start(p) ==
    /\ p \notin up
    /\ up' = up \cup {p}
    /\ \E ks \in SUBSET Keys : memory' = [memory EXCEPT ![p] = ks]
    /\ UNCHANGED file

Write(p) ==
    /\ p \in up
    /\ \E ks \in SUBSET Keys : memory' = [memory EXCEPT ![p] = ks]
    /\ UNCHANGED <<file, up>>

\* The file becomes the server's keyspace; the server may be gone afterwards.
Save(p) ==
    /\ p \in up
    /\ file' = Image(memory[p])
    /\ up' \in {up, up \ {p}}
    /\ UNCHANGED memory

\* rename(path, aside): it moves what the path holds at that moment, which need
\* not be the file the load found unreadable.
SetAside(p) ==
    /\ p \in up
    /\ file' = Missing
    /\ UNCHANGED <<memory, up>>

Stop(p) ==
    /\ p \in up
    /\ up' = up \ {p}
    /\ UNCHANGED <<file, memory>>

Place(img) == file' = img /\ UNCHANGED <<memory, up>>

SnapshotNext ==
    \/ \E p \in Procs : Start(p) \/ Write(p) \/ Save(p) \/ SetAside(p) \/ Stop(p)
    \/ \E img \in Foreign \cup {Missing} : Place(img)

SnapshotSpec == SnapshotInit /\ [][SnapshotNext]_snapshotVars

=============================================================================
