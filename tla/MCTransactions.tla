--------------------------- MODULE MCTransactions ---------------------------
(***************************************************************************)
(* A small instance of Transactions, serving one of three crowds: clients  *)
(* that send any of a few commands in and out of MULTI, clients that count *)
(* with optimistic locking, and clients that never write a string twice.   *)
(***************************************************************************)
EXTENDS Lifecycle, OptimisticCounter, TLC

CONSTANTS k1, k2

VARIABLE crowd

allVars == <<vars, sent, asked, phase, seen, commits, crowd>>

SetTo(k, v, px) == [op |-> "SET", key |-> k, val |-> v, opts |-> {},
                    keepttl |-> FALSE, px |-> px, absolute |-> FALSE]

\* A string key, volatile or not, in two databases.
TxRequests ==
    {SetTo(k1, 1, NoTtl), [op |-> "SELECT", db |-> 1], [op |-> "SUBSCRIBE"],
     [op |-> "EXPIRE", key |-> k1, n |-> 1, relative |-> TRUE, opts |-> {}]}

EveryRequest ==
    {SetTo(k1, 1, NoTtl), SetTo(k1, 1, 1), SetTo(k2, 2, NoTtl), SetTo(k2, 2, 0),
     [SetTo(k1, 2, NoTtl) EXCEPT !.keepttl = TRUE],
     [SetTo(k2, 2, 1) EXCEPT !.opts = {"NX"}, !.absolute = TRUE]}
    \cup {[op |-> "XADD", key |-> k1, id |-> 1, fields |-> 1],
          [op |-> "XDEL", key |-> k1, id |-> 1]}
    \cup [op : {"EXPIRE"}, key : {k1}, n : {2}, relative : {TRUE}, opts : {{}, {"GT"}}]
    \cup [op : {"PERSIST"}, key : {k1}]
    \cup [op : {"RENAME"}, key : {k1}, dst : Keys, nx : BOOLEAN]
    \cup [op : {"COPY"}, key : {k1}, dst : {k2}, db : {0, 1}, replace : {TRUE}]
    \cup [op : {"MOVE"}, key : Keys, db : {0, 1}]
    \cup {[op |-> "SWAPDB", first |-> 0, second |-> 1]}
    \cup [op : {"SELECT"}, db : {1, 2}]
    \cup [op : {"GET"}, key : {k1}]
    \cup [op : {"DEL"}, keys : {{k2}}]
    \cup [op : {"FLUSHDB", "FLUSHALL", "RELOAD"}]

Idlers == phase = <<>> /\ seen = <<>> /\ commits = <<>>

Uncounted == sent = {} /\ asked = {}

MCInit ==
    \/ crowd = "any" /\ Init /\ Idlers /\ Uncounted
    \/ crowd = "counting" /\ CounterInit /\ Uncounted
    \/ crowd = "fresh" /\ LifecycleInit /\ Idlers

\* Bounds of the first crowd: only k1 is watched, and no two clients have more
\* than MaxQueue commands queued between them.
AnyBound ==
    /\ \A c \in Clients : Watching(c) \subseteq DbIds \X {k1}
    /\ \A c, e \in Clients : c # e => Len(multi_queue[c] \o multi_queue[e]) <= MaxQueue

\* Bound of the third: one client at a time is away from database 0.
FreshBound == \E c \in Clients : db_index[c] = 0

MCNext ==
    \/ /\ crowd = "any" /\ Next
       /\ AnyBound'
       /\ UNCHANGED <<sent, asked, phase, seen, commits, crowd>>
    \/ /\ crowd = "counting" /\ CounterNext
       /\ UNCHANGED <<sent, asked, crowd>>
    \/ /\ crowd = "fresh" /\ LifecycleNext
       /\ FreshBound'
       /\ UNCHANGED <<phase, seen, commits, crowd>>

MCSpec == MCInit /\ [][MCNext]_allVars

Symmetry == Permutations(Clients)

=============================================================================
