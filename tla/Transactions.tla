---------------------------- MODULE Transactions ----------------------------
(***************************************************************************)
(* Connections, MULTI/EXEC and WATCH: src/src/commands/mod.rs over the     *)
(* ConnState of src/src/server.rs.                                         *)
(*                                                                         *)
(* The server runs on one thread and handle() never awaits, so a command   *)
(* is one step.  EXEC is the exception: it locks the keyspace anew for the *)
(* watch check and for every queued command, and only the single thread    *)
(* keeps other connections out in between.  Here `executing` is the        *)
(* connection whose exec() holds the thread and `queue` the commands that  *)
(* exec() took and has still to run; each is a step of its own, so that    *)
(* the clock may move between them.  Every other handler needs the thread. *)
(*                                                                         *)
(* `now` is the latest reading of the clock; a step may find it later.     *)
(***************************************************************************)
EXTENDS Commands, Sequences

CONSTANTS
    Clients,     \* connections
    Requests,    \* the commands clients send
    MaxNow,      \* bound on the clock
    MaxQueue,    \* bound on queued commands
    Nobody,      \* no exec() is on the thread
    Unwatched    \* a (database, key) that is not in the watched map

ASSUME TransactionsAssumption ==
    /\ Requests \subseteq Command
    /\ MaxNow \in Nat
    /\ MaxQueue \in Nat
    /\ Nobody \notin Clients

VARIABLES
    keyspace,     \* Shared.db
    now,          \* latest reading of the clock
    db_index,     \* ConnState, by connection
    in_multi,
    multi_queue,
    multi_error,
    watched,
    executing,    \* the connection inside exec()
    queue         \* exec()'s local queue

conns == <<db_index, in_multi, multi_queue, multi_error, watched>>

vars == <<keyspace, now, db_index, in_multi, multi_queue, multi_error, watched,
          executing, queue>>

Places == DbIds \X Keys

\* A snapshot is the (existed, fingerprint) pair; `was` is a history field,
\* the value the fingerprint was taken of, that no action reads.
Snapshot(db, k, t) ==
    [fp  |-> fingerprint(db, k, t),
     was |-> IF contains(db, k, t) THEN db[k].value ELSE NoEntry]

FingerprintType ==
    StringValue \cup [type : {"stream"}, len : Nat, last_id : Nat] \cup {NoEntry}

SnapshotType == [fp : FingerprintType, was : Value \cup {NoEntry}]

ASSUME WatchAssumption == Unwatched \notin SnapshotType

\* The readings of the clock that may come next.
Clock == now .. MaxNow

FreshWatched == [p \in Places |-> Unwatched]

Watching(c) == {p \in Places : watched[c][p] # Unwatched}

Init ==
    /\ keyspace = EmptyKeyspace
    /\ now = 0
    /\ db_index = [c \in Clients |-> 0]
    /\ in_multi = [c \in Clients |-> FALSE]
    /\ multi_queue = [c \in Clients |-> <<>>]
    /\ multi_error = [c \in Clients |-> FALSE]
    /\ watched = [c \in Clients |-> FreshWatched]
    /\ executing = Nobody
    /\ queue = <<>>

-----------------------------------------------------------------------------
(* Handlers.  Each starts only when no exec() is on the thread. *)

Idle == executing = Nobody

\* Fault: MULTI forgets what the connection watches.
MultiUnwatching(c) ==
    /\ Idle
    /\ ~in_multi[c]
    /\ in_multi' = [in_multi EXCEPT ![c] = TRUE]
    /\ watched' = [watched EXCEPT ![c] = FreshWatched]
    /\ UNCHANGED <<keyspace, now, db_index, multi_queue, multi_error, executing, queue>>

Multi(c) ==
    /\ Idle
    /\ ~in_multi[c]
    /\ in_multi' = [in_multi EXCEPT ![c] = TRUE]
    /\ multi_error' = [multi_error EXCEPT ![c] = FALSE]
    /\ multi_queue' = [multi_queue EXCEPT ![c] = <<>>]
    /\ UNCHANGED <<keyspace, now, db_index, watched, executing, queue>>

\* Fault: the error flag of the discarded transaction stays.
DiscardKeepingError(c) ==
    /\ Idle
    /\ in_multi[c]
    /\ in_multi' = [in_multi EXCEPT ![c] = FALSE]
    /\ multi_queue' = [multi_queue EXCEPT ![c] = <<>>]
    /\ watched' = [watched EXCEPT ![c] = FreshWatched]
    /\ UNCHANGED <<keyspace, now, db_index, multi_error, executing, queue>>

Discard(c) ==
    /\ Idle
    /\ in_multi[c]
    /\ in_multi' = [in_multi EXCEPT ![c] = FALSE]
    /\ multi_error' = [multi_error EXCEPT ![c] = FALSE]
    /\ multi_queue' = [multi_queue EXCEPT ![c] = <<>>]
    /\ watched' = [watched EXCEPT ![c] = FreshWatched]
    /\ UNCHANGED <<keyspace, now, db_index, executing, queue>>

\* Inside MULTI every command but MULTI, EXEC, DISCARD, WATCH and UNWATCH is
\* queued, unknown ones and RESET included; the subscribe family is refused.
QueueCommand(c, cmd) ==
    /\ Idle
    /\ in_multi[c]
    /\ IF cmd.op = "SUBSCRIBE"
       THEN /\ multi_error' = [multi_error EXCEPT ![c] = TRUE]
            /\ UNCHANGED multi_queue
       ELSE /\ Len(multi_queue[c]) < MaxQueue
            /\ multi_queue' = [multi_queue EXCEPT ![c] = Append(@, cmd)]
            /\ UNCHANGED multi_error
    /\ UNCHANGED <<keyspace, now, db_index, in_multi, watched, executing, queue>>

\* WATCH of several keys takes their snapshots one after the other, as a run
\* of these steps does.  A key watched before gets a new snapshot.
Watch(c, k, t) ==
    LET d == db_index[c]
    IN  /\ Idle
        /\ ~in_multi[c]
        /\ keyspace' = [keyspace EXCEPT ![d] = purge_if_expired(@, k, t)]
        /\ watched' = [watched EXCEPT ![c][<<d, k>>] = Snapshot(keyspace[d], k, t)]
        /\ now' = t
        /\ UNCHANGED <<db_index, in_multi, multi_queue, multi_error, executing, queue>>

\* Handled before the queueing, so inside MULTI too it acts at once.
Unwatch(c) ==
    /\ Idle
    /\ watched' = [watched EXCEPT ![c] = FreshWatched]
    /\ UNCHANGED <<keyspace, now, db_index, in_multi, multi_queue, multi_error,
                   executing, queue>>

\* A command outside MULTI.
Execute(c, cmd, ts) ==
    /\ Idle
    /\ ~in_multi[c]
    /\ keyspace' = execute_locked(keyspace, db_index[c], cmd, ts)
    /\ db_index' = [db_index EXCEPT ![c] = select(@, cmd)]
    /\ now' = ts[Reads]
    /\ UNCHANGED <<in_multi, multi_queue, multi_error, watched, executing, queue>>

\* RESET leaves the selected database as it is.
Reset(c) ==
    /\ Idle
    /\ ~in_multi[c]
    /\ multi_error' = [multi_error EXCEPT ![c] = FALSE]
    /\ multi_queue' = [multi_queue EXCEPT ![c] = <<>>]
    /\ watched' = [watched EXCEPT ![c] = FreshWatched]
    /\ UNCHANGED <<keyspace, now, db_index, in_multi, executing, queue>>

\* The connection is lost, whatever it was doing, and made anew.
Reconnect(c) ==
    /\ Idle
    /\ db_index' = [db_index EXCEPT ![c] = 0]
    /\ in_multi' = [in_multi EXCEPT ![c] = FALSE]
    /\ multi_queue' = [multi_queue EXCEPT ![c] = <<>>]
    /\ multi_error' = [multi_error EXCEPT ![c] = FALSE]
    /\ watched' = [watched EXCEPT ![c] = FreshWatched]
    /\ UNCHANGED <<keyspace, now, executing, queue>>

\* The periodic task of serve().
Sweep(t) ==
    /\ Idle
    /\ keyspace' = [d \in DbIds |-> sweep_expired(keyspace[d], t)]
    /\ now' = t
    /\ UNCHANGED <<conns, executing, queue>>

-----------------------------------------------------------------------------
(* EXEC *)

\* exec() first takes the queue and the watches out of the connection.
TakeTransaction(c) ==
    /\ Idle
    /\ in_multi[c]
    /\ in_multi' = [in_multi EXCEPT ![c] = FALSE]
    /\ multi_queue' = [multi_queue EXCEPT ![c] = <<>>]
    /\ watched' = [watched EXCEPT ![c] = FreshWatched]
    /\ multi_error' = [multi_error EXCEPT ![c] = FALSE]

ExecAbort(c) ==
    /\ multi_error[c]
    /\ TakeTransaction(c)
    /\ UNCHANGED <<keyspace, now, db_index, executing, queue>>

\* Fault: the key is looked up in the database selected now.
MatchesInSelected(c, p, t) ==
    fingerprint(keyspace[db_index[c]], p[2], t) = watched[c][p].fp

\* Whether a watched place still has its fingerprint at reading t.
Matches(c, p, t) == fingerprint(keyspace[p[1]], p[2], t) = watched[c][p].fp

\* The clock after the visit: the last of its readings.
Latest(readings, t) ==
    /\ t = now \/ \E p \in DOMAIN readings : readings[p] = t
    /\ \A p \in DOMAIN readings : readings[p] <= t

\* The map is visited in no particular order and the first mismatch ends the
\* visit; every place visited is purged if it has expired.
ExecDirty(c, readings) ==
    /\ ~multi_error[c]
    /\ \E p \in DOMAIN readings :
        /\ ~Matches(c, p, readings[p])
        /\ \A q \in DOMAIN readings \ {p} :
            Matches(c, q, readings[q]) /\ readings[q] <= readings[p]
    /\ TakeTransaction(c)
    /\ keyspace' = PurgeAt(keyspace, readings)
    /\ \E t \in Clock : Latest(readings, t) /\ now' = t
    /\ UNCHANGED <<db_index, executing, queue>>

ExecRun(c, readings) ==
    /\ ~multi_error[c]
    /\ DOMAIN readings = Watching(c)
    /\ \A p \in DOMAIN readings : Matches(c, p, readings[p])
    /\ TakeTransaction(c)
    /\ keyspace' = PurgeAt(keyspace, readings)
    /\ \E t \in Clock : Latest(readings, t) /\ now' = t
    /\ executing' = IF multi_queue[c] = <<>> THEN Nobody ELSE c
    /\ queue' = multi_queue[c]
    /\ UNCHANGED db_index

\* The next queued command; the last one ends exec().
ExecStep(c, ts) ==
    /\ executing = c
    /\ keyspace' = execute_locked(keyspace, db_index[c], Head(queue), ts)
    /\ db_index' = [db_index EXCEPT ![c] = select(@, Head(queue))]
    /\ now' = ts[Reads]
    /\ queue' = Tail(queue)
    /\ executing' = IF Tail(queue) = <<>> THEN Nobody ELSE c
    /\ UNCHANGED <<in_multi, multi_queue, multi_error, watched>>

-----------------------------------------------------------------------------

Next ==
    \/ \E c \in Clients :
        \/ Multi(c) \/ Discard(c) \/ Unwatch(c) \/ Reset(c) \/ Reconnect(c)
        \/ \E k \in Keys, t \in Clock : Watch(c, k, t)
        \/ \E cmd \in Requests : QueueCommand(c, cmd)
        \/ \E cmd \in Requests, ts \in Readings(now, MaxNow) : Execute(c, cmd, ts)
        \/ ExecAbort(c)
        \/ \E S \in SUBSET Watching(c) : \E readings \in [S -> Clock] :
            ExecDirty(c, readings) \/ ExecRun(c, readings)
        \/ \E ts \in Readings(now, MaxNow) : ExecStep(c, ts)
    \/ \E t \in Clock : Sweep(t)

Spec == Init /\ [][Next]_vars

-----------------------------------------------------------------------------
(* Properties *)

\* The state has the shape the code's types give it: db_index is always in
\* range, queues hold commands, watches hold snapshots.
TypeOK ==
    /\ keyspace \in KeyspaceType
    /\ now \in Nat
    /\ db_index \in [Clients -> DbIds]
    /\ in_multi \in [Clients -> BOOLEAN]
    /\ multi_queue \in [Clients -> Seq(Command)]
    /\ multi_error \in [Clients -> BOOLEAN]
    /\ watched \in [Clients -> [Places -> SnapshotType \cup {Unwatched}]]
    /\ executing \in Clients \cup {Nobody}
    /\ queue \in Seq(Command)

\* Outside MULTI there are no queued commands and no error flag, and the thread
\* is back when the taken queue is empty.
OutsideClean ==
    /\ \A c \in Clients : ~in_multi[c] => multi_queue[c] = <<>> /\ ~multi_error[c]
    /\ (executing = Nobody) <=> (queue = <<>>)

\* Whatever way a transaction ends (EXEC run, aborted or dirty, DISCARD, a
\* dropped connection), nothing of it is left for the next one: no queued
\* command, no error flag, and none of the watches it was guarded by.
NothingLeftBehind ==
    [][/\ OutsideClean'
       /\ \A c \in Clients : in_multi[c] /\ ~in_multi'[c] => Watching(c)' = {}]_vars

\* What a fingerprint can tell of a value that is or is not there: everything,
\* except that a stream deleted and rebuilt to the same length and last id looks
\* like the one before.
Indistinct(v, was) ==
    \/ v = was
    \/ v \in StreamValue /\ was \in StreamValue /\ FingerprintOf(v) = FingerprintOf(was)

\* EXEC runs the queue only over watched places that hold what they held when
\* they were watched, in the database they were watched in, whatever has been
\* selected, swapped, expired or written in between.
WatchedUnchanged ==
    [][\A c \in Clients : executing = Nobody /\ executing' = c =>
         \A p \in Watching(c) :
            LET e == keyspace'[p[1]][p[2]]
            IN  Indistinct(IF e = NoEntry THEN NoEntry ELSE e.value, watched[c][p].was)]_vars

=============================================================================
