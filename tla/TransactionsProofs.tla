------------------------- MODULE TransactionsProofs -------------------------
(***************************************************************************)
(* Type correctness of the keyspace under every command, and that no       *)
(* transaction leaves anything behind, for any number of clients, keys and *)
(* databases.                                                              *)
(***************************************************************************)
EXTENDS Transactions, TLAPS, FiniteSetTheorems

-----------------------------------------------------------------------------
(* The operations of one database *)

LEMMA PutType ==
    ASSUME NEW db \in Db, NEW k \in Keys, NEW v \in Value, NEW at \in Expiry
    PROVE  put(db, k, v, at) \in Db
BY DEF put, Db, Entry

LEMMA RemoveType ==
    ASSUME NEW db \in Db, NEW k \in Keys
    PROVE  remove(db, k) \in Db
BY DEF remove, Db

LEMMA PurgeType ==
    ASSUME NEW db \in Db, NEW k \in Keys, NEW t
    PROVE  purge_if_expired(db, k, t) \in Db
BY DEF purge_if_expired, Db

LEMMA LiveType ==
    ASSUME NEW db \in Db, NEW k \in Keys, NEW t, contains(db, k, t)
    PROVE  db[k].value \in Value /\ db[k].expire_at \in Expiry
BY DEF contains, LiveEntry, Db, Entry

LEMMA ExpireAtType ==
    ASSUME NEW db \in Db, NEW k \in Keys, NEW t
    PROVE  expire_at(db, k, t) \in Expiry
BY LiveType DEF expire_at, Expiry

LEMMA SetExpireType ==
    ASSUME NEW db \in Db, NEW k \in Keys, NEW at \in Expiry, NEW t
    PROVE  set_expire(db, k, at, t) \in Db
BY LiveType, PutType, PurgeType DEF set_expire

LEMMA SetKeepTtlType ==
    ASSUME NEW db \in Db, NEW k \in Keys, NEW v \in Value
    PROVE  set_keep_ttl(db, k, v) \in Db
<1>1. (IF db[k] = NoEntry THEN NoTtl ELSE db[k].expire_at) \in Expiry
  BY DEF Db, Entry, Expiry
<1> QED BY <1>1, PutType DEF set_keep_ttl

LEMMA RenameDbType ==
    ASSUME NEW db \in Db, NEW src \in Keys, NEW dst \in Keys, NEW t
    PROVE  rename(db, src, dst, t) \in Db
BY PurgeType DEF rename, Db

LEMMA SweepType ==
    ASSUME NEW db \in Db, NEW t
    PROVE  sweep_expired(db, t) \in Db
BY DEF sweep_expired, Db

LEMMA EmptyStreamType == EmptyStream \in StreamValue
<1>1. [i \in {} |-> 0] \in [{} -> Fields]
  OBVIOUS
<1>2. [i \in {} |-> 0] \in StreamEntries
  BY <1>1 DEF StreamEntries
<1> QED BY <1>2, KeyspaceAssumption DEF EmptyStream, StreamValue

LEMMA StreamTyped ==
    ASSUME NEW v \in Value, v.type = "stream"
    PROVE  v \in StreamValue
BY DEF Value, StringValue, StreamValue

\* A stream's fingerprint counts its entries, which are finitely many.
LEMMA FingerprintOfType ==
    ASSUME NEW v \in Value
    PROVE  FingerprintOf(v) \in FingerprintType
<1>1. CASE v.type = "stream"
  <2>1. v \in StreamValue
    BY <1>1, StreamTyped
  <2>2. PICK S \in SUBSET (1 .. MaxId) : v.entries \in [S -> Fields]
    BY <2>1 DEF StreamValue, StreamEntries
  <2>3. IsFiniteSet(S)
    <3>1. 1 \in Int /\ MaxId \in Int
      BY KeyspaceAssumption
    <3>2. IsFiniteSet(1 .. MaxId)
      BY <3>1, FS_Interval
    <3> QED BY <3>2, FS_Subset
  <2>4. Cardinality(DOMAIN v.entries) \in Nat
    BY <2>2, <2>3, FS_CardinalityType
  <2>5. v.last_id \in Nat
    BY <2>1, KeyspaceAssumption DEF StreamValue
  <2> QED BY <1>1, <2>4, <2>5 DEF FingerprintOf, FingerprintType
<1>2. CASE v.type # "stream"
  BY <1>2 DEF FingerprintOf, FingerprintType, Value, StreamValue
<1> QED BY <1>1, <1>2

LEMMA SnapshotTyped ==
    ASSUME NEW db \in Db, NEW k \in Keys, NEW t
    PROVE  Snapshot(db, k, t) \in SnapshotType
<1>1. fingerprint(db, k, t) \in FingerprintType
  BY LiveType, FingerprintOfType DEF fingerprint, FingerprintType
<1>2. (IF contains(db, k, t) THEN db[k].value ELSE NoEntry) \in Value \cup {NoEntry}
  BY LiveType
<1> QED BY <1>1, <1>2 DEF Snapshot, SnapshotType

-----------------------------------------------------------------------------
(* The commands *)

\* The readings of a command that starts at `from`.
LEMMA ReadingsType ==
    ASSUME NEW from \in Nat, NEW to \in Nat, NEW ts \in Readings(from, to), NEW i \in 1 .. 4
    PROVE  ts[i] \in Nat /\ ts[i] >= from
BY DEF Readings, Reads

LEMMA SetType ==
    ASSUME NEW db \in Db, NEW cmd \in SetCommand, NEW ts, ts[1] \in Nat
    PROVE  Set(db, cmd, ts) \in Db
<1> DEFINE purged == purge_if_expired(db, cmd.key, ts[3])
<1>1. cmd.key \in Keys /\ Str(cmd.val) \in Value
  BY DEF SetCommand, Str, Value, StringValue
<1>2. SetDeadline(cmd, ts[1]) \in Expiry
  BY DEF SetDeadline, SetCommand, Expiry
<1>3. purged \in Db
  BY <1>1, PurgeType
<1>4. set_keep_ttl(purged, cmd.key, Str(cmd.val)) \in Db
  BY <1>1, <1>3, SetKeepTtlType
<1>5. put(purged, cmd.key, Str(cmd.val), SetDeadline(cmd, ts[1])) \in Db
  BY <1>1, <1>2, <1>3, PutType
<1> QED BY <1>3, <1>4, <1>5 DEF Set

LEMMA DelType ==
    ASSUME NEW db \in Db, NEW cmd
    PROVE  Del(db, cmd) \in Db
BY DEF Del, Db

\* An expiry is only ever written when it lies in the future.
LEMMA ExpireType ==
    ASSUME NEW db \in Db, NEW cmd \in ExpireCommand, NEW ts, ts[2] \in Nat
    PROVE  Expire(db, cmd, ts) \in Db
<1> DEFINE at == IF cmd.relative THEN ts[2] + cmd.n ELSE cmd.n
<1>1. cmd.key \in Keys
  BY DEF ExpireCommand
<1>2. at \in Int
  BY DEF ExpireCommand
<1>3. ~(at <= ts[2]) => at \in Expiry
  BY <1>2 DEF Expiry
<1>4. \A t : purge_if_expired(db, cmd.key, t) \in Db
  BY <1>1, PurgeType
<1>5. remove(db, cmd.key) \in Db
  BY <1>1, RemoveType
<1>6. ~(at <= ts[2]) =>
        set_expire(purge_if_expired(db, cmd.key, ts[3]), cmd.key, at, ts[4]) \in Db
  BY <1>1, <1>3, <1>4, SetExpireType
<1> HIDE DEF at
<1> QED BY <1>4, <1>5, <1>6 DEF Expire, at

LEMMA RenameType ==
    ASSUME NEW db \in Db, NEW cmd \in RenameCommand, NEW ts
    PROVE  Rename(db, cmd, ts) \in Db
<1>1. cmd.key \in Keys /\ cmd.dst \in Keys
  BY DEF RenameCommand
<1>2. \A k \in Keys : \A t : purge_if_expired(db, k, t) \in Db
  BY PurgeType
<1> QED BY <1>1, <1>2, RenameDbType DEF Rename

LEMMA XAddType ==
    ASSUME NEW db \in Db, NEW cmd \in StreamCommand, cmd.op = "XADD", NEW ts
    PROVE  XAdd(db, cmd, ts) \in Db
<1> DEFINE purged == purge_if_expired(db, cmd.key, ts[1])
           made == IF purged[cmd.key] = NoEntry THEN set(purged, cmd.key, EmptyStream) ELSE purged
           entry == made[cmd.key]
           stream == entry.value
           entries == [i \in DOMAIN stream.entries \cup {cmd.id} |->
                        IF i = cmd.id THEN cmd.fields ELSE stream.entries[i]]
           longer == [stream EXCEPT !.entries = entries, !.last_id = cmd.id]
<1>1. cmd.key \in Keys /\ cmd.id \in 0 .. MaxId /\ cmd.fields \in Fields
  BY DEF StreamCommand
<1>2. purged \in Db
  BY <1>1, PurgeType
<1>3. set(purged, cmd.key, EmptyStream) \in Db
  BY <1>1, <1>2, EmptyStreamType, PutType DEF set, Value, Expiry
<1>4. made \in Db
  BY <1>2, <1>3
<1>5. set(purged, cmd.key, EmptyStream)[cmd.key]
        = [value |-> EmptyStream, expire_at |-> NoTtl]
  BY <1>1, <1>2 DEF set, put, Db
<1>6. entry \in Entry
  <2>1. CASE purged[cmd.key] = NoEntry
    BY <2>1, <1>5, EmptyStreamType DEF Entry, Value, Expiry
  <2>2. CASE purged[cmd.key] # NoEntry
    BY <2>2, <1>1, <1>2 DEF Db
  <2> QED BY <2>1, <2>2
<1> HIDE DEF purged, made
<1>7. stream \in Value /\ entry.expire_at \in Expiry
  BY <1>6 DEF Entry
<1>8. ASSUME stream.type = "stream", ~(cmd.id <= stream.last_id)
      PROVE  put(made, cmd.key, longer, entry.expire_at) \in Db
  <2>1. stream \in StreamValue
    BY <1>7, <1>8, StreamTyped
  <2>2. cmd.id \in 1 .. MaxId
    BY <1>1, <1>8, <2>1, KeyspaceAssumption DEF StreamValue
  <2>3. PICK S \in SUBSET (1 .. MaxId) : stream.entries \in [S -> Fields]
    BY <2>1 DEF StreamValue, StreamEntries
  <2>4. entries \in [S \cup {cmd.id} -> Fields]
    BY <1>1, <2>3
  <2>5. entries \in StreamEntries
    BY <2>2, <2>3, <2>4 DEF StreamEntries
  <2>6. longer \in StreamValue
    BY <1>1, <2>1, <2>5 DEF StreamValue
  <2> QED BY <1>1, <1>4, <1>7, <2>6, PutType DEF Value
<1> QED BY <1>4, <1>8 DEF XAdd, purged, made

LEMMA XDelType ==
    ASSUME NEW db \in Db, NEW cmd \in StreamCommand, cmd.op = "XDEL", NEW ts
    PROVE  XDel(db, cmd, ts) \in Db
<1> DEFINE purged == purge_if_expired(db, cmd.key, ts[1])
           entry == purged[cmd.key]
           entries == [i \in DOMAIN entry.value.entries \ {cmd.id} |-> entry.value.entries[i]]
           shorter == [entry.value EXCEPT !.entries = entries]
<1>1. cmd.key \in Keys /\ cmd.id \in 0 .. MaxId
  BY DEF StreamCommand
<1>2. purged \in Db
  BY <1>1, PurgeType
<1> HIDE DEF purged
<1>3. ASSUME entry # NoEntry, entry.value.type = "stream"
      PROVE  put(purged, cmd.key, shorter, entry.expire_at) \in Db
  <2>1. entry \in Entry
    BY <1>1, <1>2, <1>3 DEF Db
  <2>2. entry.value \in StreamValue /\ entry.expire_at \in Expiry
    BY <1>3, <2>1, StreamTyped DEF Entry
  <2>3. PICK S \in SUBSET (1 .. MaxId) : entry.value.entries \in [S -> Fields]
    BY <2>2 DEF StreamValue, StreamEntries
  <2>4. entries \in [S \ {cmd.id} -> Fields]
    BY <2>3
  <2>5. entries \in StreamEntries
    BY <2>3, <2>4 DEF StreamEntries
  <2>6. shorter \in StreamValue
    BY <2>2, <2>5 DEF StreamValue
  <2> QED BY <1>1, <1>2, <2>2, <2>6, PutType DEF Value
<1> QED BY <1>2, <1>3 DEF XDel, purged

LEMMA CopyType ==
    ASSUME NEW ks \in KeyspaceType, NEW d \in DbIds, NEW cmd \in CopyCommand, NEW ts
    PROVE  Copy(ks, d, cmd, ts) \in KeyspaceType
<1> DEFINE src == ks[d][cmd.key]
           ttl == expire_at(ks[d], cmd.key, ts[2])
           purged == [ks EXCEPT ![d] = purge_if_expired(@, cmd.key, ts[2])]
<1>1. ks[d] \in Db /\ cmd.key \in Keys /\ cmd.dst \in Keys
  BY DEF KeyspaceType, CopyCommand
<1>2. \A t : [ks EXCEPT ![d] = purge_if_expired(@, cmd.key, t)] \in KeyspaceType
  BY <1>1, PurgeType DEF KeyspaceType
<1>3. purged \in KeyspaceType
  BY <1>2
<1> HIDE DEF purged
<1>4. ASSUME cmd.db \in DbIds, contains(ks[d], cmd.key, ts[1])
      PROVE  [purged EXCEPT ![cmd.db] = put(@, cmd.dst, src.value, ttl)] \in KeyspaceType
  <2>1. src.value \in Value /\ ttl \in Expiry
    BY <1>1, <1>4, LiveType, ExpireAtType
  <2>2. put(purged[cmd.db], cmd.dst, src.value, ttl) \in Db
    BY <1>1, <1>3, <1>4, <2>1, PutType DEF KeyspaceType
  <2> QED BY <1>3, <1>4, <2>2 DEF KeyspaceType
<1> QED BY <1>2, <1>3, <1>4 DEF Copy, is_valid, purged

LEMMA MoveType ==
    ASSUME NEW ks \in KeyspaceType, NEW d \in DbIds, NEW cmd \in MoveCommand, NEW ts
    PROVE  Move(ks, d, cmd, ts) \in KeyspaceType
<1> DEFINE purged == [ks EXCEPT ![cmd.db] = purge_if_expired(@, cmd.key, ts[1])]
           src == ks[d][cmd.key]
<1>1. SUFFICES ASSUME cmd.db \in DbIds, cmd.db # d
               PROVE  Move(ks, d, cmd, ts) \in KeyspaceType
  BY DEF Move, is_valid
<1>2. ks[d] \in Db /\ ks[cmd.db] \in Db /\ cmd.key \in Keys
  BY <1>1 DEF KeyspaceType, MoveCommand
<1>3. purged \in KeyspaceType
  BY <1>1, <1>2, PurgeType DEF KeyspaceType
<1>4. [purged EXCEPT ![d] = purge_if_expired(@, cmd.key, ts[2])] \in KeyspaceType
  BY <1>2, <1>3, PurgeType DEF KeyspaceType
<1>5. ASSUME contains(ks[d], cmd.key, ts[2])
      PROVE  [ks EXCEPT ![d] = remove(@, cmd.key),
                        ![cmd.db] = put(@, cmd.key, src.value, src.expire_at)] \in KeyspaceType
  <2>1. put(ks[cmd.db], cmd.key, src.value, src.expire_at) \in Db
    BY <1>2, <1>5, LiveType, PutType
  <2>2. remove(ks[d], cmd.key) \in Db
    BY <1>2, RemoveType
  <2> QED BY <1>1, <2>1, <2>2 DEF KeyspaceType
<1> QED BY <1>4, <1>5 DEF Move

\* A command knows which fields it has by its name.
LEMMA CommandKinds ==
    ASSUME NEW cmd \in Command
    PROVE  /\ cmd.op \in {"GET", "PERSIST"} => cmd \in KeyCommand
           /\ cmd.op = "SET" => cmd \in SetCommand
           /\ cmd.op = "EXPIRE" => cmd \in ExpireCommand
           /\ cmd.op = "RENAME" => cmd \in RenameCommand
           /\ cmd.op = "COPY" => cmd \in CopyCommand
           /\ cmd.op = "MOVE" => cmd \in MoveCommand
           /\ cmd.op = "SWAPDB" => cmd \in SwapCommand
           /\ cmd.op \in {"XADD", "XDEL"} => cmd \in StreamCommand
BY DEF Command, KeyCommand, SetCommand, DelCommand, ExpireCommand, RenameCommand, CopyCommand,
       MoveCommand, SwapCommand, SelectCommand, StreamCommand, OtherCommand

LEMMA EmptyType == EmptyDb \in Db /\ EmptyKeyspace \in KeyspaceType
BY DEF EmptyDb, EmptyKeyspace, Db, KeyspaceType

\* Whatever command runs, on whatever keyspace, the result is a keyspace.
LEMMA ExecuteLockedType ==
    ASSUME NEW ks \in KeyspaceType, NEW d \in DbIds, NEW cmd \in Command,
           NEW ts, ts[1] \in Nat, ts[2] \in Nat
    PROVE  execute_locked(ks, d, cmd, ts) \in KeyspaceType
<1> DEFINE At(db) == [ks EXCEPT ![d] = db]
<1>1. ks[d] \in Db /\ \A db \in Db : At(db) \in KeyspaceType
  BY DEF KeyspaceType
<1>2. CASE cmd.op = "GET"
  <2>1. purge_if_expired(ks[d], cmd.key, ts[1]) \in Db
    BY <1>1, <1>2, CommandKinds, PurgeType DEF KeyCommand
  <2> QED BY <1>1, <1>2, <2>1 DEF execute_locked
<1>3. CASE cmd.op = "PERSIST"
  <2>1. persist(ks[d], cmd.key, ts[1]) \in Db
    BY <1>1, <1>3, CommandKinds, SetExpireType DEF KeyCommand, persist, Expiry
  <2> QED BY <1>1, <1>3, <2>1 DEF execute_locked
<1>4. CASE cmd.op = "SET"
  <2>1. Set(ks[d], cmd, ts) \in Db
    BY <1>1, <1>4, CommandKinds, SetType
  <2> QED BY <1>1, <1>4, <2>1 DEF execute_locked
<1>5. CASE cmd.op = "DEL"
  BY <1>1, <1>5, DelType DEF execute_locked
<1>6. CASE cmd.op = "EXPIRE"
  <2>1. Expire(ks[d], cmd, ts) \in Db
    BY <1>1, <1>6, CommandKinds, ExpireType
  <2> QED BY <1>1, <1>6, <2>1 DEF execute_locked
<1>7. CASE cmd.op = "RENAME"
  <2>1. Rename(ks[d], cmd, ts) \in Db
    BY <1>1, <1>7, CommandKinds, RenameType
  <2> QED BY <1>1, <1>7, <2>1 DEF execute_locked
<1>8. CASE cmd.op = "COPY"
  BY <1>8, CommandKinds, CopyType DEF execute_locked
<1>9. CASE cmd.op = "MOVE"
  BY <1>9, CommandKinds, MoveType DEF execute_locked
<1>10. CASE cmd.op = "SWAPDB"
  <2>1. SwapDb(ks, cmd) \in KeyspaceType
    BY DEF SwapDb, swap, is_valid, KeyspaceType
  <2> QED BY <1>10, <2>1 DEF execute_locked
<1>11. CASE cmd.op = "XADD"
  <2>1. XAdd(ks[d], cmd, ts) \in Db
    BY <1>1, <1>11, CommandKinds, XAddType
  <2> QED BY <1>1, <1>11, <2>1 DEF execute_locked
<1>12. CASE cmd.op = "XDEL"
  <2>1. XDel(ks[d], cmd, ts) \in Db
    BY <1>1, <1>12, CommandKinds, XDelType
  <2> QED BY <1>1, <1>12, <2>1 DEF execute_locked
<1>13. CASE cmd.op \in {"FLUSHDB", "FLUSHALL"}
  BY <1>1, <1>13, EmptyType DEF execute_locked
<1>14. CASE cmd.op = "RELOAD"
  <2>1. \A e \in DbIds : sweep_expired(sweep_expired(ks[e], ts[1]), ts[2]) \in Db
    BY SweepType DEF KeyspaceType
  <2> QED BY <1>14, <2>1 DEF execute_locked, Reload, KeyspaceType
<1>15. CASE cmd.op \notin {"GET", "PERSIST", "SET", "DEL", "EXPIRE", "RENAME", "COPY", "MOVE",
                           "SWAPDB", "XADD", "XDEL", "FLUSHDB", "FLUSHALL", "RELOAD"}
  BY <1>15 DEF execute_locked
<1> QED
  BY <1>2, <1>3, <1>4, <1>5, <1>6, <1>7, <1>8, <1>9, <1>10, <1>11, <1>12, <1>13, <1>14, <1>15

-----------------------------------------------------------------------------
(* The handlers *)

\* Type correctness needs OutsideClean: exec() takes the head of its queue
\* only because the thread is held exactly while the queue is not empty.
IInv == TypeOK /\ OutsideClean

LEMMA FreshWatchedType == FreshWatched \in [Places -> SnapshotType \cup {Unwatched}]
BY DEF FreshWatched

LEMMA InitIInv == Init => IInv
BY FreshWatchedType, EmptyType, KeyspaceAssumption
DEF Init, IInv, TypeOK, OutsideClean, DbIds

LEMMA ClockType ==
    ASSUME now \in Nat, NEW t \in Clock
    PROVE  t \in Nat
BY TransactionsAssumption DEF Clock

LEMMA SelectType ==
    ASSUME NEW d \in DbIds, NEW cmd
    PROVE  select(d, cmd) \in DbIds
BY DEF select, is_valid

LEMMA PurgeAtType ==
    ASSUME NEW ks \in KeyspaceType, NEW readings
    PROVE  PurgeAt(ks, readings) \in KeyspaceType
BY DEF PurgeAt, KeyspaceType, Db

\* MULTI, DISCARD, UNWATCH, RESET, a lost connection and queueing.
LEMMA ConnStepsKeepIInv ==
    ASSUME IInv, NEW c \in Clients,
           \/ Multi(c) \/ Discard(c) \/ Unwatch(c) \/ Reset(c) \/ Reconnect(c)
           \/ \E cmd \in Command : QueueCommand(c, cmd)
    PROVE  IInv'
<1> USE FreshWatchedType DEF IInv, TypeOK, OutsideClean, Idle
<1>1. CASE Multi(c)
  BY <1>1 DEF Multi
<1>2. CASE Discard(c)
  BY <1>2 DEF Discard
<1>3. CASE Unwatch(c)
  BY <1>3 DEF Unwatch
<1>4. CASE Reset(c)
  BY <1>4 DEF Reset
<1>5. CASE Reconnect(c)
  BY <1>5, KeyspaceAssumption DEF Reconnect, DbIds
<1>6. ASSUME NEW cmd \in Command, QueueCommand(c, cmd) PROVE IInv'
  <2>1. Append(multi_queue[c], cmd) \in Seq(Command)
    OBVIOUS
  <2> QED BY <1>6, <2>1 DEF QueueCommand
<1> QED BY <1>1, <1>2, <1>3, <1>4, <1>5, <1>6

LEMMA WatchKeepsIInv ==
    ASSUME IInv, NEW c \in Clients, NEW k \in Keys, NEW t \in Clock, Watch(c, k, t)
    PROVE  IInv'
<1> USE DEF IInv, TypeOK, OutsideClean
<1> DEFINE d == db_index[c]
<1>1. d \in DbIds /\ keyspace[d] \in Db /\ <<d, k>> \in Places
  BY DEF KeyspaceType, Places
<1>2. keyspace' \in KeyspaceType
  BY <1>1, PurgeType DEF Watch, KeyspaceType
<1>3. Snapshot(keyspace[d], k, t) \in SnapshotType
  BY <1>1, SnapshotTyped
<1>4. watched' \in [Clients -> [Places -> SnapshotType \cup {Unwatched}]]
  BY <1>1, <1>3 DEF Watch
<1>5. now' \in Nat
  BY ClockType DEF Watch
<1> QED BY <1>2, <1>4, <1>5 DEF Watch

LEMMA SweepKeepsIInv ==
    ASSUME IInv, NEW t \in Clock, Sweep(t)
    PROVE  IInv'
<1> USE DEF IInv, TypeOK, OutsideClean
<1>1. keyspace' \in KeyspaceType
  BY SweepType DEF Sweep, KeyspaceType
<1>2. now' \in Nat
  BY ClockType DEF Sweep
<1> QED BY <1>1, <1>2 DEF Sweep, conns

\* A command outside MULTI, and one of exec()'s.
LEMMA CommandsKeepIInv ==
    ASSUME IInv, NEW c \in Clients, NEW ts \in Readings(now, MaxNow),
           (\E cmd \in Command : Execute(c, cmd, ts)) \/ ExecStep(c, ts)
    PROVE  IInv'
<1> USE DEF IInv, TypeOK, OutsideClean
<1>1. \A i \in 1 .. 4 : ts[i] \in Nat
  BY ReadingsType, TransactionsAssumption
<1>2. ts[1] \in Nat /\ ts[2] \in Nat /\ ts[Reads] \in Nat
  BY <1>1 DEF Reads
<1>3. ASSUME NEW cmd \in Command, Execute(c, cmd, ts) PROVE IInv'
  <2>1. execute_locked(keyspace, db_index[c], cmd, ts) \in KeyspaceType
    BY <1>2, ExecuteLockedType
  <2>2. select(db_index[c], cmd) \in DbIds
    BY SelectType
  <2> QED BY <1>2, <1>3, <2>1, <2>2 DEF Execute
<1>4. CASE ExecStep(c, ts)
  <2>1. queue # <<>>
    BY <1>4, TransactionsAssumption DEF ExecStep
  <2>2. Head(queue) \in Command /\ Tail(queue) \in Seq(Command)
    BY <2>1
  <2>3. execute_locked(keyspace, db_index[c], Head(queue), ts) \in KeyspaceType
    BY <1>2, <2>2, ExecuteLockedType
  <2>4. select(db_index[c], Head(queue)) \in DbIds
    BY SelectType
  <2> QED BY <1>2, <1>4, <2>2, <2>3, <2>4, TransactionsAssumption DEF ExecStep
<1> QED BY <1>3, <1>4

\* The three outcomes of EXEC's own checks.
LEMMA ExecKeepsIInv ==
    ASSUME IInv, NEW c \in Clients,
           ExecAbort(c) \/ \E readings : ExecDirty(c, readings) \/ ExecRun(c, readings)
    PROVE  IInv'
<1> USE FreshWatchedType, TransactionsAssumption
        DEF IInv, TypeOK, OutsideClean, TakeTransaction, Idle
<1>1. CASE ExecAbort(c)
  BY <1>1 DEF ExecAbort
<1>2. ASSUME NEW readings, ExecDirty(c, readings) PROVE IInv'
  <2>1. keyspace' \in KeyspaceType
    BY <1>2, PurgeAtType DEF ExecDirty
  <2>2. now' \in Nat
    BY <1>2, ClockType DEF ExecDirty
  <2> QED BY <1>2, <2>1, <2>2 DEF ExecDirty
<1>3. ASSUME NEW readings, ExecRun(c, readings) PROVE IInv'
  <2>1. keyspace' \in KeyspaceType
    BY <1>3, PurgeAtType DEF ExecRun
  <2>2. now' \in Nat
    BY <1>3, ClockType DEF ExecRun
  <2> QED BY <1>3, <2>1, <2>2 DEF ExecRun
<1> QED BY <1>1, <1>2, <1>3

LEMMA StepKeepsIInv ==
    ASSUME IInv, [Next]_vars
    PROVE  IInv'
<1>1. CASE UNCHANGED vars
  BY <1>1 DEF vars, IInv, TypeOK, OutsideClean
<1>2. ASSUME NEW t \in Clock, Sweep(t) PROVE IInv'
  BY <1>2, SweepKeepsIInv
<1>3. ASSUME NEW c \in Clients, NEW k \in Keys, NEW t \in Clock, Watch(c, k, t) PROVE IInv'
  BY <1>3, WatchKeepsIInv
<1>4. ASSUME NEW c \in Clients,
             \E S \in SUBSET Watching(c) : \E readings \in [S -> Clock] :
                ExecDirty(c, readings) \/ ExecRun(c, readings)
      PROVE  IInv'
  BY <1>4, ExecKeepsIInv
<1>5. ASSUME NEW c \in Clients, NEW ts \in Readings(now, MaxNow),
             (\E cmd \in Requests : Execute(c, cmd, ts)) \/ ExecStep(c, ts)
      PROVE  IInv'
  BY <1>5, CommandsKeepIInv, TransactionsAssumption
<1>6. ASSUME NEW c \in Clients,
             \/ Multi(c) \/ Discard(c) \/ Unwatch(c) \/ Reset(c) \/ Reconnect(c)
             \/ \E cmd \in Requests : QueueCommand(c, cmd)
      PROVE  IInv'
  BY <1>6, ConnStepsKeepIInv, TransactionsAssumption
<1>7. ASSUME NEW c \in Clients, ExecAbort(c) PROVE IInv'
  BY <1>7, ExecKeepsIInv
<1> QED
  BY <1>1, <1>2, <1>3, <1>4, <1>5, <1>6, <1>7 DEF Next

\* The state keeps the shape the code's types give it under every command.
THEOREM TypeCorrect == Spec => []TypeOK
<1>1. IInv => TypeOK
  BY DEF IInv
<1> QED BY InitIInv, StepKeepsIInv, <1>1, PTL DEF Spec

\* A step that takes a connection out of MULTI takes its watches away.
LEMMA WatchesEnd ==
    ASSUME IInv, [Next]_vars, NEW c \in Clients, in_multi[c], ~in_multi'[c]
    PROVE  watched'[c] = FreshWatched
<1> USE DEF IInv, TypeOK
<1>1. ~UNCHANGED in_multi
  OBVIOUS
<1>2. \A t : ~Sweep(t)
  BY <1>1 DEF Sweep, conns
<1>3. ASSUME NEW x \in Clients
      PROVE  /\ ~Multi(x) /\ ~Unwatch(x) /\ ~Reset(x)
             /\ \A k, t : ~Watch(x, k, t)
             /\ \A cmd : ~QueueCommand(x, cmd)
             /\ \A cmd, ts : ~Execute(x, cmd, ts)
             /\ \A ts : ~ExecStep(x, ts)
  BY <1>1 DEF Multi, Unwatch, Reset, Watch, QueueCommand, Execute, ExecStep
<1>4. ASSUME NEW x \in Clients,
             \/ Discard(x) \/ Reconnect(x) \/ ExecAbort(x)
             \/ \E readings : ExecDirty(x, readings) \/ ExecRun(x, readings)
      PROVE  /\ in_multi' = [in_multi EXCEPT ![x] = FALSE]
             /\ watched' = [watched EXCEPT ![x] = FreshWatched]
  BY <1>4 DEF Discard, Reconnect, ExecAbort, ExecDirty, ExecRun, TakeTransaction
<1>5. PICK x \in Clients : in_multi' = [in_multi EXCEPT ![x] = FALSE]
                          /\ watched' = [watched EXCEPT ![x] = FreshWatched]
  BY <1>1, <1>2, <1>3, <1>4 DEF Next, vars
<1>6. x = c
  BY <1>5
<1> QED BY <1>5, <1>6

\* However a transaction ends, no queued command, no error flag and no watch of
\* it is left for the next one, and the thread is held exactly while exec() has
\* commands to run.
THEOREM NothingLeftBehindHolds == Spec => NothingLeftBehind
<1>1. ASSUME IInv, [Next]_vars
      PROVE  [/\ OutsideClean'
              /\ \A c \in Clients : in_multi[c] /\ ~in_multi'[c] => Watching(c)' = {}]_vars
  <2>1. \A c \in Clients : in_multi[c] /\ ~in_multi'[c] => watched'[c] = FreshWatched
    BY <1>1, WatchesEnd
  <2>2. OutsideClean'
    BY <1>1, StepKeepsIInv DEF IInv
  <2> QED BY <2>1, <2>2 DEF Watching, FreshWatched
<1> QED BY InitIInv, StepKeepsIInv, <1>1, PTL DEF Spec, NothingLeftBehind

-----------------------------------------------------------------------------
(* WATCH *)

\* A snapshot's fingerprint is the fingerprint of the value it was taken of.
SnapshotsTrue ==
    \A c \in Clients : \A p \in Watching(c) :
        LET s == watched[c][p]
        IN  \/ s.fp = NoEntry /\ s.was = NoEntry
            \/ s.was \in Value /\ s.fp = FingerprintOf(s.was)

LEMMA SnapshotTrue ==
    ASSUME NEW db \in Db, NEW k \in Keys, NEW t
    PROVE  LET s == Snapshot(db, k, t)
           IN  \/ s.fp = NoEntry /\ s.was = NoEntry
               \/ s.was \in Value /\ s.fp = FingerprintOf(s.was)
BY LiveType DEF Snapshot, fingerprint

LEMMA StepKeepsSnapshots ==
    ASSUME IInv, SnapshotsTrue, [Next]_vars
    PROVE  SnapshotsTrue'
<1> USE DEF IInv, TypeOK
<1>1. CASE UNCHANGED watched
  BY <1>1 DEF SnapshotsTrue, Watching
<1>2. ASSUME NEW c \in Clients, watched' = [watched EXCEPT ![c] = FreshWatched]
      PROVE  SnapshotsTrue'
  BY <1>2 DEF SnapshotsTrue, Watching, FreshWatched
<1>3. ASSUME NEW c \in Clients, NEW k \in Keys, NEW t \in Clock, Watch(c, k, t)
      PROVE  SnapshotsTrue'
  <2> DEFINE d == db_index[c]
             s == Snapshot(keyspace[d], k, t)
  <2>1. keyspace[d] \in Db /\ <<d, k>> \in Places
    BY DEF KeyspaceType, Places
  <2>2. \/ s.fp = NoEntry /\ s.was = NoEntry
        \/ s.was \in Value /\ s.fp = FingerprintOf(s.was)
    BY <2>1, SnapshotTrue
  <2>3. watched' = [watched EXCEPT ![c] = [watched[c] EXCEPT ![<<d, k>>] = s]]
    BY <1>3 DEF Watch
  <2> HIDE DEF s
  <2>4. SUFFICES ASSUME NEW x \in Clients, NEW p \in Places, watched'[x][p] # Unwatched
                 PROVE  LET r == watched'[x][p]
                        IN  \/ r.fp = NoEntry /\ r.was = NoEntry
                            \/ r.was \in Value /\ r.fp = FingerprintOf(r.was)
    BY DEF SnapshotsTrue, Watching
  <2>5. CASE x = c /\ p = <<d, k>>
    BY <2>1, <2>2, <2>3, <2>5
  <2>6. CASE ~(x = c /\ p = <<d, k>>)
    <3>1. watched'[x][p] = watched[x][p]
      BY <2>1, <2>3, <2>6
    <3> QED BY <2>4, <3>1 DEF SnapshotsTrue, Watching
  <2> QED BY <2>5, <2>6
<1>4. ASSUME NEW c \in Clients,
             \/ Multi(c) \/ (\E cmd \in Requests : QueueCommand(c, cmd))
             \/ (\E cmd \in Requests, ts \in Readings(now, MaxNow) : Execute(c, cmd, ts))
             \/ \E ts \in Readings(now, MaxNow) : ExecStep(c, ts)
      PROVE  UNCHANGED watched
  BY <1>4 DEF Multi, QueueCommand, Execute, ExecStep
<1>5. ASSUME NEW c \in Clients,
             \/ Discard(c) \/ Unwatch(c) \/ Reset(c) \/ Reconnect(c) \/ ExecAbort(c)
             \/ \E readings : ExecDirty(c, readings) \/ ExecRun(c, readings)
      PROVE  watched' = [watched EXCEPT ![c] = FreshWatched]
  BY <1>5 DEF Discard, Unwatch, Reset, Reconnect, ExecAbort, ExecDirty, ExecRun, TakeTransaction
<1>6. ASSUME NEW t, Sweep(t) PROVE UNCHANGED watched
  BY <1>6 DEF Sweep, conns
<1>7. CASE UNCHANGED vars
  BY <1>1, <1>7 DEF vars
<1>8. CASE Next
  BY <1>1, <1>2, <1>3, <1>4, <1>5, <1>6, <1>8 DEF Next
<1> QED
  BY <1>7, <1>8

\* Two values with one fingerprint, or the lack of one, are Indistinct.
LEMMA FingerprintTells ==
    ASSUME NEW v \in Value, NEW was \in Value, FingerprintOf(v) = FingerprintOf(was)
    PROVE  Indistinct(v, was)
<1>1. v.type = "stream" <=> was.type = "stream"
  BY DEF FingerprintOf
<1>2. CASE v.type # "stream"
  BY <1>1, <1>2 DEF FingerprintOf, Indistinct
<1>3. CASE v.type = "stream"
  BY <1>1, <1>3, StreamTyped DEF Indistinct
<1> QED BY <1>2, <1>3


\* What exec()'s visit of one watched place establishes when it matches: the
\* purge that follows leaves there what the snapshot was taken of.
LEMMA MatchMeansUnchanged ==
    ASSUME IInv, SnapshotsTrue, NEW c \in Clients, NEW p \in Watching(c), NEW readings,
           p \in DOMAIN readings, Matches(c, p, readings[p])
    PROVE  LET e == PurgeAt(keyspace, readings)[p[1]][p[2]]
           IN  Indistinct(IF e = NoEntry THEN NoEntry ELSE e.value, watched[c][p].was)
<1> DEFINE s == watched[c][p]
           old == keyspace[p[1]][p[2]]
           t == readings[p]
           e == PurgeAt(keyspace, readings)[p[1]][p[2]]
<1>1. p \in Places /\ p[1] \in DbIds /\ p[2] \in Keys /\ p = <<p[1], p[2]>>
  BY DEF Watching, Places
<1>2. keyspace[p[1]] \in Db /\ old \in Entry \cup {NoEntry}
  BY <1>1 DEF IInv, TypeOK, KeyspaceType, Db
<1>3. e = IF Expired(old, t) THEN NoEntry ELSE old
  BY <1>1 DEF PurgeAt
<1>4. \/ s.fp = NoEntry /\ s.was = NoEntry
      \/ s.was \in Value /\ s.fp = FingerprintOf(s.was)
  BY DEF SnapshotsTrue
<1>5. fingerprint(keyspace[p[1]], p[2], t) = s.fp
  BY DEF Matches
<1>6. \A v \in Value : FingerprintOf(v) # NoEntry
  <2>1. ASSUME NEW v \in Value PROVE FingerprintOf(v) # NoEntry
    <3>1. CASE v.type = "stream"
      <4> DEFINE len == Cardinality(DOMAIN v.entries)
      <4>2. FingerprintOf(v) = [type |-> "stream", len |-> len, last_id |-> v.last_id]
        BY <3>1 DEF FingerprintOf
      <4>3. v.last_id \in Nat
        BY <3>1, StreamTyped, KeyspaceAssumption DEF StreamValue
      <4>4. len \in Nat
        <5>1. PICK S \in SUBSET (1 .. MaxId) : v.entries \in [S -> Fields]
          BY <3>1, StreamTyped DEF StreamValue, StreamEntries
        <5>2. IsFiniteSet(1 .. MaxId)
          BY FS_Interval, KeyspaceAssumption
        <5> QED BY <5>1, <5>2, FS_Subset, FS_CardinalityType
      <4> HIDE DEF len
      <4>5. FingerprintOf(v) \in [type : {"stream"}, len : Nat, last_id : Nat]
        BY <4>2, <4>3, <4>4
      <4> QED BY <4>5, AbsenceAssumption
    <3>2. CASE v.type # "stream"
      BY <3>2, AbsenceAssumption DEF FingerprintOf, Value, StreamValue
    <3> QED BY <3>1, <3>2
  <2> QED BY <2>1
<1> HIDE DEF s, old, t, e
<1>7. CASE LiveEntry(old, t)
  <2>1. fingerprint(keyspace[p[1]], p[2], t) = FingerprintOf(old.value) /\ e = old
    BY <1>3, <1>7 DEF fingerprint, contains, old, LiveEntry
  <2>2. old.value \in Value /\ old # NoEntry
    BY <1>2, <1>7 DEF Entry, LiveEntry
  <2>3. s.was \in Value /\ FingerprintOf(old.value) = FingerprintOf(s.was)
    BY <1>4, <1>5, <1>6, <2>1, <2>2
  <2> QED BY <2>1, <2>2, <2>3, FingerprintTells DEF e, s
<1>8. CASE ~LiveEntry(old, t)
  <2>1. fingerprint(keyspace[p[1]], p[2], t) = NoEntry /\ e = NoEntry
    BY <1>3, <1>8 DEF fingerprint, contains, old, LiveEntry, Expired
  <2>2. s.was = NoEntry
    BY <1>4, <1>5, <1>6, <2>1
  <2> QED BY <2>1, <2>2 DEF e, s, Indistinct
<1> QED BY <1>7, <1>8

\* WATCH keeps its promise for any number of clients, keys and databases: what
\* exec() found unchanged, and has just purged, is what WATCH saw.
THEOREM WatchedUnchangedHolds == Spec => WatchedUnchanged
<1> DEFINE I == IInv /\ SnapshotsTrue
<1>1. Init => I
  BY InitIInv DEF Init, SnapshotsTrue, Watching, FreshWatched
<1>2. ASSUME I, [Next]_vars PROVE I'
  BY <1>2, StepKeepsIInv, StepKeepsSnapshots
<1>3. ASSUME I, [Next]_vars
      PROVE  [\A c \in Clients : executing = Nobody /\ executing' = c =>
                \A p \in Watching(c) :
                    LET e == keyspace'[p[1]][p[2]]
                    IN  Indistinct(IF e = NoEntry THEN NoEntry ELSE e.value,
                                   watched[c][p].was)]_vars
  <2>1. SUFFICES ASSUME Next, NEW c \in Clients, executing = Nobody, executing' = c,
                        NEW p \in Watching(c)
                 PROVE  LET e == keyspace'[p[1]][p[2]]
                        IN  Indistinct(IF e = NoEntry THEN NoEntry ELSE e.value,
                                       watched[c][p].was)
    BY <1>3
  <2>2. c # Nobody
    BY TransactionsAssumption
  <2>3. PICK x \in Clients : \E readings : ExecRun(x, readings)
    <3>1. \A t : ~Sweep(t)
      BY <2>1, <2>2 DEF Sweep
    <3>2. ASSUME NEW x
          PROVE  /\ ~Multi(x) /\ ~Discard(x) /\ ~Unwatch(x) /\ ~Reset(x) /\ ~Reconnect(x)
                 /\ \A k, t : ~Watch(x, k, t)
                 /\ \A cmd : ~QueueCommand(x, cmd)
                 /\ \A cmd, ts : ~Execute(x, cmd, ts)
      BY <2>1, <2>2 DEF Multi, Discard, Unwatch, Reset, Reconnect, Watch, QueueCommand, Execute
    <3>3. ASSUME NEW x PROVE ~ExecAbort(x) /\ \A readings : ~ExecDirty(x, readings)
      BY <2>1, <2>2 DEF ExecAbort, ExecDirty
    <3>4. ASSUME NEW x \in Clients PROVE \A ts : ~ExecStep(x, ts)
      BY <2>1, TransactionsAssumption DEF ExecStep
    <3> QED BY <2>1, <3>1, <3>2, <3>3, <3>4 DEF Next
  <2>4. PICK readings : ExecRun(x, readings)
    BY <2>3
  <2>5. x = c
    BY <2>1, <2>2, <2>4 DEF ExecRun
  <2>6. /\ p \in DOMAIN readings /\ Matches(c, p, readings[p])
        /\ keyspace' = PurgeAt(keyspace, readings)
    BY <2>1, <2>4, <2>5 DEF ExecRun
  <2> QED BY <1>3, <2>1, <2>6, MatchMeansUnchanged
<1> QED BY <1>1, <1>2, <1>3, PTL DEF Spec, WatchedUnchanged

=============================================================================
