---------------------- MODULE OptimisticCounterProofs -----------------------
(***************************************************************************)
(* Optimistic locking with WATCH loses no update, for any number of        *)
(* clients and databases.                                                  *)
(***************************************************************************)
EXTENDS OptimisticCounter, TransactionsProofs

-----------------------------------------------------------------------------
(* The inductive invariant *)

CounterTypeOK ==
    /\ phase \in [Clients -> {"idle", "watching", "read", "multi", "queued"}]
    /\ seen \in [Clients -> Nat]
    /\ commits \in [DbIds -> Nat]

\* A counter holds the number of its commits, without an expiry.
CountersExact ==
    \A d \in DbIds :
        \/ keyspace[d][Counter] = NoEntry /\ commits[d] = 0
        \/ /\ commits[d] \in Strings
           /\ keyspace[d][Counter] = [value |-> Str(commits[d]), expire_at |-> NoTtl]

\* Where a client is in the pattern is what the server knows of it.
InStep(c) ==
    /\ phase[c] \in {"idle", "watching", "read"} => ~in_multi[c]
    /\ phase[c] = "multi" => in_multi[c] /\ multi_queue[c] = <<>>
    /\ phase[c] = "queued" => seen[c] + 1 \in Strings
    /\ phase[c] = "queued" /\ executing # c =>
        in_multi[c] /\ multi_queue[c] = <<Increment(c)>>

\* The snapshot was taken of a counter no larger than the one read later, and a
\* counter never shrinks: a snapshot that matches means the reading is current.
WatchBehind(c) ==
    LET d == db_index[c]
        w == watched[c][<<d, Counter>>]
    IN  phase[c] # "idle" /\ executing # c =>
            /\ w # Unwatched
            /\ \E v \in Nat :
                /\ (w.fp = NoEntry /\ v = 0) \/ (w.fp = Str(v) /\ v \in Strings)
                /\ v <= commits[d]
                /\ phase[c] # "watching" => v <= seen[c] /\ seen[c] <= commits[d]

\* Inside exec() what was read is current.
ExecCurrent(c) ==
    executing = c => /\ phase[c] = "queued" /\ ~in_multi[c]
                     /\ queue = <<Increment(c)>>
                     /\ seen[c] = commits[db_index[c]]

CInv ==
    /\ IInv
    /\ CounterTypeOK
    /\ CountersExact
    /\ \A c \in Clients : InStep(c) /\ WatchBehind(c) /\ ExecCurrent(c)

LEMMA CounterInitCInv == CounterInit => CInv
<1> SUFFICES ASSUME CounterInit PROVE CInv
  OBVIOUS
<1>1. IInv
  BY InitIInv DEF CounterInit
<1>2. CountersExact
  BY CounterAssumption DEF CounterInit, Init, CountersExact, EmptyKeyspace, EmptyDb
<1>3. \A c \in Clients : InStep(c) /\ WatchBehind(c) /\ ExecCurrent(c)
  BY TransactionsAssumption DEF CounterInit, Init, InStep, WatchBehind, ExecCurrent
<1> QED
  BY <1>1, <1>2, <1>3 DEF CInv, CounterInit, CounterTypeOK

-----------------------------------------------------------------------------
(* The counters *)

LEMMA AbsentIsZero ==
    ASSUME CInv, NEW d \in DbIds, keyspace[d][Counter] = NoEntry
    PROVE  commits[d] = 0
<1>1. ASSUME NEW n \in Strings PROVE [value |-> Str(n), expire_at |-> NoTtl] # NoEntry
  <2>1. Str(n) \in Value
    BY DEF Str, Value, StringValue
  <2>2. [value |-> Str(n), expire_at |-> NoTtl] \in Entry
    BY <2>1 DEF Entry, Expiry
  <2> QED BY <2>2, AbsenceAssumption
<1> QED BY <1>1 DEF CInv, CountersExact

\* A counter has no expiry, so every reading of the clock finds it.
LEMMA CounterLive ==
    ASSUME CInv, NEW d \in DbIds, NEW t
    PROVE  /\ ~Expired(keyspace[d][Counter], t)
           /\ fingerprint(keyspace[d], Counter, t) =
                IF commits[d] = 0 /\ keyspace[d][Counter] = NoEntry
                THEN NoEntry ELSE Str(commits[d])
           /\ Reading(d, t) = commits[d]
<1>1. commits[d] \in Nat /\ keyspace[d][Counter] \in Entry \cup {NoEntry}
  BY CounterAssumption DEF CInv, CounterTypeOK, IInv, TypeOK, KeyspaceType, Db
<1>2. CASE keyspace[d][Counter] = NoEntry /\ commits[d] = 0
  BY <1>2 DEF Expired, fingerprint, contains, LiveEntry, Reading
<1>3. CASE keyspace[d][Counter] # NoEntry
  <2>1. keyspace[d][Counter] = [value |-> Str(commits[d]), expire_at |-> NoTtl]
    BY <1>3 DEF CInv, CountersExact
  <2>2. LiveEntry(keyspace[d][Counter], t) /\ ~Expired(keyspace[d][Counter], t)
    BY <1>3, <2>1 DEF LiveEntry, Expired
  <2>3. FingerprintOf(keyspace[d][Counter].value) = Str(commits[d])
    BY <2>1 DEF FingerprintOf, Str
  <2> QED
    BY <1>3, <2>1, <2>2, <2>3 DEF fingerprint, contains, Reading, Str
<1>4. keyspace[d][Counter] = NoEntry => commits[d] = 0
  BY AbsentIsZero
<1> QED
  BY <1>2, <1>3, <1>4

LEMMA CountersKept ==
    ASSUME CInv, UNCHANGED commits,
           \A d \in DbIds : keyspace'[d][Counter] = keyspace[d][Counter]
    PROVE  CountersExact'
BY DEF CInv, CountersExact

\* What WATCH, GET and SELECT and the visit of EXEC leave of the counters.
LEMMA PurgeUntouched ==
    ASSUME CInv, NEW d0 \in DbIds, NEW t
    PROVE  [keyspace EXCEPT ![d0] = purge_if_expired(@, Counter, t)] = keyspace
<1>1. ~Expired(keyspace[d0][Counter], t) /\ keyspace \in KeyspaceType
  BY CounterLive DEF CInv, IInv, TypeOK
<1> QED
  BY <1>1 DEF purge_if_expired, KeyspaceType

LEMMA CommandsUntouched ==
    ASSUME CInv, NEW d0 \in DbIds, NEW ts, NEW dst
    PROVE  /\ execute_locked(keyspace, d0, [op |-> "GET", key |-> Counter], ts) = keyspace
           /\ execute_locked(keyspace, d0, [op |-> "SELECT", db |-> dst], ts) = keyspace
<1>1. execute_locked(keyspace, d0, [op |-> "GET", key |-> Counter], ts)
        = [keyspace EXCEPT ![d0] = purge_if_expired(@, Counter, ts[1])]
  BY DEF execute_locked
<1>2. execute_locked(keyspace, d0, [op |-> "SELECT", db |-> dst], ts) = keyspace
  BY DEF execute_locked
<1> QED
  BY <1>1, <1>2, PurgeUntouched

LEMMA VisitUntouched ==
    ASSUME CInv, NEW readings, NEW d \in DbIds
    PROVE  PurgeAt(keyspace, readings)[d][Counter] = keyspace[d][Counter]
<1>1. \A u : ~Expired(keyspace[d][Counter], u)
  BY CounterLive
<1> QED
  BY <1>1, CounterAssumption DEF PurgeAt

\* The queued SET adds one.
LEMMA IncrementEffect ==
    ASSUME CInv, NEW c \in Clients, NEW d \in DbIds, NEW ts
    PROVE  execute_locked(keyspace, d, Increment(c), ts) =
            [keyspace EXCEPT ![d] =
                [@ EXCEPT ![Counter] = [value |-> Str(seen[c] + 1), expire_at |-> NoTtl]]]
<1> DEFINE cmd == Increment(c)
<1>1. /\ cmd.op = "SET" /\ cmd.key = Counter /\ cmd.val = seen[c] + 1 /\ cmd.opts = {}
      /\ cmd.keepttl = FALSE /\ cmd.px = NoTtl /\ NoTtl # 0
  BY KeyspaceAssumption DEF Increment
<1>2. purge_if_expired(keyspace[d], Counter, ts[3]) = keyspace[d]
  BY CounterLive DEF purge_if_expired
<1> HIDE DEF cmd
<1>3. Set(keyspace[d], cmd, ts) = put(keyspace[d], Counter, Str(seen[c] + 1), NoTtl)
  BY <1>1, <1>2 DEF Set, SetDeadline
<1>4. execute_locked(keyspace, d, cmd, ts) = [keyspace EXCEPT ![d] = Set(keyspace[d], cmd, ts)]
  BY <1>1 DEF execute_locked
<1> QED
  BY <1>3, <1>4 DEF put, cmd

-----------------------------------------------------------------------------
(* The steps *)

\* A step that touches nothing of a client but, perhaps, raises the counters.
Steady(x) ==
    /\ executing # x /\ executing' # x
    /\ phase'[x] = phase[x] /\ seen'[x] = seen[x] /\ db_index'[x] = db_index[x]
    /\ in_multi'[x] = in_multi[x] /\ multi_queue'[x] = multi_queue[x]
    /\ watched'[x] = watched[x]
    /\ \A d \in DbIds : commits'[d] \in Nat /\ commits[d] <= commits'[d]

LEMMA OthersKept ==
    ASSUME CInv, NEW x \in Clients, Steady(x)
    PROVE  (InStep(x) /\ WatchBehind(x) /\ ExecCurrent(x))'
<1> USE DEF Steady
<1>1. InStep(x) /\ WatchBehind(x) /\ ExecCurrent(x)
  BY DEF CInv
<1>2. InStep(x)' /\ ExecCurrent(x)'
  BY <1>1 DEF InStep, ExecCurrent, Increment
<1>3. WatchBehind(x)'
  <2> DEFINE d == db_index[x]
             w == watched[x][<<d, Counter>>]
  <2>1. d \in DbIds /\ seen[x] \in Nat /\ commits[d] \in Nat
    BY DEF CInv, IInv, TypeOK, CounterTypeOK
  <2>2. commits'[d] \in Nat /\ commits[d] <= commits'[d]
    BY <2>1
  <2>3. CASE phase[x] = "idle"
    BY <2>3 DEF WatchBehind
  <2>4. CASE phase[x] # "idle"
    <3>1. w # Unwatched
      BY <1>1, <2>4 DEF WatchBehind
    <3>2. PICK v \in Nat :
            /\ (w.fp = NoEntry /\ v = 0) \/ (w.fp = Str(v) /\ v \in Strings)
            /\ v <= commits[d]
            /\ phase[x] # "watching" => v <= seen[x] /\ seen[x] <= commits[d]
      BY <1>1, <2>4 DEF WatchBehind
    <3>3. /\ v <= commits'[d]
          /\ phase[x] # "watching" => v <= seen[x] /\ seen[x] <= commits'[d]
      BY <2>1, <2>2, <3>2
    <3> QED
      BY <3>1, <3>2, <3>3 DEF WatchBehind
  <2> QED BY <2>3, <2>4
<1> QED BY <1>2, <1>3

\* A client that has gone idle holds no promise.
LEMMA IdleKept ==
    ASSUME NEW c \in Clients, phase'[c] = "idle", ~in_multi'[c], executing' # c
    PROVE  (InStep(c) /\ WatchBehind(c) /\ ExecCurrent(c))'
BY DEF InStep, WatchBehind, ExecCurrent

LEMMA CounterCommands ==
    ASSUME NEW c \in Clients, NEW d \in DbIds
    PROVE  /\ [op |-> "GET", key |-> Counter] \in Command
           /\ [op |-> "SELECT", db |-> d] \in Command
           /\ seen[c] + 1 \in Strings => Increment(c) \in Command
<1>1. [op |-> "GET", key |-> Counter] \in KeyCommand
  BY CounterAssumption DEF KeyCommand
<1>2. [op |-> "SELECT", db |-> d] \in SelectCommand
  BY DEF SelectCommand, DbIds
<1>3. seen[c] + 1 \in Strings => Increment(c) \in SetCommand
  BY CounterAssumption DEF SetCommand, Increment
<1> QED
  BY <1>1, <1>2, <1>3 DEF Command

LEMMA StartWatchKeeps ==
    ASSUME CInv, NEW c \in Clients, StartWatch(c)
    PROVE  CInv'
<1> DEFINE d == db_index[c]
           P == <<d, Counter>>
<1>1. PICK t \in Clock : Watch(c, Counter, t)
  BY DEF StartWatch
<1>2. /\ executing = Nobody /\ executing' = Nobody /\ ~in_multi[c]
      /\ keyspace' = [keyspace EXCEPT ![d] = purge_if_expired(@, Counter, t)]
      /\ watched' = [watched EXCEPT ![c] = [@ EXCEPT ![P] = Snapshot(keyspace[d], Counter, t)]]
      /\ UNCHANGED <<db_index, in_multi, multi_queue, seen, commits>>
      /\ phase[c] = "idle" /\ phase' = [phase EXCEPT ![c] = "watching"]
  BY <1>1 DEF Watch, Idle, StartWatch, Goto
<1>3. IInv'
  BY <1>1, CounterAssumption, WatchKeepsIInv DEF CInv
<1>4. d \in DbIds /\ P \in Places /\ keyspace[d] \in Db /\ commits[d] \in Nat
  BY CounterAssumption DEF CInv, IInv, TypeOK, CounterTypeOK, Places, KeyspaceType
<1>5. CounterTypeOK'
  BY <1>2 DEF CInv, CounterTypeOK
<1>6. CountersExact'
  <2>1. keyspace' = keyspace
    BY <1>2, <1>4, PurgeUntouched
  <2> QED BY <1>2, <2>1, CountersKept
<1>7. ASSUME NEW x \in Clients, x # c
      PROVE  (InStep(x) /\ WatchBehind(x) /\ ExecCurrent(x))'
  <2>1. Steady(x)
    BY <1>2, <1>7, TransactionsAssumption DEF CInv, IInv, TypeOK, CounterTypeOK, Steady
  <2> QED BY <2>1, OthersKept
<1>8. (InStep(c) /\ WatchBehind(c) /\ ExecCurrent(c))'
  <2> DEFINE w == Snapshot(keyspace[d], Counter, t)
  <2>1. phase'[c] = "watching" /\ watched'[c][P] = w /\ executing' # c
    BY <1>2, <1>4, TransactionsAssumption DEF CInv, IInv, TypeOK, CounterTypeOK
  <2>2. w # Unwatched
    BY <1>4, CounterAssumption, SnapshotTyped, WatchAssumption
  <2>3. w.fp = IF commits[d] = 0 /\ keyspace[d][Counter] = NoEntry
               THEN NoEntry ELSE Str(commits[d])
    BY <1>4, CounterLive DEF Snapshot
  <2>4. keyspace[d][Counter] = NoEntry => commits[d] = 0
    BY <1>4, AbsentIsZero
  <2>5. (w.fp = NoEntry /\ commits[d] = 0) \/ (w.fp = Str(commits[d]) /\ commits[d] \in Strings)
    BY <1>4, <2>3, <2>4 DEF CInv, CountersExact
  <2> HIDE DEF w
  <2>6. WatchBehind(c)'
    BY <1>2, <1>4, <2>1, <2>2, <2>5 DEF WatchBehind
  <2> QED
    BY <1>2, <2>1, <2>6 DEF InStep, ExecCurrent
<1> QED
  BY <1>3, <1>5, <1>6, <1>7, <1>8 DEF CInv

LEMMA ReadKeeps ==
    ASSUME CInv, NEW c \in Clients, Read(c)
    PROVE  CInv'
<1> DEFINE d == db_index[c]
           get == [op |-> "GET", key |-> Counter]
<1>1. PICK ts \in Readings(now, MaxNow) :
        Execute(c, get, ts) /\ seen' = [seen EXCEPT ![c] = Reading(d, ts[1])]
  BY DEF Read
<1>2. d \in DbIds /\ commits[d] \in Nat
  BY DEF CInv, IInv, TypeOK, CounterTypeOK
<1>3. select(d, get) = d
  BY DEF select
<1>4. /\ executing = Nobody /\ executing' = Nobody /\ ~in_multi[c]
      /\ keyspace' = execute_locked(keyspace, d, get, ts)
      /\ UNCHANGED <<db_index, in_multi, multi_queue, watched, commits>>
      /\ phase[c] = "watching" /\ phase' = [phase EXCEPT ![c] = "read"]
      /\ seen' = [seen EXCEPT ![c] = commits[d]]
  BY <1>1, <1>2, <1>3, CounterLive DEF Execute, Idle, Read, Goto, CInv, IInv, TypeOK
<1>5. IInv'
  BY <1>1, <1>2, CounterCommands, CommandsKeepIInv DEF CInv
<1>6. CounterTypeOK'
  BY <1>2, <1>4 DEF CInv, CounterTypeOK
<1>7. CountersExact'
  BY <1>2, <1>4, CommandsUntouched, CountersKept
<1>8. ASSUME NEW x \in Clients, x # c
      PROVE  (InStep(x) /\ WatchBehind(x) /\ ExecCurrent(x))'
  <2>1. Steady(x)
    BY <1>4, <1>8, TransactionsAssumption DEF CInv, IInv, TypeOK, CounterTypeOK, Steady
  <2> QED BY <2>1, OthersKept
<1>9. (InStep(c) /\ WatchBehind(c) /\ ExecCurrent(c))'
  <2>1. phase'[c] = "read" /\ seen'[c] = commits[d] /\ executing' # c /\ executing # c
    BY <1>4, TransactionsAssumption DEF CInv, CounterTypeOK
  <2>2. WatchBehind(c)
    BY DEF CInv
  <2>3. WatchBehind(c)'
    BY <1>2, <1>4, <2>1, <2>2 DEF WatchBehind
  <2> QED
    BY <1>4, <2>1, <2>3 DEF InStep, ExecCurrent
<1> QED
  BY <1>5, <1>6, <1>7, <1>8, <1>9 DEF CInv

\* MULTI, and the SET that is queued.
LEMMA QueueingKeeps ==
    ASSUME CInv, NEW c \in Clients, Begin(c) \/ Enqueue(c)
    PROVE  CInv'
<1> DEFINE d == db_index[c]
           inc == Increment(c)
<1>1. /\ executing = Nobody /\ executing' = Nobody
      /\ UNCHANGED <<keyspace, db_index, watched, seen, commits>>
      /\ \A x \in Clients \ {c} : /\ phase'[x] = phase[x] /\ in_multi'[x] = in_multi[x]
                                  /\ multi_queue'[x] = multi_queue[x]
      /\ in_multi'[c]
      /\ \/ phase[c] = "read" /\ phase' = [phase EXCEPT ![c] = "multi"] /\ multi_queue'[c] = <<>>
         \/ /\ phase[c] = "multi" /\ phase' = [phase EXCEPT ![c] = "queued"]
            /\ multi_queue'[c] = <<inc>> /\ seen[c] + 1 \in Strings
  <2>1. CASE Begin(c)
    BY <2>1 DEF Begin, Goto, Multi, Idle, CInv, IInv, TypeOK, CounterTypeOK
  <2>2. CASE Enqueue(c)
    <3>1. inc.op = "SET"
      BY DEF Increment
    <3> HIDE DEF inc
    <3>2. /\ executing = Nobody /\ phase[c] = "multi" /\ in_multi[c]
          /\ phase' = [phase EXCEPT ![c] = "queued"]
          /\ multi_queue' = [multi_queue EXCEPT ![c] = Append(@, inc)]
          /\ UNCHANGED <<keyspace, db_index, in_multi, watched, executing, seen, commits>>
          /\ seen[c] + 1 \in Strings
      BY <2>2, <3>1 DEF Enqueue, Goto, QueueCommand, Idle, inc
    <3>3. multi_queue[c] = <<>>
      BY <3>2 DEF CInv, InStep
    <3>4. Append(multi_queue[c], inc) = <<inc>>
      BY <3>3
    <3> QED
      BY <3>2, <3>4 DEF CInv, IInv, TypeOK, CounterTypeOK
  <2> QED BY <2>1, <2>2
<1>2. IInv'
  <2>1. CASE Begin(c)
    BY <2>1, ConnStepsKeepIInv DEF Begin, CInv
  <2>2. CASE Enqueue(c)
    <3>1. seen[c] + 1 \in Strings /\ QueueCommand(c, inc)
      BY <2>2 DEF Enqueue
    <3>2. d \in DbIds
      BY DEF CInv, IInv, TypeOK
    <3>3. inc \in Command
      BY <3>1, <3>2, CounterCommands
    <3> QED BY <3>1, <3>3, ConnStepsKeepIInv DEF CInv
  <2> QED BY <2>1, <2>2
<1>3. CounterTypeOK'
  BY <1>1 DEF CInv, CounterTypeOK
<1>4. CountersExact'
  BY <1>1, CountersKept
<1>5. ASSUME NEW x \in Clients, x # c
      PROVE  (InStep(x) /\ WatchBehind(x) /\ ExecCurrent(x))'
  <2>1. Steady(x)
    BY <1>1, <1>5, TransactionsAssumption DEF CInv, IInv, TypeOK, CounterTypeOK, Steady
  <2> QED BY <2>1, OthersKept
<1>6. (InStep(c) /\ WatchBehind(c) /\ ExecCurrent(c))'
  <2>1. /\ phase'[c] \in {"multi", "queued"} /\ executing' # c /\ executing # c
        /\ phase[c] \notin {"idle", "watching"}
        /\ phase'[c] = "multi" => multi_queue'[c] = <<>>
        /\ phase'[c] = "queued" => multi_queue'[c] = <<inc>> /\ seen[c] + 1 \in Strings
    BY <1>1, TransactionsAssumption DEF CInv, CounterTypeOK
  <2>2. WatchBehind(c)
    BY DEF CInv
  <2>3. WatchBehind(c)'
    BY <1>1, <2>1, <2>2 DEF WatchBehind
  <2>4. inc' = inc
    BY <1>1 DEF Increment
  <2>5. InStep(c)'
    BY <1>1, <2>1, <2>4 DEF InStep
  <2> QED
    BY <2>1, <2>3, <2>5 DEF ExecCurrent
<1> QED
  BY <1>2, <1>3, <1>4, <1>5, <1>6 DEF CInv

\* EXEC's check: the queue runs only over a counter that is still what was read.
LEMMA TryCommitKeeps ==
    ASSUME CInv, NEW c \in Clients, TryCommit(c)
    PROVE  CInv'
<1> DEFINE d == db_index[c]
           P == <<d, Counter>>
<1>1. PICK readings :
        \/ ExecRun(c, readings) /\ UNCHANGED phase
        \/ ExecDirty(c, readings) /\ phase' = [phase EXCEPT ![c] = "idle"]
  BY DEF TryCommit
<1>2. /\ executing = Nobody /\ keyspace' = PurgeAt(keyspace, readings)
      /\ in_multi' = [in_multi EXCEPT ![c] = FALSE]
      /\ multi_queue' = [multi_queue EXCEPT ![c] = <<>>]
      /\ watched' = [watched EXCEPT ![c] = FreshWatched]
      /\ phase[c] = "queued" /\ executing' \in {Nobody, c}
      /\ UNCHANGED <<db_index, seen, commits>>
      /\ phase' = phase \/ phase' = [phase EXCEPT ![c] = "idle"]
  BY <1>1 DEF TryCommit, ExecRun, ExecDirty, TakeTransaction, Idle
<1>3. IInv'
  BY <1>1, ExecKeepsIInv DEF CInv
<1>4. CounterTypeOK'
  BY <1>2 DEF CInv, CounterTypeOK
<1>5. CountersExact'
  BY <1>2, VisitUntouched, CountersKept
<1>6. ASSUME NEW x \in Clients, x # c
      PROVE  (InStep(x) /\ WatchBehind(x) /\ ExecCurrent(x))'
  <2>1. Steady(x)
    BY <1>2, <1>6, TransactionsAssumption DEF CInv, IInv, TypeOK, CounterTypeOK, Steady
  <2> QED BY <2>1, OthersKept
<1>7. executing # c /\ c # Nobody
  BY <1>2, TransactionsAssumption
<1>8. CASE ExecDirty(c, readings) /\ phase' = [phase EXCEPT ![c] = "idle"]
  <2>1. phase'[c] = "idle" /\ ~in_multi'[c] /\ executing' # c
    BY <1>2, <1>7, <1>8 DEF ExecDirty, CInv, IInv, TypeOK, CounterTypeOK
  <2> QED
    BY <1>3, <1>4, <1>5, <1>6, <2>1, IdleKept DEF CInv
<1>9. CASE ExecRun(c, readings) /\ UNCHANGED phase
  <2>1. multi_queue[c] = <<Increment(c)>> /\ seen[c] + 1 \in Strings
    BY <1>2, <1>7 DEF CInv, InStep
  <2>2. executing' = c /\ queue' = <<Increment(c)>>
    BY <1>9, <2>1 DEF ExecRun
  <2>3. d \in DbIds /\ commits[d] \in Nat /\ seen[c] \in Nat /\ P \in Places
    BY CounterAssumption DEF CInv, IInv, TypeOK, CounterTypeOK, Places
  <2>4. watched[c][P] # Unwatched
    BY <1>2, <1>7 DEF CInv, WatchBehind
  <2>5. PICK v \in Nat :
            /\ (watched[c][P].fp = NoEntry /\ v = 0)
               \/ (watched[c][P].fp = Str(v) /\ v \in Strings)
            /\ v <= commits[d] /\ v <= seen[c] /\ seen[c] <= commits[d]
    BY <1>2, <1>7 DEF CInv, WatchBehind
  <2>6. Matches(c, P, readings[P])
    BY <1>9, <2>3, <2>4 DEF ExecRun, Watching
  <2>7. fingerprint(keyspace[d], Counter, readings[P]) = watched[c][P].fp
    BY <2>6 DEF Matches
  <2>8. seen[c] = commits[d]
    <3>1. CASE commits[d] = 0
      BY <2>3, <2>5, <3>1
    <3>2. CASE commits[d] # 0
      <4>1. watched[c][P].fp = Str(commits[d]) /\ commits[d] \in Strings
        BY <2>3, <2>7, <3>2, CounterLive DEF CInv, CountersExact
      <4>2. Str(commits[d]) # NoEntry
        BY <4>1, AbsenceAssumption DEF Str, StringValue
      <4>3. Str(v) = Str(commits[d])
        BY <2>5, <4>1, <4>2
      <4>4. v = commits[d]
        BY <4>3 DEF Str
      <4> QED BY <2>3, <2>5, <4>4
    <3> QED BY <3>1, <3>2
  <2>9. /\ phase'[c] = "queued" /\ db_index'[c] = d /\ seen' = seen /\ commits' = commits
        /\ ~in_multi'[c]
    BY <1>2, <1>9 DEF CInv, IInv, TypeOK
  <2>10. (InStep(c) /\ WatchBehind(c) /\ ExecCurrent(c))'
    BY <2>1, <2>2, <2>8, <2>9 DEF InStep, WatchBehind, ExecCurrent, Increment
  <2> QED
    BY <1>3, <1>4, <1>5, <1>6, <2>10 DEF CInv
<1> QED
  BY <1>1, <1>8, <1>9

\* exec() runs the SET: the counter and its commits rise together.
LEMMA CommitKeeps ==
    ASSUME CInv, NEW c \in Clients, Commit(c)
    PROVE  CInv'
<1> DEFINE d == db_index[c]
           inc == Increment(c)
<1>1. PICK ts \in Readings(now, MaxNow) : ExecStep(c, ts)
  BY DEF Commit
<1>2. executing = c /\ c # Nobody
  BY <1>1, TransactionsAssumption DEF ExecStep
<1>3. queue = <<inc>> /\ seen[c] = commits[d] /\ phase[c] = "queued" /\ seen[c] + 1 \in Strings
  BY <1>2 DEF CInv, ExecCurrent, InStep
<1>4. Head(queue) = inc /\ Tail(queue) = <<>>
  BY <1>3
<1>5. d \in DbIds /\ commits[d] \in Nat /\ seen[c] \in Nat /\ keyspace \in KeyspaceType
  BY DEF CInv, IInv, TypeOK, CounterTypeOK
<1>6. select(d, inc) = d
  BY DEF select, Increment
<1>7. /\ keyspace' = execute_locked(keyspace, d, inc, ts)
      /\ executing' = Nobody
      /\ UNCHANGED <<db_index, in_multi, multi_queue, watched, seen>>
      /\ phase' = [phase EXCEPT ![c] = "idle"]
      /\ commits' = [commits EXCEPT ![d] = commits[d] + 1]
  BY <1>1, <1>4, <1>5, <1>6 DEF ExecStep, Commit, Goto, CInv, IInv, TypeOK
<1>8. keyspace' = [keyspace EXCEPT ![d] = [@ EXCEPT ![Counter] =
                        [value |-> Str(commits[d] + 1), expire_at |-> NoTtl]]]
  BY <1>3, <1>5, <1>7, IncrementEffect
<1>9. IInv'
  BY <1>1, CommandsKeepIInv DEF CInv
<1>10. CounterTypeOK'
  BY <1>5, <1>7 DEF CInv, CounterTypeOK
<1>11. CountersExact'
  <2>1. SUFFICES ASSUME NEW e \in DbIds
                 PROVE  \/ keyspace'[e][Counter] = NoEntry /\ commits'[e] = 0
                        \/ /\ commits'[e] \in Strings
                           /\ keyspace'[e][Counter] =
                                [value |-> Str(commits'[e]), expire_at |-> NoTtl]
    BY DEF CountersExact
  <2>2. CASE e = d
    <3>1. commits'[d] = commits[d] + 1 /\ commits[d] + 1 \in Strings
      BY <1>3, <1>5, <1>7 DEF CInv, CounterTypeOK
    <3>2. keyspace'[d][Counter] = [value |-> Str(commits[d] + 1), expire_at |-> NoTtl]
      BY <1>5, <1>8, CounterAssumption DEF KeyspaceType, Db
    <3> QED BY <2>2, <3>1, <3>2
  <2>3. CASE e # d
    <3>1. keyspace'[e] = keyspace[e] /\ commits'[e] = commits[e]
      BY <1>5, <1>7, <1>8, <2>3 DEF KeyspaceType, CInv, CounterTypeOK
    <3> QED BY <3>1 DEF CInv, CountersExact
  <2> QED BY <2>2, <2>3
<1>12. ASSUME NEW x \in Clients, x # c
       PROVE  (InStep(x) /\ WatchBehind(x) /\ ExecCurrent(x))'
  <2>1. \A e \in DbIds : commits'[e] \in Nat /\ commits[e] <= commits'[e]
    BY <1>5, <1>7 DEF CInv, CounterTypeOK
  <2>2. Steady(x)
    BY <1>2, <1>7, <1>12, <2>1, TransactionsAssumption DEF CInv, CounterTypeOK, Steady
  <2> QED BY <2>2, OthersKept
<1>13. ~in_multi'[c] /\ phase'[c] = "idle" /\ executing' # c
  <2>1. phase'[c] = "idle" /\ executing' # c
    BY <1>2, <1>7 DEF CInv, CounterTypeOK
  <2>2. ~in_multi[c]
    BY <1>2 DEF CInv, ExecCurrent
  <2> QED BY <1>7, <2>1, <2>2
<1> QED
  BY <1>9, <1>10, <1>11, <1>12, <1>13, IdleKept DEF CInv

\* Giving up, in its three ways.
LEMMA GiveUpKeeps ==
    ASSUME CInv, NEW c \in Clients, GiveUp(c)
    PROVE  CInv'
<1>1. /\ UNCHANGED <<keyspace, seen, commits, executing>>
      /\ phase' = [phase EXCEPT ![c] = "idle"]
      /\ \A x \in Clients \ {c} : /\ in_multi'[x] = in_multi[x] /\ watched'[x] = watched[x]
                                  /\ multi_queue'[x] = multi_queue[x]
                                  /\ db_index'[x] = db_index[x]
      /\ ~in_multi'[c] /\ (UNCHANGED vars \/ executing = Nobody)
      /\ UNCHANGED vars => phase[c] = "read" \/ executing = Nobody
  <2>1. CASE Goto(c, "read", "idle") /\ UNCHANGED vars
    BY <2>1 DEF GiveUp, Goto, vars, CInv, InStep
  <2>2. CASE Goto(c, "queued", "idle") /\ Discard(c)
    BY <2>2 DEF GiveUp, Goto, Discard, Idle, CInv, IInv, TypeOK
  <2>3. CASE phase' = [phase EXCEPT ![c] = "idle"] /\ Reconnect(c)
    BY <2>3 DEF GiveUp, Reconnect, Idle, CInv, IInv, TypeOK
  <2> QED BY <2>1, <2>2, <2>3 DEF GiveUp
<1>2. IInv'
  <2>1. CASE UNCHANGED vars
    BY <2>1, StepKeepsIInv DEF CInv
  <2>2. CASE Discard(c) \/ Reconnect(c)
    BY <2>2, ConnStepsKeepIInv DEF CInv
  <2> QED BY <2>1, <2>2 DEF GiveUp
<1>3. CounterTypeOK'
  BY <1>1 DEF CInv, CounterTypeOK
<1>4. CountersExact'
  BY <1>1, CountersKept
<1>5. ASSUME NEW x \in Clients, x # c
      PROVE  (InStep(x) /\ WatchBehind(x) /\ ExecCurrent(x))'
  <2>1. CASE executing # x
    <3>1. Steady(x)
      BY <1>1, <1>5, <2>1 DEF CInv, CounterTypeOK, Steady
    <3> QED BY <3>1, OthersKept
  <2>2. CASE executing = x
    <3>1. UNCHANGED vars
      BY <1>1, <2>2, TransactionsAssumption
    <3>2. /\ phase'[x] = phase[x] /\ UNCHANGED <<seen, commits>>
          /\ UNCHANGED <<executing, queue, db_index, in_multi, multi_queue, watched>>
      BY <1>1, <1>5, <3>1 DEF vars, CInv, CounterTypeOK
    <3>3. InStep(x) /\ WatchBehind(x) /\ ExecCurrent(x)
      BY DEF CInv
    <3> QED
      BY <3>2, <3>3, <2>2 DEF InStep, WatchBehind, ExecCurrent, Increment
  <2> QED BY <2>1, <2>2
<1>6. phase'[c] = "idle" /\ ~in_multi'[c] /\ executing' # c
  <2>1. executing # c
    BY <1>1, TransactionsAssumption DEF CInv, ExecCurrent
  <2> QED BY <1>1, <2>1 DEF CInv, CounterTypeOK
<1> QED
  BY <1>2, <1>3, <1>4, <1>5, <1>6, IdleKept DEF CInv

LEMMA ElsewhereKeeps ==
    ASSUME CInv, NEW c \in Clients, Elsewhere(c)
    PROVE  CInv'
<1>1. PICK dst \in DbIds, ts \in Readings(now, MaxNow) :
        Execute(c, [op |-> "SELECT", db |-> dst], ts)
  BY DEF Elsewhere
<1>2. db_index[c] \in DbIds
  BY DEF CInv, IInv, TypeOK
<1>3. /\ executing = Nobody /\ executing' = Nobody /\ ~in_multi[c] /\ phase[c] = "idle"
      /\ keyspace' = execute_locked(keyspace, db_index[c], [op |-> "SELECT", db |-> dst], ts)
      /\ \A x \in Clients \ {c} : db_index'[x] = db_index[x]
      /\ UNCHANGED <<in_multi, multi_queue, watched, phase, seen, commits>>
  BY <1>1 DEF Execute, Idle, Elsewhere, CInv, IInv, TypeOK
<1>4. IInv'
  BY <1>1, CounterCommands, CommandsKeepIInv DEF CInv
<1>5. CounterTypeOK'
  BY <1>3 DEF CInv, CounterTypeOK
<1>6. CountersExact'
  BY <1>2, <1>3, CommandsUntouched, CountersKept
<1>7. ASSUME NEW x \in Clients, x # c
      PROVE  (InStep(x) /\ WatchBehind(x) /\ ExecCurrent(x))'
  <2>1. Steady(x)
    BY <1>3, <1>7, TransactionsAssumption DEF CInv, CounterTypeOK, Steady
  <2> QED BY <2>1, OthersKept
<1>8. phase'[c] = "idle" /\ ~in_multi'[c] /\ executing' # c
  BY <1>3, TransactionsAssumption
<1> QED
  BY <1>4, <1>5, <1>6, <1>7, <1>8, IdleKept DEF CInv

LEMMA CounterStepKeeps ==
    ASSUME CInv, [CounterNext]_counterVars
    PROVE  CInv'
<1>1. CASE UNCHANGED counterVars
  <2>1. UNCHANGED <<vars, phase, seen, commits>>
    BY <1>1 DEF counterVars
  <2>2. IInv'
    BY <2>1, StepKeepsIInv DEF CInv
  <2> QED
    BY <2>1, <2>2 DEF vars, CInv, CounterTypeOK, CountersExact, InStep, WatchBehind, ExecCurrent,
                      Increment
<1>2. CASE CounterNext
  BY <1>2, StartWatchKeeps, ReadKeeps, QueueingKeeps, TryCommitKeeps, CommitKeeps, GiveUpKeeps,
     ElsewhereKeeps DEF CounterNext
<1> QED BY <1>1, <1>2

\* WATCH, GET, MULTI, SET, EXEC loses no update: however many clients run the
\* pattern, in however many databases, every counter that GET reads is the
\* number of EXECs that replied with an array.
THEOREM NoLostUpdateHolds == CounterSpec => []NoLostUpdate
<1>1. CInv => NoLostUpdate
  <2>1. ASSUME CInv PROVE DOMAIN commits = DbIds
    BY <2>1 DEF CInv, CounterTypeOK
  <2> QED BY <2>1, CounterLive DEF NoLostUpdate
<1> QED
  BY CounterInitCInv, CounterStepKeeps, <1>1, PTL DEF CounterSpec

=============================================================================
