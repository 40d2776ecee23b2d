-------------------------- MODULE LifecycleProofs ---------------------------
(***************************************************************************)
(* Where values come from: every command is shown to leave at each place   *)
(* either what it writes or what became of one entry that was there before *)
(* it, and the life of a value follows, for any keys and databases.        *)
(***************************************************************************)
EXTENDS Lifecycle, TransactionsProofs

-----------------------------------------------------------------------------
(* Provenance *)

\* Entry e2, found at time `to`, is what became of entry e of time `from` under
\* a command op that may have added the strings W: what e2 holds besides them e
\* held, e was alive if e2 is, and the expiry of e has not been lost.
Becomes(e2, e, W, op, from, to) ==
    \A v : Holds(e2, v) =>
        \/ v \in W
        \/ /\ Holds(e, v)
           /\ LiveEntry(e2, to) => LiveEntry(e, from)
           /\ e2.expire_at = NoTtl => e.expire_at = NoTtl \/ op \in {"PERSIST", "COPY"}

At(ks, p) == ks[p[1]][p[2]]

\* Every place of ks2 holds what became of the entry at one place of ks; only
\* COPY takes two from one, and only one place receives what is written.
Derives(ks2, ks, W, op, from, to) ==
    \E f \in [Places -> Places] : \E q :
        /\ op # "COPY" => \A a, b \in Places : f[a] = f[b] => a = b
        /\ \A p \in Places :
            Becomes(At(ks2, p), At(ks, f[p]), IF p = q THEN W ELSE {}, op, from, to)

LEMMA EntryAt ==
    ASSUME NEW ks \in KeyspaceType, NEW p \in Places
    PROVE  /\ p[1] \in DbIds /\ p[2] \in Keys /\ p = <<p[1], p[2]>>
           /\ At(ks, p) \in Entry \cup {NoEntry}
BY DEF Places, KeyspaceType, Db, At

\* An entry that is alive was alive before.
LEMMA LiveBefore ==
    ASSUME NEW e \in Entry \cup {NoEntry}, NEW from \in Nat, NEW to \in Nat, from <= to,
           LiveEntry(e, to)
    PROVE  LiveEntry(e, from)
BY KeyspaceAssumption DEF LiveEntry, Expired, Entry, Expiry

LEMMA KeptBecomes ==
    ASSUME NEW e \in Entry \cup {NoEntry}, NEW e2, e2 = e \/ e2 = NoEntry, NEW W, NEW op,
           NEW from \in Nat, NEW to \in Nat, from <= to
    PROVE  Becomes(e2, e, W, op, from, to)
BY LiveBefore DEF Becomes, Holds

\* The same value under a new expiry, of an entry that was alive when it was
\* taken.
LEMMA MovedBecomes ==
    ASSUME NEW e \in Entry, NEW at, NEW W, NEW op, NEW from, NEW to, LiveEntry(e, from),
           at = NoTtl => e.expire_at = NoTtl \/ op \in {"PERSIST", "COPY"}
    PROVE  Becomes([value |-> e.value, expire_at |-> at], e, W, op, from, to)
BY DEF Becomes, Holds, LiveEntry

\* A command that keeps every value where it is.
LEMMA InPlace ==
    ASSUME NEW ks \in KeyspaceType, NEW ks2, NEW W, NEW op, NEW from, NEW to, NEW q,
           \A p \in Places :
                Becomes(At(ks2, p), At(ks, p), IF p = q THEN W ELSE {}, op, from, to)
    PROVE  Derives(ks2, ks, W, op, from, to)
<1> DEFINE f == [p \in Places |-> p]
<1>1. f \in [Places -> Places] /\ \A p \in Places : f[p] = p
  OBVIOUS
<1> HIDE DEF f
<1>2. \A p \in Places :
        Becomes(At(ks2, p), At(ks, f[p]), IF p = q THEN W ELSE {}, op, from, to)
  BY <1>1
<1> QED
  BY <1>1, <1>2 DEF Derives

LEMMA AllKept ==
    ASSUME NEW ks \in KeyspaceType, NEW ks2, NEW W, NEW op, NEW from \in Nat, NEW to \in Nat,
           from <= to,
           \A p \in Places : At(ks2, p) = At(ks, p) \/ At(ks2, p) = NoEntry
    PROVE  Derives(ks2, ks, W, op, from, to)
<1>1. \A p \in Places : Becomes(At(ks2, p), At(ks, p), IF p = 0 THEN W ELSE {}, op, from, to)
  BY EntryAt, KeptBecomes
<1> QED
  BY <1>1, InPlace

\* A command on one database that keeps every value at its key.
LEMMA InDatabase ==
    ASSUME NEW ks \in KeyspaceType, NEW d \in DbIds, NEW db2, NEW W, NEW op,
           NEW from \in Nat, NEW to \in Nat, from <= to, NEW k0 \in Keys,
           Becomes(db2[k0], ks[d][k0], W, op, from, to),
           \A k \in Keys \ {k0} : db2[k] = ks[d][k]
    PROVE  Derives([ks EXCEPT ![d] = db2], ks, W, op, from, to)
<1> DEFINE ks2 == [ks EXCEPT ![d] = db2]
           q == <<d, k0>>
<1>1. ASSUME NEW p \in Places
      PROVE  Becomes(At(ks2, p), At(ks, p), IF p = q THEN W ELSE {}, op, from, to)
  <2>1. p[1] \in DbIds /\ p[2] \in Keys /\ p = <<p[1], p[2]>> /\ At(ks, p) \in Entry \cup {NoEntry}
    BY EntryAt
  <2>2. CASE p = q
    BY <2>1, <2>2 DEF At, KeyspaceType
  <2>3. CASE p # q
    <3>1. At(ks2, p) = At(ks, p)
      BY <2>1, <2>3 DEF At, KeyspaceType
    <3> QED BY <2>1, <3>1, KeptBecomes
  <2> QED BY <2>2, <2>3
<1> HIDE DEF ks2, q
<1>2. Derives(ks2, ks, W, op, from, to)
  BY <1>1, InPlace
<1> QED
  BY <1>2 DEF ks2

-----------------------------------------------------------------------------
(* The commands *)

LEMMA ReadingsOrder ==
    ASSUME NEW from \in Nat, NEW ts \in Readings(from, MaxNow)
    PROVE  /\ ts[1] \in Nat /\ ts[2] \in Nat /\ ts[3] \in Nat /\ ts[4] \in Nat
           /\ from <= ts[1] /\ ts[1] <= ts[2] /\ ts[2] <= ts[3] /\ ts[3] <= ts[4]
<1>1. ts \in [1 .. 4 -> from .. MaxNow] /\ \A i \in 1 .. 3 : ts[i] <= ts[i + 1]
  BY DEF Readings, Reads
<1>2. \A i \in 1 .. 4 : ts[i] \in Nat /\ from <= ts[i]
  BY <1>1, TransactionsAssumption
<1>3. ts[1] <= ts[1 + 1] /\ ts[2] <= ts[2 + 1] /\ ts[3] <= ts[3 + 1]
  BY <1>1
<1> QED
  BY <1>2, <1>3

LEMMA PurgeKeeps ==
    ASSUME NEW db \in Db, NEW k \in Keys, NEW t, NEW j \in Keys
    PROVE  /\ j # k => purge_if_expired(db, k, t)[j] = db[j]
           /\ purge_if_expired(db, k, t)[j] = IF j = k /\ Expired(db[k], t) THEN NoEntry ELSE db[j]
BY DEF purge_if_expired, Db

\* SET stores its own string and nothing that was there.
LEMMA SetDerives ==
    ASSUME NEW ks \in KeyspaceType, NEW d \in DbIds, NEW cmd \in SetCommand, NEW from \in Nat,
           NEW ts \in Readings(from, MaxNow)
    PROVE  Derives([ks EXCEPT ![d] = Set(ks[d], cmd, ts)], ks, {cmd.val}, "SET", from, ts[4])
<1> DEFINE db == ks[d]
           k == cmd.key
           db2 == Set(db, cmd, ts)
           purged == purge_if_expired(db, k, ts[3])
<1>1. db \in Db /\ k \in Keys /\ db[k] \in Entry \cup {NoEntry}
  BY DEF KeyspaceType, SetCommand, Db
<1>2. ts[4] \in Nat /\ from <= ts[4]
  BY ReadingsOrder
<1>3. \/ db2 = db \/ db2 = purged
      \/ \E at : db2 = put(purged, k, Str(cmd.val), at)
  BY DEF Set, set_keep_ttl
<1>4. purged \in Db
  BY <1>1, PurgeType
<1>5. purged[k] = db[k] \/ purged[k] = NoEntry
  BY <1>1, PurgeKeeps
<1>6. \A j \in Keys \ {k} : purged[j] = db[j]
  BY <1>1, PurgeKeeps
<1> HIDE DEF purged, db2
<1>7. \A j \in Keys \ {k} : db2[j] = db[j]
  BY <1>1, <1>3, <1>4, <1>6 DEF put, Db
<1>8. Becomes(db2[k], db[k], {cmd.val}, "SET", from, ts[4])
  <2>1. CASE db2 = db \/ db2 = purged
    BY <1>1, <1>2, <1>5, <2>1, KeptBecomes
  <2>2. ASSUME NEW at, db2 = put(purged, k, Str(cmd.val), at)
        PROVE  Becomes(db2[k], db[k], {cmd.val}, "SET", from, ts[4])
    <3>1. db2[k] = [value |-> Str(cmd.val), expire_at |-> at]
      BY <1>1, <1>4, <2>2 DEF put, Db
    <3>2. \A v : Holds(db2[k], v) => v = cmd.val
      BY <3>1 DEF Holds, Str
    <3> QED BY <3>2 DEF Becomes
  <2> QED BY <1>3, <2>1, <2>2
<1> QED
  BY <1>1, <1>2, <1>7, <1>8, InDatabase DEF db2

\* An expiry is given only to an entry found alive: EXPIRE and PERSIST revive
\* nothing.
LEMMA SetExpireDerives ==
    ASSUME NEW db \in Db, NEW k \in Keys, NEW at, NEW t, NEW op,
           NEW from \in Nat, NEW to \in Nat, from <= to, LiveEntry(db[k], from),
           at # NoTtl \/ op = "PERSIST"
    PROVE  Becomes(set_expire(db, k, at, t)[k], db[k], {}, op, from, to)
<1>1. db[k] \in Entry
  BY DEF Db, LiveEntry
<1>2. CASE contains(db, k, t)
  <2>1. set_expire(db, k, at, t)[k] = [value |-> db[k].value, expire_at |-> at]
    BY <1>2 DEF set_expire, put, Db
  <2> QED BY <1>1, <2>1, MovedBecomes
<1>3. CASE ~contains(db, k, t)
  <2>1. set_expire(db, k, at, t)[k] = db[k] \/ set_expire(db, k, at, t)[k] = NoEntry
    BY <1>3, PurgeKeeps DEF set_expire
  <2> QED BY <1>1, <2>1, KeptBecomes
<1> QED BY <1>2, <1>3

LEMMA SetExpireElsewhere ==
    ASSUME NEW db \in Db, NEW k \in Keys, NEW at, NEW t, NEW j \in Keys \ {k}
    PROVE  set_expire(db, k, at, t)[j] = db[j]
BY PurgeKeeps DEF set_expire, put, Db

LEMMA PersistDerives ==
    ASSUME NEW ks \in KeyspaceType, NEW d \in DbIds, NEW k \in Keys, NEW from \in Nat,
           NEW ts \in Readings(from, MaxNow)
    PROVE  Derives([ks EXCEPT ![d] = persist(ks[d], k, ts[1])], ks, {}, "PERSIST", from, ts[4])
<1> DEFINE db == ks[d]
           db2 == persist(db, k, ts[1])
<1>1. db \in Db /\ db[k] \in Entry \cup {NoEntry}
  BY DEF KeyspaceType, Db
<1>2. ts[4] \in Nat /\ from <= ts[4] /\ ts[1] \in Nat /\ from <= ts[1]
  BY ReadingsOrder
<1>3. \A j \in Keys \ {k} : db2[j] = db[j]
  BY <1>1, SetExpireElsewhere DEF persist
<1>4. Becomes(db2[k], db[k], {}, "PERSIST", from, ts[4])
  <2>1. CASE contains(db, k, ts[1])
    <3>1. LiveEntry(db[k], from)
      BY <1>1, <1>2, <2>1, LiveBefore DEF contains
    <3> QED BY <1>1, <1>2, <3>1, SetExpireDerives DEF persist
  <2>2. CASE ~contains(db, k, ts[1])
    <3>1. db2[k] = db[k] \/ db2[k] = NoEntry
      BY <1>1, <2>2, PurgeKeeps DEF persist, set_expire
    <3> QED BY <1>1, <1>2, <3>1, KeptBecomes
  <2> QED BY <2>1, <2>2
<1> HIDE DEF db2
<1> QED
  BY <1>1, <1>2, <1>3, <1>4, InDatabase DEF db2

LEMMA ExpireDerives ==
    ASSUME NEW ks \in KeyspaceType, NEW d \in DbIds, NEW cmd \in ExpireCommand, NEW from \in Nat,
           NEW ts \in Readings(from, MaxNow)
    PROVE  Derives([ks EXCEPT ![d] = Expire(ks[d], cmd, ts)], ks, {}, "EXPIRE", from, ts[4])
<1> DEFINE db == ks[d]
           k == cmd.key
           db2 == Expire(db, cmd, ts)
           at == IF cmd.relative THEN ts[2] + cmd.n ELSE cmd.n
           purged == purge_if_expired(db, k, ts[3])
<1>1. db \in Db /\ k \in Keys /\ db[k] \in Entry \cup {NoEntry}
  BY DEF KeyspaceType, ExpireCommand, Db
<1>2. /\ ts[4] \in Nat /\ from <= ts[4] /\ ts[1] \in Nat /\ from <= ts[1]
      /\ ts[2] \in Nat /\ ts[3] \in Nat
  BY ReadingsOrder
<1>3. at \in Int /\ at # NoTtl
  BY <1>2, KeyspaceAssumption DEF ExpireCommand
<1>4. \A t : purge_if_expired(db, k, t) \in Db
  BY <1>1, PurgeType
<1>5. \A t : \A j \in Keys : /\ j # k => purge_if_expired(db, k, t)[j] = db[j]
                             /\ purge_if_expired(db, k, t)[k] \in {db[k], NoEntry}
  BY <1>1, PurgeKeeps
<1>6. \/ db2 = db \/ (\E t : db2 = purge_if_expired(db, k, t)) \/ db2 = remove(db, k)
      \/ contains(db, k, ts[1]) /\ db2 = set_expire(purged, k, at, ts[4])
  BY DEF Expire
<1> HIDE DEF at, db2
<1>7. \A j \in Keys \ {k} : db2[j] = db[j]
  <2>1. \A j \in Keys \ {k} : set_expire(purged, k, at, ts[4])[j] = purged[j]
    BY <1>1, <1>4, SetExpireElsewhere
  <2> QED BY <1>1, <1>5, <1>6, <2>1 DEF remove, Db
<1>8. Becomes(db2[k], db[k], {}, "EXPIRE", from, ts[4])
  <2>1. CASE db2 = db \/ (\E t : db2 = purge_if_expired(db, k, t)) \/ db2 = remove(db, k)
    <3>1. db2[k] = db[k] \/ db2[k] = NoEntry
      BY <1>1, <1>5, <2>1 DEF remove, Db
    <3> QED BY <1>1, <1>2, <3>1, KeptBecomes
  <2>2. CASE contains(db, k, ts[1]) /\ db2 = set_expire(purged, k, at, ts[4])
    <3>1. LiveEntry(db[k], from)
      BY <1>1, <1>2, <2>2, LiveBefore DEF contains
    <3>2. CASE Expired(db[k], ts[3])
      <4>1. purged[k] = NoEntry
        BY <1>1, <3>2, PurgeKeeps
      <4>2. db2[k] = NoEntry
        BY <1>1, <1>4, <2>2, <4>1, PurgeKeeps DEF set_expire, contains, LiveEntry
      <4> QED BY <1>1, <1>2, <4>2, KeptBecomes
    <3>3. CASE ~Expired(db[k], ts[3])
      <4>1. purged = db
        BY <3>3 DEF purge_if_expired
      <4> QED BY <1>1, <1>2, <1>3, <2>2, <3>1, <4>1, SetExpireDerives
    <3> QED BY <3>2, <3>3
  <2> QED BY <1>6, <2>1, <2>2
<1> QED
  BY <1>1, <1>2, <1>7, <1>8, InDatabase DEF db2

\* XADD keeps the entries of a stream that is alive and adds one.
LEMMA XAddDerives ==
    ASSUME NEW ks \in KeyspaceType, NEW d \in DbIds, NEW cmd \in StreamCommand, cmd.op = "XADD",
           NEW from \in Nat, NEW ts \in Readings(from, MaxNow)
    PROVE  Derives([ks EXCEPT ![d] = XAdd(ks[d], cmd, ts)], ks, {cmd.fields}, "XADD", from, ts[4])
<1> DEFINE db == ks[d]
           k == cmd.key
           db2 == XAdd(db, cmd, ts)
           purged == purge_if_expired(db, k, ts[1])
           made == IF purged[k] = NoEntry THEN set(purged, k, EmptyStream) ELSE purged
           entry == made[k]
           stream == entry.value
           entries == [i \in DOMAIN stream.entries \cup {cmd.id} |->
                        IF i = cmd.id THEN cmd.fields ELSE stream.entries[i]]
           longer == [stream EXCEPT !.entries = entries, !.last_id = cmd.id]
<1>1. db \in Db /\ k \in Keys /\ db[k] \in Entry \cup {NoEntry}
  BY DEF KeyspaceType, StreamCommand, Db
<1>2. ts[4] \in Nat /\ from <= ts[4]
  BY ReadingsOrder
<1>3. purged \in Db /\ (purged[k] = db[k] \/ purged[k] = NoEntry)
  BY <1>1, PurgeType, PurgeKeeps
<1>4. \A j \in Keys \ {k} : purged[j] = db[j]
  BY <1>1, PurgeKeeps
<1>5. \/ db2 = made
      \/ stream.type = "stream" /\ db2 = put(made, k, longer, entry.expire_at)
  BY DEF XAdd
<1> HIDE DEF purged, db2
<1>6. made \in Db
  BY <1>1, <1>3, EmptyStreamType, PutType DEF set, Value, Expiry
<1>7. \A j \in Keys \ {k} : made[j] = db[j]
  BY <1>1, <1>3, <1>4 DEF set, put, Db
<1>8. \/ entry = [value |-> EmptyStream, expire_at |-> NoTtl]
      \/ entry = db[k] /\ db[k] # NoEntry
  BY <1>1, <1>3 DEF set, put, Db
<1>9. \A v : ~Holds([value |-> EmptyStream, expire_at |-> NoTtl], v)
  BY DEF Holds, EmptyStream
<1>10. entry \in Entry
  BY <1>1, <1>8, EmptyStreamType DEF Entry, Value, Expiry
<1> HIDE DEF made
<1>11. \A j \in Keys \ {k} : db2[j] = db[j]
  BY <1>1, <1>5, <1>6, <1>7 DEF put, Db
<1>12. Becomes(entry, db[k], {cmd.fields}, "XADD", from, ts[4])
  <2>1. CASE entry = [value |-> EmptyStream, expire_at |-> NoTtl]
    BY <1>9, <2>1 DEF Becomes
  <2>2. CASE entry = db[k]
    BY <1>1, <1>2, <2>2, KeptBecomes
  <2> QED BY <1>8, <2>1, <2>2
<1>13. Becomes(db2[k], db[k], {cmd.fields}, "XADD", from, ts[4])
  <2>1. CASE db2 = made
    BY <1>12, <2>1
  <2>2. CASE stream.type = "stream" /\ db2 = put(made, k, longer, entry.expire_at)
    <3>1. db2[k] = [value |-> longer, expire_at |-> entry.expire_at]
      BY <1>1, <1>6, <2>2 DEF put, Db
    <3>2. stream \in StreamValue /\ entry.expire_at \in Expiry
      BY <1>10, <2>2, StreamTyped DEF Entry
    <3>3. longer.entries = entries /\ longer.type = "stream"
      BY <3>2 DEF StreamValue
    <3> HIDE DEF longer, entries
    <3>4. ASSUME NEW v, Holds(db2[k], v), v # cmd.fields PROVE Holds(entry, v)
      <4>1. \E i \in DOMAIN entries : entries[i] = v
        BY <3>1, <3>3, <3>4 DEF Holds
      <4>2. \E i \in DOMAIN stream.entries : stream.entries[i] = v
        BY <3>4, <4>1 DEF entries
      <4> QED BY <1>10, <2>2, <4>2, AbsenceAssumption DEF Holds
    <3>5. LiveEntry(db2[k], ts[4]) => LiveEntry(entry, ts[4])
      BY <1>10, <3>1, AbsenceAssumption DEF LiveEntry, Expired
    <3>6. db2[k].expire_at = entry.expire_at
      BY <3>1
    <3>7. ASSUME NEW v, Holds(db2[k], v), v # cmd.fields
          PROVE  /\ Holds(db[k], v)
                 /\ LiveEntry(db2[k], ts[4]) => LiveEntry(db[k], from)
                 /\ db2[k].expire_at = NoTtl => db[k].expire_at = NoTtl
      <4>1. Holds(entry, v)
        BY <3>4, <3>7
      <4>2. entry = db[k]
        BY <1>8, <1>9, <4>1
      <4> QED BY <1>1, <1>2, <3>5, <3>6, <4>1, <4>2, LiveBefore
    <3> QED BY <3>7 DEF Becomes
  <2> QED BY <1>5, <2>1, <2>2
<1> QED
  BY <1>1, <1>2, <1>11, <1>13, InDatabase DEF db2

LEMMA XDelDerives ==
    ASSUME NEW ks \in KeyspaceType, NEW d \in DbIds, NEW cmd \in StreamCommand, cmd.op = "XDEL",
           NEW from \in Nat, NEW ts \in Readings(from, MaxNow)
    PROVE  Derives([ks EXCEPT ![d] = XDel(ks[d], cmd, ts)], ks, {}, "XDEL", from, ts[4])
<1> DEFINE db == ks[d]
           k == cmd.key
           db2 == XDel(db, cmd, ts)
           purged == purge_if_expired(db, k, ts[1])
           entry == purged[k]
           entries == [i \in DOMAIN entry.value.entries \ {cmd.id} |-> entry.value.entries[i]]
           shorter == [entry.value EXCEPT !.entries = entries]
<1>1. db \in Db /\ k \in Keys /\ db[k] \in Entry \cup {NoEntry}
  BY DEF KeyspaceType, StreamCommand, Db
<1>2. ts[4] \in Nat /\ from <= ts[4]
  BY ReadingsOrder
<1>3. purged \in Db /\ (purged[k] = db[k] \/ purged[k] = NoEntry)
  BY <1>1, PurgeType, PurgeKeeps
<1>4. \A j \in Keys \ {k} : purged[j] = db[j]
  BY <1>1, PurgeKeeps
<1>5. \/ db2 = purged
      \/ /\ entry # NoEntry /\ entry.value.type = "stream"
         /\ db2 = put(purged, k, shorter, entry.expire_at)
  BY DEF XDel
<1> HIDE DEF purged, db2
<1>6. \A j \in Keys \ {k} : db2[j] = db[j]
  BY <1>1, <1>3, <1>4, <1>5 DEF put, Db
<1>7. Becomes(db2[k], db[k], {}, "XDEL", from, ts[4])
  <2>1. CASE db2 = purged
    BY <1>1, <1>2, <1>3, <2>1, KeptBecomes
  <2>2. CASE /\ entry # NoEntry /\ entry.value.type = "stream"
             /\ db2 = put(purged, k, shorter, entry.expire_at)
    <3>1. entry = db[k] /\ entry \in Entry
      BY <1>1, <1>3, <2>2
    <3>2. db2[k] = [value |-> shorter, expire_at |-> entry.expire_at]
      BY <1>1, <1>3, <2>2 DEF put, Db
    <3>3. entry.value \in StreamValue
      BY <2>2, <3>1, StreamTyped DEF Entry
    <3>4. shorter.entries = entries /\ shorter.type = "stream"
      BY <3>3 DEF StreamValue
    <3> HIDE DEF shorter, entries
    <3>5. ASSUME NEW v, Holds(db2[k], v) PROVE Holds(entry, v)
      <4>1. \E i \in DOMAIN entries : entries[i] = v
        BY <3>2, <3>4, <3>5 DEF Holds
      <4>2. \E i \in DOMAIN entry.value.entries : entry.value.entries[i] = v
        BY <4>1 DEF entries
      <4> QED BY <2>2, <4>2 DEF Holds
    <3>6. LiveEntry(db2[k], ts[4]) => LiveEntry(entry, ts[4])
      BY <2>2, <3>2 DEF LiveEntry, Expired
    <3>7. LiveEntry(db2[k], ts[4]) => LiveEntry(entry, from)
      BY <1>2, <3>1, <3>6, LiveBefore
    <3>8. db2[k].expire_at = entry.expire_at
      BY <3>2
    <3> QED BY <3>1, <3>5, <3>7, <3>8 DEF Becomes
  <2> QED BY <1>5, <2>1, <2>2
<1> QED
  BY <1>1, <1>2, <1>6, <1>7, InDatabase DEF db2

\* One entry goes from place a to place b, and leaves a unless it is copied.
LEMMA Transferred ==
    ASSUME NEW ks \in KeyspaceType, NEW ks2, NEW op, NEW from \in Nat, NEW to \in Nat,
           from <= to, NEW a \in Places, NEW b \in Places,
           Becomes(At(ks2, b), At(ks, a), {}, op, from, to),
           a # b /\ op # "COPY" => At(ks2, a) = NoEntry,
           \A p \in Places \ {b} : At(ks2, p) = At(ks, p) \/ At(ks2, p) = NoEntry
    PROVE  Derives(ks2, ks, {}, op, from, to)
<1> DEFINE g(p) == IF p = b THEN a ELSE IF p = a /\ op # "COPY" THEN b ELSE p
           f == [p \in Places |-> g(p)]
<1>1. f \in [Places -> Places] /\ \A p \in Places : f[p] = g(p)
  OBVIOUS
<1>2. op # "COPY" => \A p, r \in Places : f[p] = f[r] => p = r
  BY <1>1
<1> HIDE DEF f
<1>3. ASSUME NEW p \in Places
      PROVE  Becomes(At(ks2, p), At(ks, f[p]), {}, op, from, to)
  <2>1. CASE p = b
    BY <1>1, <2>1
  <2>2. CASE p # b /\ p = a /\ op # "COPY"
    <3>1. At(ks2, p) = NoEntry
      BY <2>2
    <3> QED BY <3>1 DEF Becomes, Holds
  <2>3. CASE p # b /\ ~(p = a /\ op # "COPY")
    <3>1. f[p] = p
      BY <1>1, <2>3
    <3> QED BY <2>3, <3>1, EntryAt, KeptBecomes
  <2> QED BY <2>1, <2>2, <2>3
<1>4. \A p \in Places :
        Becomes(At(ks2, p), At(ks, f[p]), IF p = 0 THEN {} ELSE {}, op, from, to)
  BY <1>3
<1> QED
  BY <1>1, <1>2, <1>4 DEF Derives

LEMMA RenameDerives ==
    ASSUME NEW ks \in KeyspaceType, NEW d \in DbIds, NEW cmd \in RenameCommand, NEW from \in Nat,
           NEW ts \in Readings(from, MaxNow)
    PROVE  Derives([ks EXCEPT ![d] = Rename(ks[d], cmd, ts)], ks, {}, "RENAME", from, ts[4])
<1> DEFINE db == ks[d]
           k == cmd.key
           j == cmd.dst
           db1 == IF cmd.nx THEN purge_if_expired(db, j, ts[2]) ELSE db
           db2 == Rename(db, cmd, ts)
           ks2 == [ks EXCEPT ![d] = db2]
           a == <<d, k>>
           b == <<d, j>>
<1>1. db \in Db /\ k \in Keys /\ j \in Keys
  BY DEF KeyspaceType, RenameCommand
<1>2. ts[4] \in Nat /\ from <= ts[4]
  BY ReadingsOrder
<1>3. db1 \in Db /\ \A i \in Keys : /\ i # j => db1[i] = db[i]
                                    /\ db1[i] = db[i] \/ db1[i] = NoEntry
  BY <1>1, PurgeType, PurgeKeeps
<1>4. \/ db2 = db \/ db2 = purge_if_expired(db, k, ts[1])
      \/ db2 = rename(db1, k, j, ts[3])
  BY DEF Rename
<1>5. \A p \in Places : At(ks2, p) = IF p[1] = d THEN db2[p[2]] ELSE At(ks, p)
  BY EntryAt DEF At, KeyspaceType
<1> HIDE DEF db1, db2, ks2
<1>6. CASE \A i \in Keys : db2[i] = db[i] \/ db2[i] = NoEntry
  <2>1. \A p \in Places : At(ks2, p) = At(ks, p) \/ At(ks2, p) = NoEntry
    BY <1>5, <1>6, EntryAt DEF At
  <2> QED BY <1>2, <2>1, AllKept DEF ks2, db2
<1>7. CASE db2 = rename(db1, k, j, ts[3]) /\ contains(db1, k, ts[3])
  <2>1. db2 = [db1 EXCEPT ![k] = NoEntry, ![j] = db1[k]]
    BY <1>7 DEF rename
  <2>2. /\ db2[j] = db1[k] /\ (k # j => db2[k] = NoEntry)
        /\ \A i \in Keys \ {j} : db2[i] = db[i] \/ db2[i] = NoEntry
    BY <1>1, <1>3, <2>1 DEF Db
  <2>3. a \in Places /\ b \in Places /\ At(ks, a) = db[k] /\ At(ks2, b) = db2[j]
        /\ At(ks2, a) = db2[k]
    BY <1>1, <1>5 DEF Places, At
  <2>4. db[k] \in Entry \cup {NoEntry} /\ (db2[j] = db[k] \/ db2[j] = NoEntry)
    BY <1>1, <1>3, <2>2 DEF Db
  <2>5. Becomes(At(ks2, b), At(ks, a), {}, "RENAME", from, ts[4])
    BY <1>2, <2>3, <2>4, KeptBecomes
  <2>6. \A p \in Places \ {b} : At(ks2, p) = At(ks, p) \/ At(ks2, p) = NoEntry
    BY <1>5, <2>2, EntryAt DEF At
  <2>7. a # b => At(ks2, a) = NoEntry
    BY <2>2, <2>3
  <2> HIDE DEF a, b
  <2>8. Derives(ks2, ks, {}, "RENAME", from, ts[4])
    BY <1>2, <2>3, <2>5, <2>6, <2>7, Transferred
  <2> QED BY <2>8 DEF ks2, db2
<1>8. CASE db2 = rename(db1, k, j, ts[3]) /\ ~contains(db1, k, ts[3])
  <2>1. db2 = purge_if_expired(db1, k, ts[3])
    BY <1>8 DEF rename
  <2>2. \A i \in Keys : db2[i] = db[i] \/ db2[i] = NoEntry
    BY <1>1, <1>3, <2>1, PurgeKeeps
  <2> QED BY <1>6, <2>2
<1>9. CASE db2 = db \/ db2 = purge_if_expired(db, k, ts[1])
  <2>1. \A i \in Keys : db2[i] = db[i] \/ db2[i] = NoEntry
    BY <1>1, <1>9, PurgeKeeps
  <2> QED BY <1>6, <2>1
<1> QED
  BY <1>4, <1>7, <1>8, <1>9

\* COPY clones a value it found alive; its expiry may have passed since.
LEMMA CopyDerives ==
    ASSUME NEW ks \in KeyspaceType, NEW d \in DbIds, NEW cmd \in CopyCommand, NEW from \in Nat,
           NEW ts \in Readings(from, MaxNow)
    PROVE  Derives(Copy(ks, d, cmd, ts), ks, {}, "COPY", from, ts[4])
<1> DEFINE k == cmd.key
           src == ks[d][k]
           ttl == expire_at(ks[d], k, ts[2])
           PurgedAt(t) == [ks EXCEPT ![d] = purge_if_expired(@, k, t)]
           purged == PurgedAt(ts[2])
           ks2 == Copy(ks, d, cmd, ts)
           a == <<d, k>>
           b == <<cmd.db, cmd.dst>>
<1>1. ks[d] \in Db /\ k \in Keys /\ cmd.dst \in Keys
  BY DEF KeyspaceType, CopyCommand
<1>2. ts[4] \in Nat /\ from <= ts[4] /\ ts[1] \in Nat /\ from <= ts[1]
  BY ReadingsOrder
<1>3. ASSUME NEW t
      PROVE  /\ PurgedAt(t) \in KeyspaceType
             /\ \A p \in Places : At(PurgedAt(t), p) = At(ks, p) \/ At(PurgedAt(t), p) = NoEntry
  <2>1. purge_if_expired(ks[d], k, t) \in Db
    BY <1>1, PurgeType
  <2>2. \A i \in Keys : purge_if_expired(ks[d], k, t)[i] \in {ks[d][i], NoEntry}
    BY <1>1, PurgeKeeps
  <2> QED BY <2>1, <2>2, EntryAt DEF At, KeyspaceType
<1>4. \/ ks2 = ks \/ ks2 = PurgedAt(ts[1]) \/ ks2 = purged
      \/ /\ cmd.db \in DbIds /\ contains(ks[d], k, ts[1])
         /\ ks2 = [purged EXCEPT ![cmd.db] = put(@, cmd.dst, src.value, ttl)]
  BY DEF Copy, is_valid
<1>5. purged \in KeyspaceType
      /\ \A p \in Places : At(purged, p) = At(ks, p) \/ At(purged, p) = NoEntry
  BY <1>3
<1> HIDE DEF PurgedAt, purged, ks2, ttl
<1>6. CASE ks2 = ks \/ ks2 = PurgedAt(ts[1]) \/ ks2 = purged
  <2>1. \A p \in Places : At(ks2, p) = At(ks, p) \/ At(ks2, p) = NoEntry
    BY <1>3, <1>5, <1>6
  <2> QED BY <1>2, <2>1, AllKept DEF ks2
<1>7. CASE /\ cmd.db \in DbIds /\ contains(ks[d], k, ts[1])
           /\ ks2 = [purged EXCEPT ![cmd.db] = put(@, cmd.dst, src.value, ttl)]
  <2>1. a \in Places /\ b \in Places /\ At(ks, a) = src
    BY <1>1, <1>7 DEF Places, At
  <2>2. src \in Entry /\ LiveEntry(src, from)
    BY <1>1, <1>2, <1>7, LiveBefore DEF contains, LiveEntry, Db
  <2>3. At(ks2, b) = [value |-> src.value, expire_at |-> ttl]
    BY <1>1, <1>5, <1>7 DEF At, put, KeyspaceType, Db
  <2>4. Becomes(At(ks2, b), At(ks, a), {}, "COPY", from, ts[4])
    BY <2>1, <2>2, <2>3, MovedBecomes
  <2>5. \A p \in Places \ {b} : At(ks2, p) = At(purged, p)
    BY <1>1, <1>5, <1>7, EntryAt DEF At, put, KeyspaceType, Db
  <2>6. \A p \in Places \ {b} : At(ks2, p) = At(ks, p) \/ At(ks2, p) = NoEntry
    BY <1>5, <2>5
  <2> HIDE DEF a, b
  <2>7. Derives(ks2, ks, {}, "COPY", from, ts[4])
    BY <1>2, <2>1, <2>4, <2>6, Transferred
  <2> QED BY <2>7 DEF ks2
<1> QED
  BY <1>4, <1>6, <1>7

LEMMA MoveDerives ==
    ASSUME NEW ks \in KeyspaceType, NEW d \in DbIds, NEW cmd \in MoveCommand, NEW from \in Nat,
           NEW ts \in Readings(from, MaxNow)
    PROVE  Derives(Move(ks, d, cmd, ts), ks, {}, "MOVE", from, ts[4])
<1> DEFINE k == cmd.key
           src == ks[d][k]
           ks2 == Move(ks, d, cmd, ts)
           purged == [ks EXCEPT ![cmd.db] = purge_if_expired(@, k, ts[1])]
           both == [purged EXCEPT ![d] = purge_if_expired(@, k, ts[2])]
           a == <<d, k>>
           b == <<cmd.db, k>>
<1>1. ks[d] \in Db /\ k \in Keys
  BY DEF KeyspaceType, MoveCommand
<1>2. ts[4] \in Nat /\ from <= ts[4] /\ ts[2] \in Nat /\ from <= ts[2]
  BY ReadingsOrder
<1>3. \/ ks2 = ks
      \/ cmd.db \in DbIds /\ cmd.db # d /\ ks2 = both
      \/ /\ cmd.db \in DbIds /\ cmd.db # d /\ contains(ks[d], k, ts[2])
         /\ ks2 = [ks EXCEPT ![d] = remove(@, k),
                             ![cmd.db] = put(@, k, src.value, src.expire_at)]
  BY DEF Move, is_valid
<1> HIDE DEF ks2
<1>4. CASE ks2 = ks
  BY <1>2, <1>4, AllKept DEF ks2
<1>5. CASE cmd.db \in DbIds /\ cmd.db # d /\ ks2 = both
  <2>1. ks[cmd.db] \in Db
    BY <1>5 DEF KeyspaceType
  <2>2. /\ \A i \in Keys : purge_if_expired(ks[cmd.db], k, ts[1])[i] \in {ks[cmd.db][i], NoEntry}
        /\ \A i \in Keys : purge_if_expired(ks[d], k, ts[2])[i] \in {ks[d][i], NoEntry}
    BY <1>1, <2>1, PurgeKeeps
  <2>3. /\ ks2[cmd.db] = purge_if_expired(ks[cmd.db], k, ts[1])
        /\ ks2[d] = purge_if_expired(ks[d], k, ts[2])
        /\ \A e \in DbIds \ {d, cmd.db} : ks2[e] = ks[e]
    BY <1>5 DEF KeyspaceType
  <2>4. \A p \in Places : At(ks2, p) = At(ks, p) \/ At(ks2, p) = NoEntry
    BY <2>2, <2>3, EntryAt DEF At
  <2> QED BY <1>2, <2>4, AllKept DEF ks2
<1>6. CASE /\ cmd.db \in DbIds /\ cmd.db # d /\ contains(ks[d], k, ts[2])
           /\ ks2 = [ks EXCEPT ![d] = remove(@, k),
                               ![cmd.db] = put(@, k, src.value, src.expire_at)]
  <2>1. ks[cmd.db] \in Db
    BY <1>6 DEF KeyspaceType
  <2>2. /\ ks2[d] = remove(ks[d], k)
        /\ ks2[cmd.db] = put(ks[cmd.db], k, src.value, src.expire_at)
        /\ \A e \in DbIds \ {d, cmd.db} : ks2[e] = ks[e]
    BY <1>6 DEF KeyspaceType
  <2>3. a \in Places /\ b \in Places /\ At(ks, a) = src /\ At(ks2, a) = NoEntry
    BY <1>1, <1>6, <2>2 DEF Places, At, remove, Db
  <2>4. At(ks2, b) = [value |-> src.value, expire_at |-> src.expire_at]
    BY <1>1, <2>1, <2>2 DEF At, put, Db
  <2>5. src \in Entry /\ LiveEntry(src, from)
    BY <1>1, <1>2, <1>6, LiveBefore DEF contains, LiveEntry, Db
  <2>6. Becomes(At(ks2, b), At(ks, a), {}, "MOVE", from, ts[4])
    BY <2>3, <2>4, <2>5, MovedBecomes
  <2>7. \A p \in Places \ {b} : At(ks2, p) = At(ks, p) \/ At(ks2, p) = NoEntry
    <3>1. \A i \in Keys : remove(ks[d], k)[i] \in {ks[d][i], NoEntry}
      BY <1>1 DEF remove, Db
    <3>2. \A i \in Keys \ {k} :
            put(ks[cmd.db], k, src.value, src.expire_at)[i] = ks[cmd.db][i]
      BY <1>1, <2>1 DEF put, Db
    <3> QED BY <2>2, <3>1, <3>2, EntryAt DEF At
  <2> HIDE DEF a, b
  <2>8. Derives(ks2, ks, {}, "MOVE", from, ts[4])
    BY <1>2, <2>3, <2>6, <2>7, Transferred
  <2> QED BY <2>8 DEF ks2
<1> QED
  BY <1>3, <1>4, <1>5, <1>6

LEMMA SwapDbDerives ==
    ASSUME NEW ks \in KeyspaceType, NEW cmd \in SwapCommand, NEW from \in Nat, NEW to \in Nat,
           from <= to
    PROVE  Derives(SwapDb(ks, cmd), ks, {}, "SWAPDB", from, to)
<1> DEFINE x == cmd.first
           y == cmd.second
           ks2 == SwapDb(ks, cmd)
           g(e) == IF e = x THEN y ELSE IF e = y THEN x ELSE e
           f == [p \in Places |-> <<g(p[1]), p[2]>>]
<1>1. CASE ~(x \in DbIds /\ y \in DbIds)
  <2>1. ks2 = ks
    BY <1>1 DEF SwapDb, is_valid
  <2> QED BY <2>1, AllKept
<1>2. CASE x \in DbIds /\ y \in DbIds
  <2>1. ks2 = [ks EXCEPT ![x] = ks[y], ![y] = ks[x]]
    BY <1>2 DEF SwapDb, swap, is_valid
  <2>2. \A e \in DbIds : g(e) \in DbIds /\ ks2[e] = ks[g(e)] /\ g(g(e)) = e
    BY <1>2, <2>1 DEF KeyspaceType
  <2> HIDE DEF ks2, g
  <2>3. f \in [Places -> Places] /\ \A p \in Places : f[p] = <<g(p[1]), p[2]>>
    BY <2>2 DEF Places
  <2> HIDE DEF f
  <2>4. \A p, r \in Places : f[p] = f[r] => p = r
    <3>1. SUFFICES ASSUME NEW p \in Places, NEW r \in Places, f[p] = f[r] PROVE p = r
      OBVIOUS
    <3>2. g(p[1]) = g(r[1]) /\ p[2] = r[2]
      BY <2>3, <3>1
    <3>3. p[1] \in DbIds /\ r[1] \in DbIds /\ p = <<p[1], p[2]>> /\ r = <<r[1], r[2]>>
      BY DEF Places
    <3>4. p[1] = r[1]
      BY <2>2, <3>2, <3>3
    <3> QED BY <3>2, <3>3, <3>4
  <2>5. ASSUME NEW p \in Places
        PROVE  Becomes(At(ks2, p), At(ks, f[p]), IF p = 0 THEN {} ELSE {}, "SWAPDB", from, to)
    <3>1. At(ks2, p) = At(ks, f[p]) /\ f[p] \in Places
      BY <2>2, <2>3, EntryAt DEF At
    <3> QED BY <3>1, EntryAt, KeptBecomes
  <2>6. Derives(ks2, ks, {}, "SWAPDB", from, to)
    BY <2>3, <2>4, <2>5 DEF Derives
  <2> QED BY <2>6 DEF ks2
<1> QED BY <1>1, <1>2

\* Every command the server runs.
LEMMA ExecuteDerives ==
    ASSUME NEW ks \in KeyspaceType, NEW d \in DbIds, NEW cmd \in Command, NEW from \in Nat,
           NEW ts \in Readings(from, MaxNow)
    PROVE  Derives(execute_locked(ks, d, cmd, ts), ks, Written(cmd), cmd.op, from, ts[4])
<1> DEFINE ks2 == execute_locked(ks, d, cmd, ts)
<1>1. ks[d] \in Db /\ ts[4] \in Nat /\ from <= ts[4]
  BY ReadingsOrder DEF KeyspaceType
<1>2. CASE cmd.op = "SET"
  BY <1>2, CommandKinds, SetDerives DEF execute_locked, Written
<1>3. CASE cmd.op = "PERSIST"
  BY <1>3, CommandKinds, PersistDerives DEF execute_locked, Written, KeyCommand
<1>4. CASE cmd.op = "EXPIRE"
  BY <1>4, CommandKinds, ExpireDerives DEF execute_locked, Written
<1>5. CASE cmd.op = "RENAME"
  BY <1>5, CommandKinds, RenameDerives DEF execute_locked, Written
<1>6. CASE cmd.op = "COPY"
  BY <1>6, CommandKinds, CopyDerives DEF execute_locked, Written
<1>7. CASE cmd.op = "MOVE"
  BY <1>7, CommandKinds, MoveDerives DEF execute_locked, Written
<1>8. CASE cmd.op = "SWAPDB"
  BY <1>1, <1>8, CommandKinds, SwapDbDerives DEF execute_locked, Written
<1>9. CASE cmd.op = "XADD"
  BY <1>9, CommandKinds, XAddDerives DEF execute_locked, Written
<1>10. CASE cmd.op = "XDEL"
  BY <1>10, CommandKinds, XDelDerives DEF execute_locked, Written
<1>11. CASE cmd.op \notin {"SET", "PERSIST", "EXPIRE", "RENAME", "COPY", "MOVE", "SWAPDB",
                           "XADD", "XDEL"}
  <2>1. \A p \in Places : At(ks2, p) = At(ks, p) \/ At(ks2, p) = NoEntry
    <3>1. CASE cmd.op = "GET"
      <4>1. \A i \in Keys : purge_if_expired(ks[d], cmd.key, ts[1])[i] \in {ks[d][i], NoEntry}
        BY <1>1, <3>1, CommandKinds, PurgeKeeps DEF KeyCommand
      <4>2. ks2 = [ks EXCEPT ![d] = purge_if_expired(ks[d], cmd.key, ts[1])]
        BY <3>1 DEF execute_locked
      <4> QED BY <4>1, <4>2, EntryAt DEF At, KeyspaceType
    <3>2. CASE cmd.op = "DEL"
      <4>1. \A i \in Keys : Del(ks[d], cmd)[i] \in {ks[d][i], NoEntry}
        BY DEF Del
      <4>2. ks2 = [ks EXCEPT ![d] = Del(ks[d], cmd)]
        BY <3>2 DEF execute_locked
      <4> QED BY <4>1, <4>2, EntryAt DEF At, KeyspaceType
    <3>3. CASE cmd.op = "FLUSHDB"
      <4>1. ks2 = [ks EXCEPT ![d] = EmptyDb]
        BY <3>3 DEF execute_locked
      <4> QED BY <4>1, EntryAt DEF At, KeyspaceType, EmptyDb
    <3>4. CASE cmd.op = "FLUSHALL"
      BY <3>4, EntryAt DEF execute_locked, At, EmptyKeyspace, EmptyDb
    <3>5. CASE cmd.op = "RELOAD"
      <4>1. ks2 = Reload(ks, ts)
        BY <3>5 DEF execute_locked
      <4> QED BY <4>1, EntryAt DEF At, Reload, sweep_expired
    <3>6. CASE cmd.op \notin {"GET", "DEL", "FLUSHDB", "FLUSHALL", "RELOAD"}
      <4>1. ks2 = ks
        BY <1>11, <3>6 DEF execute_locked
      <4> QED BY <4>1
    <3> QED BY <3>1, <3>2, <3>3, <3>4, <3>5, <3>6
  <2> HIDE DEF ks2
  <2> QED BY <1>1, <2>1, AllKept DEF ks2
<1> QED
  BY <1>2, <1>3, <1>4, <1>5, <1>6, <1>7, <1>8, <1>9, <1>10, <1>11

-----------------------------------------------------------------------------
(* The life of a value *)

\* Nothing is held that no client has sent.
HeldWasSent == \A v : Holders(v) # {} => v \in sent

LInv == IInv /\ HeldWasSent /\ OneHolder

LEMMA LifecycleInitLInv == LifecycleInit => LInv
<1> SUFFICES ASSUME LifecycleInit PROVE LInv
  OBVIOUS
<1>1. IInv
  BY InitIInv DEF LifecycleInit
<1>2. \A p \in Places : keyspace[p[1]][p[2]] = NoEntry
  BY EntryAt, EmptyType DEF LifecycleInit, Init, EmptyKeyspace, EmptyDb
<1>3. \A v : Holders(v) = {}
  BY <1>2 DEF Holders, Holds
<1> QED
  BY <1>1, <1>3 DEF LInv, HeldWasSent, OneHolder

\* What a step of the server does: all keys in the places they come from, one
\* place for what is written, which is new; the clock does not go back.
Follows(W, op) ==
    /\ Derives(keyspace', keyspace, W, op, now, now')
    /\ W \cap sent = {} /\ sent' = sent \cup W
    /\ asked \subseteq asked'
    /\ op \in {"COPY", "PERSIST"} => op \in asked'

LEMMA StepFollows ==
    ASSUME IInv, [LifecycleNext]_lifecycleVars
    PROVE  \E W, op : Follows(W, op)
<1>1. keyspace \in KeyspaceType /\ now \in Nat
  BY DEF IInv, TypeOK
<1>2. ASSUME NEW c \in Clients, NEW cmd \in FreshRequests, NEW ts \in Readings(now, MaxNow),
             SendFresh(cmd), Execute(c, cmd, ts)
      PROVE  Follows(Written(cmd), cmd.op)
  <2>1. cmd \in Command /\ db_index[c] \in DbIds
    BY LifecycleAssumption DEF IInv, TypeOK
  <2>2. Derives(execute_locked(keyspace, db_index[c], cmd, ts), keyspace, Written(cmd), cmd.op,
                now, ts[4])
    BY <1>1, <2>1, ExecuteDerives
  <2>3. keyspace' = execute_locked(keyspace, db_index[c], cmd, ts) /\ now' = ts[4]
    BY <1>2 DEF Execute, Reads
  <2>4. /\ Written(cmd) \cap sent = {} /\ sent' = sent \cup Written(cmd)
        /\ asked \subseteq asked'
        /\ cmd.op \in {"COPY", "PERSIST"} => cmd.op \in asked'
    BY <1>2 DEF SendFresh
  <2> QED BY <2>2, <2>3, <2>4 DEF Follows
<1>3. ASSUME UNCHANGED <<sent, asked>>, now' \in Nat, now <= now',
             \A p \in Places : At(keyspace', p) = At(keyspace, p) \/ At(keyspace', p) = NoEntry
      PROVE  Follows({}, "GET")
  BY <1>1, <1>3, AllKept DEF Follows
<1>4. ASSUME NEW t \in Clock, Sweep(t), UNCHANGED <<sent, asked>> PROVE Follows({}, "GET")
  <2>1. now' \in Nat /\ now <= now'
    BY <1>1, <1>4, TransactionsAssumption DEF Sweep, Clock
  <2>2. \A p \in Places : At(keyspace', p) = At(keyspace, p) \/ At(keyspace', p) = NoEntry
    BY <1>1, <1>4, EntryAt DEF Sweep, At, sweep_expired
  <2> QED BY <1>3, <1>4, <2>1, <2>2
<1>5. ASSUME UNCHANGED <<keyspace, now, sent, asked>> PROVE Follows({}, "GET")
  BY <1>1, <1>3, <1>5
<1>6. ASSUME NEW c \in Clients, Reconnect(c), UNCHANGED <<sent, asked>> PROVE Follows({}, "GET")
  BY <1>5, <1>6 DEF Reconnect
<1>7. CASE UNCHANGED lifecycleVars
  BY <1>5, <1>7 DEF lifecycleVars, vars
<1> QED
  BY <1>2, <1>4, <1>6, <1>7 DEF LifecycleNext

LEMMA LifecycleStepIInv ==
    ASSUME IInv, [LifecycleNext]_lifecycleVars
    PROVE  IInv'
<1>1. ASSUME NEW c \in Clients, NEW cmd \in FreshRequests, NEW ts \in Readings(now, MaxNow),
             Execute(c, cmd, ts)
      PROVE  IInv'
  BY <1>1, CommandsKeepIInv, LifecycleAssumption
<1>2. ASSUME NEW c \in Clients, Reconnect(c) PROVE IInv'
  BY <1>2, ConnStepsKeepIInv
<1>3. ASSUME NEW t \in Clock, Sweep(t) PROVE IInv'
  BY <1>3, SweepKeepsIInv
<1>4. CASE UNCHANGED lifecycleVars
  BY <1>4, StepKeepsIInv DEF lifecycleVars
<1> QED BY <1>1, <1>2, <1>3, <1>4 DEF LifecycleNext

LEMMA LifecycleStepLInv ==
    ASSUME LInv, [LifecycleNext]_lifecycleVars
    PROVE  LInv'
<1>1. IInv'
  BY LifecycleStepIInv DEF LInv
<1>2. PICK W, op : Follows(W, op)
  BY StepFollows DEF LInv
<1>3. PICK f \in [Places -> Places] : \E q :
        /\ op # "COPY" => \A a, b \in Places : f[a] = f[b] => a = b
        /\ \A p \in Places : Becomes(At(keyspace', p), At(keyspace, f[p]),
                                     IF p = q THEN W ELSE {}, op, now, now')
  BY <1>2 DEF Follows, Derives
<1>4. PICK q :
        /\ op # "COPY" => \A a, b \in Places : f[a] = f[b] => a = b
        /\ \A p \in Places : Becomes(At(keyspace', p), At(keyspace, f[p]),
                                     IF p = q THEN W ELSE {}, op, now, now')
  BY <1>3
<1>5. ASSUME NEW v, NEW p \in Holders(v)'
      PROVE  p \in Places /\ ((p = q /\ v \in W) \/ f[p] \in Holders(v))
  <2>1. p \in Places /\ Holds(At(keyspace', p), v)
    BY <1>5 DEF Holders, At
  <2>2. v \in (IF p = q THEN W ELSE {}) \/ Holds(At(keyspace, f[p]), v)
    BY <1>4, <2>1 DEF Becomes
  <2> QED BY <2>1, <2>2 DEF Holders, At
<1>6. HeldWasSent'
  <2>1. SUFFICES ASSUME NEW v, NEW p \in Holders(v)' PROVE v \in sent'
    BY DEF HeldWasSent
  <2>2. v \in W \/ Holders(v) # {}
    BY <1>5
  <2> QED BY <1>2, <2>2 DEF Follows, LInv, HeldWasSent
<1>7. OneHolder'
  <2>1. SUFFICES ASSUME "COPY" \notin asked', NEW v \in sent',
                        NEW p \in Holders(v)', NEW r \in Holders(v)'
                 PROVE  p = r
    BY DEF OneHolder
  <2>2. op # "COPY" /\ "COPY" \notin asked
    BY <1>2, <2>1 DEF Follows
  <2>3. CASE v \in W
    <3>1. Holders(v) = {}
      BY <1>2, <2>3 DEF Follows, LInv, HeldWasSent
    <3> QED BY <1>5, <3>1
  <2>4. CASE v \notin W
    <3>1. f[p] \in Holders(v) /\ f[r] \in Holders(v) /\ p \in Places /\ r \in Places
      BY <1>5, <2>4
    <3>2. f[p] = f[r]
      BY <2>2, <3>1 DEF LInv, HeldWasSent, OneHolder
    <3> QED BY <1>4, <2>2, <3>1, <3>2
  <2> QED BY <2>3, <2>4
<1> QED
  BY <1>1, <1>6, <1>7 DEF LInv

\* RENAME, MOVE, SWAPDB and DEBUG RELOAD never duplicate a value: only COPY does,
\* whatever expires on the way.
THEOREM OneHolderHolds == LifecycleSpec => []OneHolder
<1>1. LInv => OneHolder
  BY DEF LInv
<1> QED
  BY LifecycleInitLInv, LifecycleStepLInv, <1>1, PTL DEF LifecycleSpec

\* A value that any place still holds was in a place before, where it was alive
\* if it is alive now and volatile if it was so before and nobody asked.
LEMMA HolderBefore ==
    ASSUME LInv, [LifecycleNext]_lifecycleVars, NEW v \in sent, NEW p \in Holders(v)'
    PROVE  \E r \in Holders(v) :
            /\ LiveEntry(keyspace'[p[1]][p[2]], now') => LiveEntry(keyspace[r[1]][r[2]], now)
            /\ keyspace'[p[1]][p[2]].expire_at = NoTtl =>
                keyspace[r[1]][r[2]].expire_at = NoTtl \/ asked' # {}
<1>1. PICK W, op : Follows(W, op)
  BY StepFollows DEF LInv
<1>2. PICK f \in [Places -> Places] : \E q : \A x \in Places :
        Becomes(At(keyspace', x), At(keyspace, f[x]), IF x = q THEN W ELSE {}, op, now, now')
  BY <1>1 DEF Follows, Derives
<1>3. p \in Places /\ Holds(At(keyspace', p), v) /\ f[p] \in Places
  BY DEF Holders, At
<1>4. v \notin W
  BY <1>1 DEF Follows
<1>5. /\ Holds(At(keyspace, f[p]), v)
      /\ LiveEntry(At(keyspace', p), now') => LiveEntry(At(keyspace, f[p]), now)
      /\ At(keyspace', p).expire_at = NoTtl =>
            At(keyspace, f[p]).expire_at = NoTtl \/ op \in {"PERSIST", "COPY"}
  BY <1>2, <1>3, <1>4 DEF Becomes
<1>6. op \in {"PERSIST", "COPY"} => asked' # {}
  BY <1>1 DEF Follows
<1>7. f[p] \in Holders(v)
  BY <1>3, <1>5 DEF Holders, At
<1> QED
  BY <1>5, <1>6, <1>7 DEF At

\* A value once deleted, overwritten or expired is never readable again, although
\* an expired entry stays in the map until a lazy purge, a sweep or a reload.
THEOREM NoResurrectionHolds == LifecycleSpec => NoResurrection
<1>1. ASSUME LInv, [LifecycleNext]_lifecycleVars
      PROVE  [\A v \in sent : ~Live(v) => ~Live(v)']_lifecycleVars
  <2>1. SUFFICES ASSUME NEW v \in sent, ~Live(v), Live(v)' PROVE FALSE
    OBVIOUS
  <2>2. PICK p \in Holders(v)' : LiveEntry(keyspace'[p[1]][p[2]], now')
    BY <2>1 DEF Live
  <2>3. \E r \in Holders(v) : LiveEntry(keyspace[r[1]][r[2]], now)
    BY <1>1, <2>1, <2>2, HolderBefore
  <2> QED BY <2>1, <2>3 DEF Live
<1> QED
  BY LifecycleInitLInv, LifecycleStepLInv, <1>1, PTL DEF LifecycleSpec, NoResurrection

\* An expiry is lost to nothing but PERSIST and COPY: RENAME, MOVE, XADD, XDEL
\* and reloads carry it along.
THEOREM StaysVolatileHolds == LifecycleSpec => StaysVolatile
<1>1. ASSUME LInv, [LifecycleNext]_lifecycleVars
      PROVE  [\A v \in sent : Holders(v) # {} /\ Volatile(v) =>
                Volatile(v)' \/ asked' # {}]_lifecycleVars
  <2>1. SUFFICES ASSUME NEW v \in sent, Volatile(v), asked' = {},
                        NEW p \in Holders(v)'
                 PROVE  keyspace'[p[1]][p[2]].expire_at # NoTtl
    BY DEF Volatile
  <2> QED BY <1>1, <2>1, HolderBefore DEF Volatile
<1> QED
  BY LifecycleInitLInv, LifecycleStepLInv, <1>1, PTL DEF LifecycleSpec, StaysVolatile

=============================================================================
