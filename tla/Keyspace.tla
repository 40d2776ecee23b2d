------------------------------ MODULE Keyspace ------------------------------
(***************************************************************************)
(* The numbered databases of src/src/db.rs: what a key holds, how an       *)
(* expiry is honoured, and the operations every command is built from.     *)
(* A Rust `&mut Db` method becomes an operator from the old database to    *)
(* the new one.  Each method that calls now_ms() takes the reading as a    *)
(* parameter: a command makes several such calls and the clock may move    *)
(* between any two of them.                                                *)
(*                                                                         *)
(* Values are strings, compared whole, and streams, whose entries carry    *)
(* fields.  The other four types are fingerprinted by their whole content  *)
(* exactly as strings are, so a string stands for them here.  The 64-bit   *)
(* hash of a fingerprint is taken to be injective on what is hashed.       *)
(***************************************************************************)
EXTENDS Integers, FiniteSets

CONSTANTS
    Keys,        \* names of keys
    Databases,   \* how many numbered databases (--databases)
    Strings,     \* contents a string value may have
    Fields,      \* field lists a stream entry may have
    MaxId,       \* bound: stream ids are 1..MaxId, 0 is StreamId::MIN
    NoEntry,     \* a key that is not in the map
    NoTtl        \* expire_at: None

ASSUME KeyspaceAssumption ==
    /\ Databases \in Nat \ {0}
    /\ MaxId \in Nat
    /\ NoTtl \notin Int

DbIds == 0 .. Databases - 1

StringValue == [type : {"string"}, data : Strings]

StreamEntries == UNION {[S -> Fields] : S \in SUBSET (1 .. MaxId)}

StreamValue == [type : {"stream"}, entries : StreamEntries, last_id : 0 .. MaxId]

Value == StringValue \cup StreamValue

Expiry == Nat \cup {NoTtl}

Entry == [value : Value, expire_at : Expiry]

Db == [Keys -> Entry \cup {NoEntry}]

KeyspaceType == [DbIds -> Db]

Str(s) == [type |-> "string", data |-> s]

\* Stream::default()
EmptyStream == [type |-> "stream", entries |-> [i \in {} |-> 0], last_id |-> 0]

-----------------------------------------------------------------------------
(* One database *)

EmptyDb == [k \in Keys |-> NoEntry]

\* at <= now_ms(): a key is gone from the very millisecond of its expiry.
Expired(e, t) == e # NoEntry /\ e.expire_at # NoTtl /\ e.expire_at <= t

LiveEntry(e, t) == e # NoEntry /\ ~Expired(e, t)

purge_if_expired(db, k, t) ==
    IF Expired(db[k], t) THEN [db EXCEPT ![k] = NoEntry] ELSE db

contains(db, k, t) == LiveEntry(db[k], t)

put(db, k, v, at) == [db EXCEPT ![k] = [value |-> v, expire_at |-> at]]

set(db, k, v) == put(db, k, v, NoTtl)

\* No purge here: whatever expiry the map still holds is inherited.
set_keep_ttl(db, k, v) ==
    put(db, k, v, IF db[k] = NoEntry THEN NoTtl ELSE db[k].expire_at)

\* Purging first or not, the key is gone afterwards.
remove(db, k) == [db EXCEPT ![k] = NoEntry]

expire_at(db, k, t) ==
    IF contains(db, k, t) THEN db[k].expire_at ELSE NoTtl

\* Fault: the entry is found in the map although it has expired.
set_expire_unpurged(db, k, at, t) ==
    IF db[k] # NoEntry THEN put(db, k, db[k].value, at) ELSE db

set_expire(db, k, at, t) ==
    IF contains(db, k, t)
    THEN put(db, k, db[k].value, at)
    ELSE purge_if_expired(db, k, t)

persist(db, k, t) == set_expire(db, k, NoTtl, t)

\* Fault: the source stays.
rename_keeping_src(db, src, dst, t) ==
    IF contains(db, src, t) THEN [db EXCEPT ![dst] = db[src]]
    ELSE purge_if_expired(db, src, t)

rename(db, src, dst, t) ==
    IF contains(db, src, t)
    THEN [db EXCEPT ![src] = NoEntry, ![dst] = db[src]]
    ELSE purge_if_expired(db, src, t)

sweep_expired(db, t) ==
    [k \in Keys |-> IF Expired(db[k], t) THEN NoEntry ELSE db[k]]

\* What WATCH remembers of a value: all of it, except that a stream is
\* reduced to its number of entries and its last id.
FingerprintOf(v) ==
    IF v.type = "stream"
    THEN [type |-> "stream", len |-> Cardinality(DOMAIN v.entries),
          last_id |-> v.last_id]
    ELSE v

fingerprint(db, k, t) ==
    IF contains(db, k, t) THEN FingerprintOf(db[k].value) ELSE NoEntry

\* A key that is not there has no entry and no fingerprint: None is not Some.
ASSUME AbsenceAssumption ==
    /\ NoEntry \notin Entry
    /\ NoEntry \notin StringValue \cup [type : {"stream"}, len : Nat, last_id : Nat]

-----------------------------------------------------------------------------
(* All of them *)

EmptyKeyspace == [d \in DbIds |-> EmptyDb]

is_valid(n) == n \in DbIds

swap(ks, a, b) == [ks EXCEPT ![a] = ks[b], ![b] = ks[a]]

\* Every key of a set of (database, key) pairs purged at its own reading.
PurgeAt(ks, readings) ==
    [d \in DbIds |-> [k \in Keys |->
        IF <<d, k>> \in DOMAIN readings /\ Expired(ks[d][k], readings[<<d, k>>])
        THEN NoEntry ELSE ks[d][k]]]

=============================================================================
