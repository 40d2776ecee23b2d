----------------------------- MODULE DataTypes ------------------------------
(***************************************************************************)
(* One database under the data type commands, one family of commands at a  *)
(* time: lists, sets, hashes, sorted sets, strings with bits, streams.     *)
(* Every command runs with the keyspace locked, so commands do not         *)
(* interleave; the clock moves inside them, and between them it may also   *)
(* be set back.  DEBUG RELOAD takes the database through the dump format.  *)
(***************************************************************************)
EXTENDS Lists, Sets, Hashes, StringOps, Rdb

CONSTANTS
    Inputs,      \* family -> the commands clients send
    MaxTime,     \* bound: the clock
    MaxLen       \* bound: elements of a container, bytes of a string

ASSUME DataTypesAssumption == MaxTime \in Nat /\ MaxTime <= MaxMs /\ MaxLen \in Nat

VARIABLES
    db,          \* the database
    now,         \* the wall clock
    family,      \* the commands this behaviour is about; never changes
    poisoned     \* the mutex of the keyspace is poisoned

vars == <<db, now, family, poisoned>>

-----------------------------------------------------------------------------

\* DEBUG RELOAD, with this database and an empty one beside it, when the clock
\* shows t at the writing and clock[k] when k is read back.
reload(d, t, clock) ==
    LET image == to_bytes([EmptyKeyspace EXCEPT ![0] = d], t)
        read == from_bytes(image, clock)
    IN  IF read = <<>> THEN Answer(d, Err("reload")) ELSE Answer(read[1][0], Ok)

\* The outcomes a command can have.
dispatch(d, c, ts) ==
    CASE c.op \in ListHandlers   -> {list_command(d, c, ts)}
      [] c.op \in SetHandlers    -> set_command(d, c, ts)
      [] c.op \in HashHandlers   -> hash_command(d, c, ts)
      [] c.op \in ZsetHandlers   -> zset_command(d, c, ts)
      [] c.op \in StringHandlers -> string_command(d, c, ts)
      [] c.op \in StreamHandlers -> stream_command(d, c, ts)
      [] c.op = "SET"            -> {Answer(Set(d, c, ts), Ok)}
      [] c.op = "DEL"            -> {Answer(Del(d, c), Ok)}
      [] c.op = "EXPIRE"         -> {Answer(Expire(d, c, ts), Ok)}
      [] c.op = "RELOAD"         -> {reload(d, ts[1], clock) : clock \in [Keys -> ts[1] .. ts[Reads]]}
      [] c.op = "MALFORMED"      -> {malformed(d, c, ts)}

ByteString == Seq(0 .. 2 ^ ByteBits - 1)

Operations == ListHandlers \cup SetHandlers \cup HashHandlers \cup ZsetHandlers
              \cup StringHandlers \cup StreamHandlers
              \cup {"SET", "DEL", "EXPIRE", "RELOAD", "MALFORMED"}

SeveralKeys == {"SETOP", "SINTERCARD", "MGET", "XREAD", "BITOP"}

\* What the parsing of arguments guarantees a handler: keys where it takes
\* keys, at least one of what it takes any number of, numbers that are
\* numbers.  A command looks at no more keys than it has readings.
Parsed(c) ==
    /\ c.op \in Operations
    /\ c.op \notin SeveralKeys \cup {"MSET", "MSETNX", "DEL", "RELOAD", "MALFORMED"} =>
          c.key \in Keys
    /\ c.op \in SeveralKeys => c.keys \in Seq(Keys) \ {<<>>} /\ Len(c.keys) <= Reads
    /\ c.op \in {"LMOVE", "SMOVE", "BITOP"} => c.dst \in Keys
    /\ c.op = "SETOP" => c.dst = <<>> \/ c.dst[1] \in Keys
    /\ c.op \in {"MSET", "MSETNX"} =>
          c.pairs \in Seq(Keys \X ByteString) /\ Len(c.pairs) <= Reads
    /\ c.op = "PUSH" => c.vals \in Seq(ByteString) \ {<<>>}
    /\ c.op = "POP" => c.count = <<>> \/ c.count[1] \in Int
    /\ c.op = "SADD" => c.members # {}
    /\ c.op = "HSET" => DOMAIN c.pairs # {}
    /\ c.op = "ZADD" => c.pairs \in Seq(Int \X Int)
    /\ c.op = "ZINCRBY" => c.member \in Int
    /\ c.op = "XADD" => /\ c.id.kind \in {"auto", "msauto", "full"}
                        /\ c.id.kind = "msauto" => c.id.ms \in 0 .. MaxMs
                        /\ c.id.kind = "full" => c.id.id \in 0 .. MaxStreamId
    /\ c.op \in {"SET", "SETNX", "SETEX", "GETSET", "APPEND", "SETRANGE"} =>
          c.val \in ByteString
    /\ c.op = "SET" => c.px \in Nat \cup {NoTtl}
    /\ c.op \in {"EXPIRE", "SETEX"} => c.n \in Int
    /\ c.op = "GETEX" => c.opts \in Seq([kind : {"PX", "PXAT"}, n : Int]
                                        \cup [kind : {"PERSIST", "UNKNOWN"}])
    /\ c.op \in {"INCR", "INCRBYFLOAT", "ZINCRBY"} => c.incr \in Int
    /\ c.op \in {"LTRIM"} => c.start \in Int /\ c.stop \in Int
    /\ c.op = "LSET" => c.index \in Int
    /\ c.op \in {"SETRANGE", "SETBIT"} => c.offset \in Int
    /\ c.op = "SETBIT" => c.bit \in {0, 1}
    /\ c.op = "BITOP" => c.kind \in {"AND", "OR", "XOR", "NOT"}

ASSUME InputsAssumption == \A f \in DOMAIN Inputs : \A c \in Inputs[f] : Parsed(c)

Size(v) == CASE v.type \in {"list", "string"} -> Len(v.data)
             [] v.type = "set"    -> Cardinality(v.data)
             [] v.type = "hash"   -> Max({Cardinality(DOMAIN v.data)}
                                         \cup {Len(v.data[f]) : f \in DOMAIN v.data})
             [] v.type = "zset"   -> Cardinality(DOMAIN v.data.scores)
             [] v.type = "stream" -> Cardinality(DOMAIN v.data.entries)

Bounded(d) == \A k \in Keys : d[k] # NoEntry => Size(d[k].value) <= MaxLen

-----------------------------------------------------------------------------

Init ==
    /\ db = EmptyDb
    /\ now = 0
    /\ family \in DOMAIN Inputs
    /\ poisoned = FALSE

\* Under a poisoned mutex every command panics and changes nothing.
Execute(c) ==
    /\ ~poisoned
    /\ \E ts \in Readings(now, MaxTime) :
        /\ now' = ts[Reads]
        /\ \E out \in dispatch(db, c, ts) :
            /\ Bounded(out.db)
            /\ db' = out.db
            /\ poisoned' = (out.reply = Panic)
    /\ UNCHANGED family

\* The task that removes expired keys every second.
Sweep ==
    /\ ~poisoned
    /\ db' = sweep_expired(db, now)
    /\ UNCHANGED <<now, family, poisoned>>

\* The wall clock, which may be set back.
SetClock ==
    /\ now' \in 0 .. MaxTime
    /\ UNCHANGED <<db, family, poisoned>>

Next == (\E c \in Inputs[family] : Execute(c)) \/ Sweep \/ SetClock

Spec == Init /\ [][Next]_vars

-----------------------------------------------------------------------------
(* Properties.  Those about a command quantify over every command that may  *)
(* come next, its clock readings and its outcomes.                          *)

EveryNext(P(_, _, _)) ==
    \A c \in Inputs[family], ts \in Readings(now, MaxTime) :
        \A out \in dispatch(db, c, ts) : P(c, ts, out)

WellFormed(v) ==
    CASE v.type = "string" -> v.data \in ByteString
      [] v.type = "zset"   -> v.data.sorted = {<<v.data.scores[m], m>> : m \in DOMAIN v.data.scores}
      [] v.type = "stream" -> /\ \A id \in DOMAIN v.data.entries : id <= v.data.last_id
                              /\ v.data.max_deleted_id <= v.data.last_id
      [] OTHER             -> v.type \in DOMAIN Fresh

\* Every entry is a well-formed value with an expiry: the index of a sorted set
\* holds exactly the scores of its members (ZSet keeps both by hand), and no
\* entry of a stream and no deleted one is newer than its last id.
TypeOK ==
    /\ now \in 0 .. MaxTime /\ family \in DOMAIN Inputs /\ poisoned \in BOOLEAN
    /\ \A k \in Keys : db[k] # NoEntry => /\ db[k].expire_at \in Expiry
                                         /\ WellFormed(db[k].value)

HollowKeys(d) == {k \in Keys : d[k] # NoEntry /\ Hollow(d[k].value)}

\* A command that succeeds leaves no empty list, set, hash or sorted set under
\* a key (remove_if_empty), whatever it created on the way and whatever
\* expired between its looks at the key.
NoHollowKey ==
    EveryNext(LAMBDA c, ts, out :
        ~IsError(out.reply) => HollowKeys(out.db) \subseteq HollowKeys(db))

\* Commands that set the expiry or put a new value in place of the old one.
Replacing(c) ==
    \/ c.op \in {"SET", "SETNX", "SETEX", "GETSET", "GETEX", "MSET", "MSETNX", "EXPIRE", "BITOP"}
    \/ c.op = "SETOP" /\ c.dst # <<>>

\* Moving the only element of a key onto the same key deletes and re-creates it.
Rotating(c) == c.op \in {"LMOVE", "SMOVE"} /\ c.key = c.dst

\* Any other command, DEBUG RELOAD included, leaves the expiry of a key that
\* is there before and after as it was.
ExpiryKept ==
    EveryNext(LAMBDA c, ts, out :
        \A k \in Keys :
            /\ ~Replacing(c) /\ ~Rotating(c)
            /\ LiveEntry(db[k], ts[Reads]) /\ out.db[k] # NoEntry
            => out.db[k].expire_at = db[k].expire_at)

-----------------------------------------------------------------------------
(* Replies against a definition that clamps nothing *)

\* Positions are counted from zero; a negative one from the end.
Between(p, start, stop, len) ==
    /\ p >= IF start < 0 THEN start + len ELSE start
    /\ p <= IF stop < 0 THEN stop + len ELSE stop

RangeOf(s, start, stop) ==
    Picked(s, {i \in DOMAIN s : Between(i - 1, start, stop, Len(s))})

\* The members of a sorted set in the order of their scores.
Ascending(z) ==
    SetToSortSeq(DOMAIN z.scores, LAMBDA m, n :
        z.scores[m] < z.scores[n] \/ (z.scores[m] = z.scores[n] /\ m < n))

OnesBetween(s, c) ==
    LET unit(b) == IF c.unit = "BIT" THEN b ELSE b \div ByteBits
        len == IF c.unit = "BIT" THEN Len(s) * ByteBits ELSE Len(s)
    IN  {b \in 0 .. Len(s) * ByteBits - 1 :
            get_bit(s, b) = 1 /\ (c.unit = "NONE" \/ Between(unit(b), c.start, c.stop, len))}

SumOrRefusal(n) == IF n \in I64 THEN Integer(n) ELSE Err("overflow")

ReferenceType == [LRANGE |-> "list", LLEN |-> "list", GETRANGE |-> "string", BITCOUNT |-> "string",
                  INCR |-> "string", ZRANGE |-> "zset", ZREMRANGEBYRANK |-> "zset",
                  ZRANK |-> "zset", HINCRBY |-> "hash"]

\* What a command must answer about a value of its type.
Reference(c, x) ==
    CASE c.op = "LRANGE"   -> Array(RangeOf(x, c.start, c.stop))
      [] c.op = "LLEN"     -> Integer(Len(x))
      [] c.op = "GETRANGE" -> Bulk(RangeOf(x, c.start, c.stop))
      [] c.op = "BITCOUNT" -> Integer(Cardinality(OnesBetween(x, c)))
      [] c.op = "ZRANGE"   -> Array(RangeOf(IF c.rev THEN Reverse(Ascending(x)) ELSE Ascending(x),
                                            c.start, c.stop))
      [] c.op = "ZREMRANGEBYRANK" -> Integer(Len(RangeOf(Ascending(x), c.start, c.stop)))
      [] c.op = "ZRANK"    ->
            LET at == SelectInSeq(Ascending(x), LAMBDA m : m = c.member)
            IN  IF at = 0 THEN Null ELSE Integer(IF c.rev THEN Len(Ascending(x)) - at ELSE at - 1)
      [] c.op = "INCR"     ->
            IF ~IsInt(x) THEN Err("not an integer")
            ELSE SumOrRefusal(Numeral(x) + IF c.negate THEN -c.incr ELSE c.incr)
      [] c.op = "HINCRBY"  ->
            IF c.field \notin DOMAIN x THEN Integer(c.incr)
            ELSE IF ~IsInt(x[c.field]) THEN Err("not an integer")
            ELSE SumOrRefusal(Numeral(x[c.field]) + c.incr)

Referenced(c) == c.op \in DOMAIN ReferenceType
                 /\ (c.op = "ZRANGE" => c.by = "index" /\ ~c.withscores /\ c.limit = <<>>)
                 /\ (c.op = "INCR" => -c.incr \in I64)

\* Ranges, ranks and counts are those of the plain definition however the
\* indices fall outside the value, and a sum is exact or refused.
RepliesExact ==
    EveryNext(LAMBDA c, ts, out :
        Referenced(c) /\ LiveEntry(db[c.key], ts[1]) =>
            (db[c.key].value.type = ReferenceType[c.op]
                => out.reply = Reference(c, db[c.key].value.data)))

\* list.rs: count 0 means all of them.
LremZeroRemovesAll ==
    EveryNext(LAMBDA c, ts, out :
        c.op = "LREM" /\ ~IsError(out.reply) /\ out.db[c.key] # NoEntry =>
            (c.count = 0 => c.val \notin ToSet(out.db[c.key].value.data)))

-----------------------------------------------------------------------------

IsStream(e) == e # NoEntry /\ e.value.type = "stream"

\* While a stream lives its last id never goes back, an id it has given out or
\* passed over is never given out again, and entries keep their fields: not
\* by XADD with any kind of id, not when the clock is set back, not through
\* deletions, trimming or DEBUG RELOAD.
StreamIdsNeverReused ==
    [][\A k \in Keys :
        IsStream(db[k]) /\ IsStream(db'[k]) /\ LiveEntry(db[k], now') =>
            LET old == db[k].value.data
                new == db'[k].value.data
            IN  /\ new.last_id >= old.last_id
                /\ \A id \in DOMAIN new.entries :
                       IF id \in DOMAIN old.entries THEN new.entries[id] = old.entries[id]
                       ELSE id > old.last_id]_vars

\* What has not expired when its turn comes.
Outlived(d, clock) == [k \in Keys |-> IF Expired(d[k], clock[k]) THEN NoEntry ELSE d[k]]

\* DEBUG RELOAD removes exactly the keys that have expired when they are read
\* back, some before and some after the clock moves.  A dump read back
\* gives the live keys with their values and expiries, in every database: one
\* meebis wrote, one Redis wrote with its packed encodings and an eviction
\* opcode between an expiry and its key.  One that was cut off is refused,
\* even if what its last bytes say of the checksum is "off".
ReloadExact ==
    LET ks == [d \in DbIds |-> db]
        live == [d \in DbIds |-> sweep_expired(db, now)]
        own == to_bytes(ks, now)
        steady == [k \in Keys |-> now]
    IN  /\ \A t \in now .. MaxTime : \A clock \in [Keys -> t .. MaxTime] :
               reload(db, t, clock) = Answer(Outlived(db, clock), Ok)
        /\ from_bytes(own, steady) = <<live>>
        /\ \A meta \in {"IDLE", "FREQ"} : from_bytes(redis_image(ks, now, meta), steady) = <<live>>
        /\ \A n \in 0 .. Len(own.items) - 1 :
               from_bytes([own EXCEPT !.items = SubSeq(@, 1, n), !.checksum = NoChecksum], steady)
                   = <<>>

=============================================================================
