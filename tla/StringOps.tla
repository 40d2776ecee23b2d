----------------------------- MODULE StringOps ------------------------------
(***************************************************************************)
(* The string commands of src/src/commands/string.rs other than SET, and   *)
(* the bit commands of bitops.rs.  A string is a sequence of bytes of      *)
(* ByteBits bits each.                                                     *)
(***************************************************************************)
EXTENDS Values

CONSTANT MaxBytes    \* bound: bytes a bit offset may reach (512 MB)

ASSUME StringOpsAssumption == MaxBytes \in Nat

get(db, c, ts) ==
    Reading(db, c.key, ts[1], "string", Null, LAMBDA s : Bulk(s))

setnx(db, c, ts) ==
    IF contains(db, c.key, ts[1]) THEN Answer(db, Integer(0))
    ELSE Answer(set(db, c.key, Str(c.val)), Integer(1))

\* SETEX and PSETEX: the clock at ts[1], then the write, then the expiry at
\* ts[2], by when the key may already be gone again.
setex(db, c, ts) ==
    IF c.n <= 0 THEN Answer(db, Err("expire"))
    ELSE Answer(set_expire(set(db, c.key, Str(c.val)), c.key, ts[1] + c.n, ts[2]), Ok)

getset(db, c, ts) ==
    LET old == get(db, c, ts)
    IN  IF old.reply = WrongType THEN old
        ELSE Answer(set(old.db, c.key, Str(c.val)), old.reply)

getdel(db, c, ts) ==
    LET old == get(db, c, ts)
    IN  IF old.reply[1] # "bulk" THEN old
        ELSE Answer(remove(old.db, c.key), old.reply)

\* One option of GETEX.  `n as u64` turns a negative argument into a huge one,
\* and the sum with the clock wraps.
GetExOption(db, k, opt, now, t) ==
    CASE opt.kind = "PERSIST" -> persist(db, k, t)
      [] opt.kind = "PX"      -> set_expire(db, k, (now + (opt.n % U64)) % U64, t)
      [] opt.kind = "PXAT"    -> set_expire(db, k, opt.n % U64, t)
      [] opt.kind = "UNKNOWN" -> db

\* The options take effect one by one while they are parsed, so those before
\* an unknown one have been applied when the error is answered.
getex(db, c, ts) ==
    LET old == get(db, c, ts)
        unknown == SelectInSeq(c.opts, LAMBDA o : o.kind = "UNKNOWN")
        parsed == IF unknown = 0 THEN c.opts ELSE SubSeq(c.opts, 1, unknown)
        applied == FoldLeft(LAMBDA d, opt : GetExOption(d, c.key, opt, ts[2], ts[3]),
                            old.db, parsed)
    IN  IF old.reply[1] # "bulk" THEN old
        ELSE Answer(applied, IF unknown = 0 THEN old.reply ELSE Err("syntax"))

\* A string that is rewritten from what it was; a missing one was empty.  The
\* expiry the entry still has is kept, even if it has passed since the read.
Rewriting(db, c, t, F(_)) ==
    LET old == typed_get(db, c.key, t, "string", Found(<<>>))
    IN  IF old.reply = WrongType THEN old
        ELSE LET ch == F(old.reply[2])
             IN  Answer(IF IsError(ch.reply) THEN old.db
                        ELSE set_keep_ttl(old.db, c.key, Str(ch.data)), ch.reply)

append(db, c, ts) ==
    Rewriting(db, c, ts[1], LAMBDA s : Change(s \o c.val, Integer(Len(s \o c.val))))

strlen(db, c, ts) ==
    Reading(db, c.key, ts[1], "string", Integer(0), LAMBDA s : Integer(Len(s)))

\* INCR, DECR, INCRBY and DECRBY, whose delta is the negated argument.
do_incr(db, c, ts) ==
    LET delta == IF c.negate THEN -c.incr ELSE c.incr
    IN  IF delta \notin I64 THEN Answer(db, Err("overflow"))
        ELSE Rewriting(db, c, ts[1], LAMBDA s :
            LET cur == IF contains(db, c.key, ts[1]) THEN s ELSE <<0>>
                next == checked_add(Numeral(cur), delta)
            IN  IF ~IsInt(cur) THEN Change(s, Err("not an integer"))
                ELSE IF next \notin I64 THEN Change(s, Err("overflow"))
                ELSE Change(Text(next), Integer(next)))

incrbyfloat(db, c, ts) ==
    Rewriting(db, c, ts[1], LAMBDA s :
        LET cur == IF contains(db, c.key, ts[1]) THEN s ELSE <<0>>
            next == FloatSum(Numeral(cur), c.incr)
        IN  IF ~IsNumeral(cur) THEN Change(s, Err("not a float"))
            ELSE IF Abs(next) = Inf THEN Change(s, Err("infinity"))
            ELSE Change(Text(next), Bulk(Text(next))))

\* A key of another type reads as missing.
mget(db, c, ts) ==
    LET one(i) == get(db, [key |-> c.keys[i]], <<ts[i]>>).reply
    IN  Answer(PurgedAlong(db, c.keys, ts, Len(c.keys)),
               Array([i \in DOMAIN c.keys |-> IF IsError(one(i)) THEN Null ELSE one(i)]))

\* In the order given: the last of a repeated key wins.
mset(db, c, ts) ==
    LET places(k) == {i \in DOMAIN c.pairs : c.pairs[i][1] = k}
    IN  Answer([k \in Keys |->
                   IF places(k) = {} THEN db[k]
                   ELSE [value |-> Str(c.pairs[Max(places(k))][2]), expire_at |-> NoTtl]], Ok)

msetnx(db, c, ts) ==
    LET keys == [i \in DOMAIN c.pairs |-> c.pairs[i][1]]
        taken == {i \in DOMAIN keys : contains(db, keys[i], ts[i])}
    IN  IF taken # {} THEN Answer(PurgedAlong(db, keys, ts, Min(taken)), Integer(0))
        ELSE Answer(mset(db, c, ts).db, Integer(1))

getrange(db, c, ts) ==
    Reading(db, c.key, ts[1], "string", Bulk(<<>>), LAMBDA s :
        LET start == Max({0, norm_index(c.start, Len(s))})
            end == norm_index(c.stop, Len(s))
            last == Min({end, Len(s) - 1})
        IN  Bulk(IF s = <<>> \/ end < 0 \/ start > last THEN <<>>
                 ELSE Slice(s, start, last)))

\* Vec::resize
Padded(s, n) == [i \in 1 .. Max({n, Len(s)}) |-> IF i <= Len(s) THEN s[i] ELSE 0]

\* An empty patch writes nothing and creates nothing.
setrange(db, c, ts) ==
    IF c.offset < 0 THEN Answer(db, Err("offset"))
    ELSE IF c.val = <<>> THEN strlen(db, c, ts)
    ELSE Rewriting(db, c, ts[1], LAMBDA s :
        LET buf == Padded(s, c.offset + Len(c.val))
        IN  Change([i \in DOMAIN buf |-> IF i - c.offset \in DOMAIN c.val
                                         THEN c.val[i - c.offset] ELSE buf[i]],
                   Integer(Len(buf))))

-----------------------------------------------------------------------------
(* Bits: number 0 is the top bit of the first byte *)

MAX_BIT_OFFSET == MaxBytes * ByteBits

get_bit(s, bit) ==
    LET byte == bit \div ByteBits
    IN  IF byte >= Len(s) THEN 0
        ELSE (s[byte + 1] \div 2 ^ (ByteBits - 1 - (bit % ByteBits))) % 2

\* The byte whose bits, from the top, are bit(0), bit(1), ...
ByteOf(bit(_)) == OfDigits([b \in 1 .. ByteBits |-> bit(b - 1)])

setbit(db, c, ts) ==
    IF c.offset \notin 0 .. MAX_BIT_OFFSET - 1 THEN Answer(db, Err("offset"))
    ELSE Rewriting(db, c, ts[1], LAMBDA s :
        LET byte == c.offset \div ByteBits
            buf == Padded(s, byte + 1)
            bit(b) == IF b = c.offset % ByteBits THEN c.bit
                      ELSE get_bit(buf, byte * ByteBits + b)
        IN  Change([i \in DOMAIN buf |-> IF i = byte + 1 THEN ByteOf(bit) ELSE buf[i]],
                   Integer(get_bit(s, c.offset))))

getbit(db, c, ts) ==
    IF c.offset \notin 0 .. MAX_BIT_OFFSET - 1 THEN Answer(db, Err("offset"))
    ELSE Reading(db, c.key, ts[1], "string", Integer(0), LAMBDA s :
        Integer(get_bit(s, c.offset)))

\* The inclusive range, or <<>> when it is empty.
clamp(start, end, len) ==
    LET s == Max({0, norm_index(start, len)})
        e == Min({norm_index(end, len), len - 1})
    IN  IF len = 0 \/ s > e \/ s >= len THEN <<>> ELSE <<s, e>>

\* A range in bytes or in bits, as bit numbers.
BitWindow(c, len) ==
    LET range == clamp(c.start, c.stop, IF c.unit = "BIT" THEN len * ByteBits ELSE len)
    IN  IF c.unit = "BIT" \/ range = <<>> THEN range
        ELSE <<range[1] * ByteBits, range[2] * ByteBits + ByteBits - 1>>

\* Without a range the unit is NONE and all bits count.
bitcount(db, c, ts) ==
    Reading(db, c.key, ts[1], "string", Integer(0), LAMBDA s :
        LET window == IF c.unit = "NONE" THEN <<0, Len(s) * ByteBits - 1>>
                      ELSE BitWindow(c, Len(s))
        IN  Integer(IF window = <<>> THEN 0
                    ELSE Cardinality({b \in window[1] .. window[2] : get_bit(s, b) = 1})))

\* c.stop is an option: without an end the zeros past the string count too.
bitpos(db, c, ts) ==
    Reading(db, c.key, ts[1], "string", Integer(IF c.bit = 0 THEN 0 ELSE -1), LAMBDA s :
        LET total == Len(s) * ByteBits
            ranged == [start |-> c.start, stop |-> IF c.stop = <<>> THEN -1 ELSE c.stop[1],
                       unit |-> c.unit]
            window == IF c.unit = "NONE" THEN <<0, Max({0, total - 1})>>
                      ELSE BitWindow(ranged, Len(s))
            hits == {b \in window[1] .. Min({window[2], Max({0, total - 1})}) :
                        get_bit(s, b) = c.bit}
        IN  Integer(IF window = <<>> THEN -1
                    ELSE IF hits # {} THEN Min(hits)
                    ELSE IF c.bit = 0 /\ c.stop = <<>> THEN total ELSE -1))

\* The sources are padded with zeros to the longest of them.
bitop(db, c, ts) ==
    LET found == Gathered(db, c.keys, ts, "string", Found(<<>>))
        sources == found.reply[2]
        len == Max({Len(sources[i]) : i \in DOMAIN sources})
        bits(b) == {get_bit(sources[i], b) : i \in DOMAIN sources}
        odd(b) == Cardinality({i \in DOMAIN sources : get_bit(sources[i], b) = 1}) % 2
        bit(b) == CASE c.kind = "AND" -> Min(bits(b))
                    [] c.kind = "OR"  -> Max(bits(b))
                    [] c.kind = "XOR" -> odd(b)
                    [] c.kind = "NOT" -> 1 - get_bit(sources[1], b)
        byte(i) == ByteOf(LAMBDA b : bit((i - 1) * ByteBits + b))
        result == [i \in 1 .. len |-> byte(i)]
    IN  IF c.kind = "NOT" /\ Len(c.keys) # 1 THEN Answer(db, Err("single source"))
        ELSE IF found.reply = WrongType THEN found
        ELSE Answer(IF len = 0 THEN remove(found.db, c.dst) ELSE set(found.db, c.dst, Str(result)),
                    Integer(len))

StringHandlers == {"GET", "SETNX", "SETEX", "GETSET", "GETDEL", "GETEX", "APPEND",
                   "STRLEN", "INCR", "INCRBYFLOAT", "MGET", "MSET", "MSETNX",
                   "GETRANGE", "SETRANGE", "SETBIT", "GETBIT", "BITCOUNT", "BITPOS",
                   "BITOP"}

string_command(db, c, ts) ==
    CASE c.op = "GET"         -> {get(db, c, ts)}
      [] c.op = "SETNX"       -> {setnx(db, c, ts)}
      [] c.op = "SETEX"       -> {setex(db, c, ts)}
      [] c.op = "GETSET"      -> {getset(db, c, ts)}
      [] c.op = "GETDEL"      -> {getdel(db, c, ts)}
      [] c.op = "GETEX"       -> {getex(db, c, ts)}
      [] c.op = "APPEND"      -> {append(db, c, ts)}
      [] c.op = "STRLEN"      -> {strlen(db, c, ts)}
      [] c.op = "INCR"        -> {do_incr(db, c, ts)}
      [] c.op = "INCRBYFLOAT" -> {incrbyfloat(db, c, ts)}
      [] c.op = "MGET"        -> {mget(db, c, ts)}
      [] c.op = "MSET"        -> {mset(db, c, ts)}
      [] c.op = "MSETNX"      -> {msetnx(db, c, ts)}
      [] c.op = "GETRANGE"    -> {getrange(db, c, ts)}
      [] c.op = "SETRANGE"    -> {setrange(db, c, ts)}
      [] c.op = "SETBIT"      -> {setbit(db, c, ts)}
      [] c.op = "GETBIT"      -> {getbit(db, c, ts)}
      [] c.op = "BITCOUNT"    -> {bitcount(db, c, ts)}
      [] c.op = "BITPOS"      -> {bitpos(db, c, ts)}
      [] c.op = "BITOP"       -> {bitop(db, c, ts)}

=============================================================================
