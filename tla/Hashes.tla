------------------------------- MODULE Hashes -------------------------------
(* The hash commands of src/src/commands/hash.rs.  A field's value is text, *)
(* a sequence of bytes, as a string's is.                                   *)
EXTENDS Values

\* HSET and HMSET.
hset(db, c, ts) ==
    Creating(db, c.key, ts[1], "hash", LAMBDA h :
        Change(Merged(h, c.pairs),
               IF c.hmset THEN Ok
               ELSE Integer(Cardinality(DOMAIN c.pairs \ DOMAIN h))))

hsetnx(db, c, ts) ==
    Creating(db, c.key, ts[1], "hash", LAMBDA h :
        IF c.field \in DOMAIN h THEN Change(h, Integer(0))
        ELSE Change(Merged(h, [f \in {c.field} |-> c.val]), Integer(1)))

\* HMGET; HGET asks for one field.
hmget(db, c, ts) ==
    LET values(h) == [i \in DOMAIN c.asked |->
                         IF c.asked[i] \in DOMAIN h THEN Bulk(h[c.asked[i]]) ELSE Null]
    IN  Reading(db, c.key, ts[1], "hash", Array(values(Fresh.hash)),
                LAMBDA h : Array(values(h)))

hdel(db, c, ts) ==
    LET probe == typed_get(db, c.key, ts[1], "hash", Integer(0))
    IN  IF probe.reply[1] # "found" THEN probe
        ELSE Culling(probe.db, c.key, ts[2], "hash", LAMBDA h :
                Change(Without(h, c.fields), Integer(Cardinality(c.fields \cap DOMAIN h))))

\* HGETALL; HKEYS and HVALS are its two halves, HSCAN those a pattern matches.
hgetall(db, c, ts) ==
    LET entries(h) == {<<f, h[f]>> : f \in DOMAIN h \cap c.pattern}
    IN  Reading(db, c.key, ts[1], "hash", Unordered({}), LAMBDA h : Unordered(entries(h)))

hlen(db, c, ts) ==
    Reading(db, c.key, ts[1], "hash", Integer(0), LAMBDA h : Integer(Cardinality(DOMAIN h)))

hexists(db, c, ts) ==
    Reading(db, c.key, ts[1], "hash", Integer(0), LAMBDA h :
        Integer(IF c.field \in DOMAIN h THEN 1 ELSE 0))

hstrlen(db, c, ts) ==
    Reading(db, c.key, ts[1], "hash", Integer(0), LAMBDA h :
        Integer(IF c.field \in DOMAIN h THEN Len(h[c.field]) ELSE 0))

Current(h, field) == IF field \in DOMAIN h THEN h[field] ELSE <<0>>

\* The hash is there before the refusals; it is then new only if the field is
\* missing, and 0 + incr cannot be refused.
hincrby(db, c, ts) ==
    Creating(db, c.key, ts[1], "hash", LAMBDA h :
        LET cur == Current(h, c.field)
            next == checked_add(Numeral(cur), c.incr)
        IN  IF ~IsInt(cur) THEN Change(h, Err("not an integer"))
            ELSE IF next \notin I64 THEN Change(h, Err("overflow"))
            ELSE Change(Merged(h, [f \in {c.field} |-> Text(next)]), Integer(next)))

\* An infinite increment is refused after the hash was created.
hincrbyfloat(db, c, ts) ==
    Creating(db, c.key, ts[1], "hash", LAMBDA h :
        LET cur == Current(h, c.field)
            next == FloatSum(Numeral(cur), c.incr)
        IN  IF ~IsNumeral(cur) THEN Change(h, Err("not a float"))
            ELSE IF Abs(next) = Inf THEN Change(h, Err("infinity"))
            ELSE Change(Merged(h, [f \in {c.field} |-> Text(next)]), Bulk(Text(next))))

hrandfield(db, c, ts) ==
    LET single == c.count = <<>>
        probe == typed_get(db, c.key, ts[1], "hash", Found(Fresh.hash))
        fields == DOMAIN probe.reply[2]
    IN  IF probe.reply = WrongType THEN {probe}
        ELSE IF single /\ fields = {} THEN {Answer(probe.db, Null)}
        ELSE {Answer(probe.db, IF single THEN Bulk(drawn[1]) ELSE Array(drawn)) :
              drawn \in sample(fields, IF single THEN 1 ELSE c.count[1])}

HashHandlers == {"HSET", "HSETNX", "HMGET", "HDEL", "HGETALL", "HLEN", "HEXISTS", "HSTRLEN",
                 "HINCRBY", "HINCRBYFLOAT", "HRANDFIELD"}

hash_command(db, c, ts) ==
    CASE c.op = "HSET"         -> {hset(db, c, ts)}
      [] c.op = "HSETNX"       -> {hsetnx(db, c, ts)}
      [] c.op = "HMGET"        -> {hmget(db, c, ts)}
      [] c.op = "HDEL"         -> {hdel(db, c, ts)}
      [] c.op = "HGETALL"      -> {hgetall(db, c, ts)}
      [] c.op = "HLEN"         -> {hlen(db, c, ts)}
      [] c.op = "HEXISTS"      -> {hexists(db, c, ts)}
      [] c.op = "HSTRLEN"      -> {hstrlen(db, c, ts)}
      [] c.op = "HINCRBY"      -> {hincrby(db, c, ts)}
      [] c.op = "HINCRBYFLOAT" -> {hincrbyfloat(db, c, ts)}
      [] c.op = "HRANDFIELD"   -> hrandfield(db, c, ts)

=============================================================================
