-------------------------------- MODULE Sets --------------------------------
(* The set commands of src/src/commands/set.rs.  SPOP and SRANDMEMBER draw  *)
(* at random and give a set of outcomes.                                    *)
EXTENDS Values

sadd(db, c, ts) ==
    Creating(db, c.key, ts[1], "set", LAMBDA s :
        Change(s \cup c.members, Integer(Cardinality(c.members \ s))))

\* SREM, HDEL and ZREM's pattern: the key is looked at, and then again.
srem(db, c, ts) ==
    LET probe == typed_get(db, c.key, ts[1], "set", Integer(0))
    IN  IF probe.reply[1] # "found" THEN probe
        ELSE Culling(probe.db, c.key, ts[2], "set", LAMBDA s :
                Change(s \ c.members, Integer(Cardinality(c.members \cap s))))

smembers(db, c, ts) ==
    Reading(db, c.key, ts[1], "set", Unordered({}), LAMBDA s : Unordered(s))

\* SMISMEMBER; SISMEMBER asks about one.
smismember(db, c, ts) ==
    LET flags(s) == [i \in DOMAIN c.asked |-> IF c.asked[i] \in s THEN 1 ELSE 0]
    IN  Reading(db, c.key, ts[1], "set", Array(flags({})), LAMBDA s : Array(flags(s)))

scard(db, c, ts) ==
    Reading(db, c.key, ts[1], "set", Integer(0), LAMBDA s : Integer(Cardinality(s)))

spop(db, c, ts) ==
    LET single == c.count = <<>>
        n == IF single THEN 1 ELSE c.count[1]
        probe == typed_get(db, c.key, ts[1], "set", IF single THEN Null ELSE Unordered({}))
        reply(drawn) == IF single THEN Bulk(drawn[1]) ELSE Unordered(ToSet(drawn))
    IN  IF n < 0 THEN {Answer(db, Err("range"))}
        ELSE IF probe.reply[1] # "found" THEN {probe}
        ELSE {Culling(probe.db, c.key, ts[2], "set", LAMBDA s :
                 Change(s \ ToSet(drawn), reply(drawn))) :
              drawn \in distinct_sample(probe.reply[2], n)}

srandmember(db, c, ts) ==
    LET single == c.count = <<>>
        n == IF single THEN 1 ELSE c.count[1]
        probe == typed_get(db, c.key, ts[1], "set", IF single THEN Null ELSE Array(<<>>))
    IN  IF probe.reply[1] # "found" THEN {probe}
        ELSE {Answer(probe.db, IF single THEN Bulk(drawn[1]) ELSE Array(drawn)) :
              drawn \in sample(probe.reply[2], n)}

\* The destination's type first, then the source; the source is emptied, and
\* deleted if nothing is left, before the destination is created.
smove(db, c, ts) ==
    LET dst == typed_get(db, c.dst, ts[1], "set", Found({}))
        src == typed_get(dst.db, c.key, ts[2], "set", Found({}))
        emptied == Culling(src.db, c.key, ts[3], "set", LAMBDA s :
                       Change(s \ {c.member}, Ok))
    IN  IF dst.reply = WrongType THEN dst
        ELSE IF src.reply = WrongType THEN src
        ELSE IF c.member \notin src.reply[2] THEN Answer(src.db, Integer(0))
        ELSE Creating(emptied.db, c.dst, ts[4], "set", LAMBDA s :
                Change(s \cup {c.member}, Integer(1)))

compute_setop(sets, op) ==
    CASE op = "union" -> UNION ToSet(sets)
      [] op = "inter" -> {m \in sets[1] : \A i \in DOMAIN sets : m \in sets[i]}
      [] op = "diff"  -> {m \in sets[1] : \A i \in 2 .. Len(sets) : m \notin sets[i]}

\* SUNION, SINTER, SDIFF, and with a destination their STORE forms, which
\* replace whatever it held and its expiry.
setop(db, c, ts) ==
    LET found == Gathered(db, c.keys, ts, "set", Found({}))
        result == compute_setop(found.reply[2], c.kind)
        count == Integer(Cardinality(result))
    IN  IF found.reply = WrongType THEN found
        ELSE IF c.dst = <<>> THEN Answer(found.db, Unordered(result))
        ELSE IF result = {} THEN Answer(remove(found.db, c.dst[1]), count)
        ELSE Answer(set(found.db, c.dst[1], Held("set", result)), count)

\* LIMIT 0 means no limit.
limited(n, limit) == IF limit = 0 THEN n ELSE Min({n, limit})

\* A missing key answers at once, before the types of the later ones are seen.
sintercard(db, c, ts) ==
    LET found == Gathered(db, c.keys, ts, "set", Integer(0))
    IN  IF c.limit < 0 THEN Answer(db, Err("limit"))
        ELSE IF found.reply[1] # "found" THEN found
        ELSE Answer(found.db,
                    Integer(limited(Cardinality(compute_setop(found.reply[2], "inter")),
                                    c.limit)))

\* One page with everything; the pattern stands for the names it matches.
sscan(db, c, ts) ==
    Reading(db, c.key, ts[1], "set", Unordered({}), LAMBDA s : Unordered(s \cap c.pattern))

SetHandlers == {"SADD", "SREM", "SMEMBERS", "SMISMEMBER", "SCARD", "SPOP", "SRANDMEMBER",
                "SMOVE", "SETOP", "SINTERCARD", "SSCAN"}

set_command(db, c, ts) ==
    CASE c.op = "SADD"        -> {sadd(db, c, ts)}
      [] c.op = "SREM"        -> {srem(db, c, ts)}
      [] c.op = "SMEMBERS"    -> {smembers(db, c, ts)}
      [] c.op = "SMISMEMBER"  -> {smismember(db, c, ts)}
      [] c.op = "SCARD"       -> {scard(db, c, ts)}
      [] c.op = "SPOP"        -> spop(db, c, ts)
      [] c.op = "SRANDMEMBER" -> srandmember(db, c, ts)
      [] c.op = "SMOVE"       -> {smove(db, c, ts)}
      [] c.op = "SETOP"       -> {setop(db, c, ts)}
      [] c.op = "SINTERCARD"  -> {sintercard(db, c, ts)}
      [] c.op = "SSCAN"       -> {sscan(db, c, ts)}

=============================================================================
