----------------------------- MODULE SortedSets -----------------------------
(***************************************************************************)
(* The sorted set commands of src/src/commands/zset.rs over the ZSet of    *)
(* db.rs: a map from members to scores and an index of <<score, member>>   *)
(* pairs that two statements keep in step.  Members are numbers, ordered   *)
(* as the bytes they stand for.                                            *)
(***************************************************************************)
EXTENDS Values

-----------------------------------------------------------------------------
(* ZSet *)

\* Fault: the member's old place in the index stays.
insert_leaving_index(z, m, s) ==
    [scores |-> Merged(z.scores, [x \in {m} |-> s]), sorted |-> z.sorted \cup {<<s, m>>}]

insert(z, m, s) ==
    [scores |-> Merged(z.scores, [x \in {m} |-> s]),
     sorted |-> {e \in z.sorted : ~(m \in DOMAIN z.scores /\ e = <<z.scores[m], m>>)}
                \cup {<<s, m>>}]

\* ZSet::remove of every member of a set.
Dropped(z, ms) ==
    [scores |-> Without(z.scores, ms),
     sorted |-> z.sorted \ {<<z.scores[m], m>> : m \in ms \cap DOMAIN z.scores}]

Precedes(a, b) == a[1] < b[1] \/ (a[1] = b[1] /\ a[2] < b[2])

iter_asc(z) == SetToSortSeq(z.sorted, Precedes)

\* How many precede the member's own entry, counted over the index.
rank(z, m) == LET e == <<z.scores[m], m>>
              IN  Cardinality({x \in z.sorted : Precedes(x, e)})

-----------------------------------------------------------------------------
(* Ranges *)

\* A bound is a value and whether the value itself is out.  The - and + of a
\* lexicographic range are values below and above every member.
AtLeast(bound, x) == IF bound.excl THEN x > bound.value ELSE x >= bound.value

AtMost(bound, x) == IF bound.excl THEN x < bound.value ELSE x <= bound.value

Score == 1
Member == 2

Within(items, min, max, part) ==
    SelectSeq(items, LAMBDA e : AtLeast(min, e[part]) /\ AtMost(max, e[part]))

emit(items, withscores) ==
    Array(IF withscores THEN items ELSE [i \in DOMAIN items |-> items[i][Member]])

Directed(items, rev) == IF rev THEN Reverse(items) ELSE items

\* Fault: the last position is one too far.
clamp_loose(start, stop, len) ==
    <<Max({0, norm_index(start, len)}), Min({norm_index(stop, len) + 1, len - 1})>>

clamp_range(start, stop, len) ==
    <<Max({0, norm_index(start, len)}), Min({norm_index(stop, len), len - 1})>>

range_by_index(items, start, stop, rev, withscores) ==
    LET range == clamp_range(start, stop, Len(items))
    IN  IF range[1] > range[2] \/ range[1] >= Len(items) THEN Array(<<>>)
        ELSE emit(Slice(Directed(items, rev), range[1], range[2]), withscores)

\* An absent limit is <<>>, a present one <<offset, count>>.
apply_limit(items, limit) ==
    IF limit = <<>> THEN items
    ELSE LET rest == SubSeq(items, Max({0, limit[1]}) + 1, Len(items))
         IN  IF limit[2] < 0 THEN rest ELSE Taken(rest, limit[2])

range_by_score(items, lo, hi, rev, limit, withscores) ==
    emit(apply_limit(Directed(Within(items, lo, hi, Score), rev), limit), withscores)

\* Only this one turns its bounds round for a reversed range.
range_by_lex(items, lo, hi, rev, limit) ==
    LET min == IF rev THEN hi ELSE lo
        max == IF rev THEN lo ELSE hi
    IN  emit(apply_limit(Directed(Within(items, min, max, Member), rev), limit), FALSE)

-----------------------------------------------------------------------------
(* Commands that add *)

\* One pair of ZADD: what is left of the set, the counts and the INCR result.
ZAddPair(acc, pair, opts) ==
    LET m == pair[2]
        exists == m \in DOMAIN acc.z.scores
        current == IF exists THEN acc.z.scores[m] ELSE 0
        incr == "INCR" \in opts
        score == IF incr THEN FloatSum(current, pair[1]) ELSE pair[1]
        skip == \/ "NX" \in opts /\ exists
                \/ "XX" \in opts /\ ~exists
        kept == exists /\ (\/ "GT" \in opts /\ score <= current
                           \/ "LT" \in opts /\ score >= current)
    IN  IF acc.nan \/ skip THEN acc
        ELSE IF incr /\ SumIsNan(current, pair[1]) THEN [acc EXCEPT !.nan = TRUE]
        ELSE IF kept THEN acc
        ELSE [acc EXCEPT !.z = insert(@, m, score),
                         !.added = IF exists THEN @ ELSE @ + 1,
                         !.changed = IF exists /\ score = current THEN @ ELSE @ + 1,
                         !.result = IF incr THEN Bulk(score) ELSE @]

zadd(db, c, ts) ==
    LET opts == c.opts
        clash == \/ "NX" \in opts /\ opts \cap {"XX", "GT", "LT"} # {}
                 \/ {"GT", "LT"} \subseteq opts
        start(z) == [z |-> z, added |-> 0, changed |-> 0, result |-> Null, nan |-> FALSE]
    IN  IF clash \/ ("INCR" \in opts /\ Len(c.pairs) # 1) THEN Answer(db, Err("syntax"))
        ELSE Culling(db, c.key, ts[1], "zset", LAMBDA z :
            LET end == FoldLeft(LAMBDA acc, pair : ZAddPair(acc, pair, opts), start(z), c.pairs)
            IN  Change(end.z, IF end.nan THEN Err("nan")
                              ELSE IF "INCR" \in opts THEN end.result
                              ELSE Integer(IF "CH" \in opts THEN end.changed ELSE end.added)))

\* A refusal cleans up after the creation; a success leaves the member there.
zincrby(db, c, ts) ==
    Culling(db, c.key, ts[1], "zset", LAMBDA z :
        LET current == IF c.member \in DOMAIN z.scores THEN z.scores[c.member] ELSE 0
            new == FloatSum(current, c.incr)
        IN  IF SumIsNan(current, c.incr) THEN Change(z, Err("nan"))
            ELSE Change(insert(z, c.member, new), Bulk(new)))

-----------------------------------------------------------------------------
(* Commands that read *)

ScoreOf(z, m) == IF m \in DOMAIN z.scores THEN Bulk(z.scores[m]) ELSE Null

\* ZMSCORE; ZSCORE asks for one.
zmscore(db, c, ts) ==
    LET scores(z) == Array([i \in DOMAIN c.asked |-> ScoreOf(z, c.asked[i])])
    IN  Reading(db, c.key, ts[1], "zset", scores(Fresh.zset), scores)

zcard(db, c, ts) ==
    Reading(db, c.key, ts[1], "zset", Integer(0), LAMBDA z :
        Integer(Cardinality(DOMAIN z.scores)))

\* ZRANK and ZREVRANK.
zrank(db, c, ts) ==
    Reading(db, c.key, ts[1], "zset", Null, LAMBDA z :
        IF c.member \notin DOMAIN z.scores THEN Null
        ELSE Integer(IF c.rev THEN Cardinality(DOMAIN z.scores) - 1 - rank(z, c.member)
                     ELSE rank(z, c.member)))

zcount(db, c, ts) ==
    Reading(db, c.key, ts[1], "zset", Integer(0), LAMBDA z :
        Integer(Len(Within(iter_asc(z), c.min, c.max, Score))))

zlexcount(db, c, ts) ==
    Reading(db, c.key, ts[1], "zset", Integer(0), LAMBDA z :
        Integer(Len(Within(iter_asc(z), c.min, c.max, Member))))

\* ZRANGE and ZREVRANGE; BYSCORE with REV keeps its bounds as they came.
zrange(db, c, ts) ==
    IF \/ c.limit # <<>> /\ c.by = "index"
       \/ c.withscores /\ c.by = "lex"
    THEN Answer(db, Err("syntax"))
    ELSE Reading(db, c.key, ts[1], "zset", Array(<<>>), LAMBDA z :
        LET items == iter_asc(z)
        IN  CASE c.by = "score" -> range_by_score(items, c.lo, c.hi, c.rev, c.limit, c.withscores)
              [] c.by = "lex"   -> range_by_lex(items, c.lo, c.hi, c.rev, c.limit)
              [] c.by = "index" -> range_by_index(items, c.start, c.stop, c.rev, c.withscores))

\* ZREVRANGEBYSCORE takes its bounds as (max, min).
zrangebyscore(db, c, ts) ==
    Reading(db, c.key, ts[1], "zset", Array(<<>>), LAMBDA z :
        range_by_score(iter_asc(z), IF c.rev THEN c.hi ELSE c.lo,
                       IF c.rev THEN c.lo ELSE c.hi, c.rev, c.limit, c.withscores))

zrangebylex(db, c, ts) ==
    Reading(db, c.key, ts[1], "zset", Array(<<>>), LAMBDA z :
        range_by_lex(iter_asc(z), c.lo, c.hi, c.rev, c.limit))

\* One page with everything, in order; the pattern stands for what it matches.
zscan(db, c, ts) ==
    Reading(db, c.key, ts[1], "zset", Array(<<>>), LAMBDA z :
        Array(SelectSeq(iter_asc(z), LAMBDA e : e[Member] \in c.pattern)))

zrandmember(db, c, ts) ==
    LET single == c.count = <<>>
        probe == typed_get(db, c.key, ts[1], "zset", Found(Fresh.zset))
        members == ToSet(iter_asc(probe.reply[2]))
    IN  IF probe.reply = WrongType THEN {probe}
        ELSE IF single /\ members = {} THEN {Answer(probe.db, Null)}
        ELSE {Answer(probe.db, IF single THEN Bulk(drawn[1][Member]) ELSE Array(drawn)) :
              drawn \in sample(members, IF single THEN 1 ELSE c.count[1])}

-----------------------------------------------------------------------------
(* Commands that remove *)

\* ZREM creates the key it is about to remove from.
zrem(db, c, ts) ==
    Culling(db, c.key, ts[1], "zset", LAMBDA z :
        Change(Dropped(z, c.members), Integer(Cardinality(c.members \cap DOMAIN z.scores))))

\* The victims were chosen at an earlier reading; the set they are taken from
\* is created again if it has expired since.
Evicted(db, k, t, victims, reply) ==
    Culling(db, k, t, "zset", LAMBDA z :
        Change(Dropped(z, {victims[i][Member] : i \in DOMAIN victims}), reply))

\* ZPOPMIN and ZPOPMAX.
zpop(db, c, ts) ==
    LET single == c.count = <<>>
        n == IF single THEN 1 ELSE c.count[1]
        probe == typed_get(db, c.key, ts[1], "zset", Array(<<>>))
        popped == Taken(Directed(iter_asc(probe.reply[2]), ~c.min), n)
    IN  IF n < 0 THEN Answer(db, Err("range"))
        ELSE IF probe.reply[1] # "found" THEN probe
        ELSE Evicted(probe.db, c.key, ts[2], popped, Array(popped))

zremrangebyrank(db, c, ts) ==
    LET probe == typed_get(db, c.key, ts[1], "zset", Integer(0))
        items == iter_asc(probe.reply[2])
        range == clamp_range(c.start, c.stop, Len(items))
        victims == Slice(items, range[1], range[2])
    IN  IF probe.reply[1] # "found" THEN probe
        ELSE IF range[1] > range[2] THEN Answer(probe.db, Integer(0))
        ELSE Evicted(probe.db, c.key, ts[2], victims, Integer(Len(victims)))

zremrangebyscore(db, c, ts) ==
    LET probe == typed_get(db, c.key, ts[1], "zset", Integer(0))
        victims == Within(iter_asc(probe.reply[2]), c.min, c.max, Score)
    IN  IF probe.reply[1] # "found" THEN probe
        ELSE Evicted(probe.db, c.key, ts[2], victims, Integer(Len(victims)))

ZsetHandlers == {"ZADD", "ZINCRBY", "ZMSCORE", "ZCARD", "ZRANK", "ZCOUNT",
                 "ZLEXCOUNT", "ZRANGE", "ZRANGEBYSCORE", "ZRANGEBYLEX", "ZSCAN",
                 "ZRANDMEMBER", "ZREM", "ZPOP", "ZREMRANGEBYRANK", "ZREMRANGEBYSCORE"}

zset_command(db, c, ts) ==
    CASE c.op = "ZADD"             -> {zadd(db, c, ts)}
      [] c.op = "ZINCRBY"          -> {zincrby(db, c, ts)}
      [] c.op = "ZMSCORE"          -> {zmscore(db, c, ts)}
      [] c.op = "ZCARD"            -> {zcard(db, c, ts)}
      [] c.op = "ZRANK"            -> {zrank(db, c, ts)}
      [] c.op = "ZCOUNT"           -> {zcount(db, c, ts)}
      [] c.op = "ZLEXCOUNT"        -> {zlexcount(db, c, ts)}
      [] c.op = "ZRANGE"           -> {zrange(db, c, ts)}
      [] c.op = "ZRANGEBYSCORE"    -> {zrangebyscore(db, c, ts)}
      [] c.op = "ZRANGEBYLEX"      -> {zrangebylex(db, c, ts)}
      [] c.op = "ZSCAN"            -> {zscan(db, c, ts)}
      [] c.op = "ZRANDMEMBER"      -> zrandmember(db, c, ts)
      [] c.op = "ZREM"             -> {zrem(db, c, ts)}
      [] c.op = "ZPOP"             -> {zpop(db, c, ts)}
      [] c.op = "ZREMRANGEBYRANK"  -> {zremrangebyrank(db, c, ts)}
      [] c.op = "ZREMRANGEBYSCORE" -> {zremrangebyscore(db, c, ts)}

=============================================================================
