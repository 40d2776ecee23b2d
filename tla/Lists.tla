------------------------------- MODULE Lists --------------------------------
(* The list commands of src/src/commands/list.rs. *)
EXTENDS Values

Pushed(l, vals, left) == IF left THEN Reverse(vals) \o l ELSE l \o vals

\* LPUSH, RPUSH and the X variants, which look at the key once more first.
push(db, c, ts) ==
    LET add(d, t) == Creating(d, c.key, t, "list", LAMBDA l :
                        LET grown == Pushed(l, c.vals, c.left)
                        IN  Change(grown, Integer(Len(grown))))
        probe == typed_get(db, c.key, ts[1], "list", Integer(0))
    IN  IF ~c.xx THEN add(db, ts[1])
        ELSE IF probe.reply[1] # "found" THEN probe
        ELSE add(probe.db, ts[2])

pop(db, c, ts) ==
    LET single == c.count = <<>>
        n == IF single THEN 1 ELSE c.count[1]
        absent == IF single THEN Null ELSE NullArray
    IN  IF n < 0 THEN Answer(db, Err("range"))
        ELSE Shrinking(db, c.key, ts[1], "list", absent, LAMBDA l :
            LET take == Min({n, Len(l)})
                rest == IF c.left THEN SubSeq(l, take + 1, Len(l))
                        ELSE SubSeq(l, 1, Len(l) - take)
                out == IF c.left THEN SubSeq(l, 1, take)
                       ELSE Reverse(SubSeq(l, Len(l) - take + 1, Len(l)))
            IN  Change(rest, IF ~single THEN Array(out)
                             ELSE IF out = <<>> THEN Null ELSE Bulk(out[1])))

llen(db, c, ts) ==
    Reading(db, c.key, ts[1], "list", Integer(0), LAMBDA l : Integer(Len(l)))

\* The bounds LRANGE and LTRIM work with.
list_range(start, stop, len) ==
    <<Max({0, norm_index(start, len)}), Min({norm_index(stop, len), len - 1})>>

NothingIn(range, len) == range[1] > range[2] \/ range[1] >= len

lrange(db, c, ts) ==
    Reading(db, c.key, ts[1], "list", Array(<<>>), LAMBDA l :
        LET range == list_range(c.start, c.stop, Len(l))
        IN  Array(IF NothingIn(range, Len(l)) THEN <<>>
                  ELSE Slice(l, range[1], range[2])))

lindex(db, c, ts) ==
    Reading(db, c.key, ts[1], "list", Null, LAMBDA l :
        LET i == norm_index(c.index, Len(l))
        IN  IF i \in 0 .. Len(l) - 1 THEN Bulk(l[i + 1]) ELSE Null)

lset(db, c, ts) ==
    Updating(db, c.key, ts[1], "list", Err("no such key"), LAMBDA l :
        LET i == norm_index(c.index, Len(l))
        IN  IF i \notin 0 .. Len(l) - 1 THEN Change(l, Err("index"))
            ELSE Change([j \in DOMAIN l |-> IF j = i + 1 THEN c.val ELSE l[j]], Ok))

\* Front to back for a count that is not negative, else back to front.  The
\* limit of count 0 is usize::MAX, and as an i64 that is -1.
lrem(db, c, ts) ==
    LET limit == IF c.count = 0 THEN -1 ELSE Abs(c.count)
    IN  Shrinking(db, c.key, ts[1], "list", Integer(0), LAMBDA l :
            LET matches == {i \in DOMAIN l : l[i] = c.val}
                passed(i) == {j \in matches : IF c.count >= 0 THEN j <= i ELSE j >= i}
                victims == {i \in matches : Cardinality(passed(i)) <= limit}
            IN  Change(Picked(l, DOMAIN l \ victims), Integer(Cardinality(victims))))

ltrim(db, c, ts) ==
    Shrinking(db, c.key, ts[1], "list", Ok, LAMBDA l :
        LET range == list_range(c.start, c.stop, Len(l))
        IN  Change(IF NothingIn(range, Len(l)) THEN <<>>
                   ELSE Slice(l, range[1], range[2]), Ok))

linsert(db, c, ts) ==
    Updating(db, c.key, ts[1], "list", Integer(0), LAMBDA l :
        LET at == SelectInSeq(l, LAMBDA x : x = c.pivot)
            grown == InsertAt(l, IF c.before THEN at ELSE at + 1, c.val)
        IN  IF at = 0 THEN Change(l, Integer(-1))
            ELSE Change(grown, Integer(Len(grown))))

\* RANK picks the direction and how many matches to skip, MAXLEN bounds the
\* comparisons, COUNT the answers: 0 asks for all of them.
lpos(db, c, ts) ==
    LET all == c.count # <<>>
    IN  IF \/ c.rank = 0 \/ c.maxlen < 0
           \/ all /\ c.count[1] < 0
        THEN Answer(db, Err("range"))
        ELSE Reading(db, c.key, ts[1], "list", IF all THEN Array(<<>>) ELSE Null, LAMBDA l :
            LET len == Len(l)
                order == [i \in 1 .. len |-> IF c.rank > 0 THEN i ELSE len + 1 - i]
                compared == IF c.maxlen = 0 THEN order ELSE Taken(order, c.maxlen)
                matches == SelectSeq(compared, LAMBDA i : l[i] = c.val)
                found == [i \in 1 .. Max({0, Len(matches) - (Abs(c.rank) - 1)}) |->
                             matches[i + Abs(c.rank) - 1] - 1]
            IN  IF all THEN Array(IF c.count[1] = 0 THEN found ELSE Taken(found, c.count[1]))
                ELSE IF found = <<>> THEN Null ELSE Integer(found[1]))

\* RPOPLPUSH and LMOVE.  The destination is type-checked first, the source
\* deleted when it is empty, and only then is the destination created.
move_elem(db, c, ts) ==
    LET probe == typed_get(db, c.dst, ts[1], "list", Null)
        popped == pop(probe.db, [key |-> c.key, left |-> c.from_left, count |-> <<>>],
                      <<ts[2]>>)
    IN  IF probe.reply = WrongType THEN probe
        ELSE IF popped.reply \in {Null, WrongType} THEN popped
        ELSE Creating(popped.db, c.dst, ts[3], "list", LAMBDA l :
                Change(Pushed(l, <<popped.reply[2]>>, c.to_left), popped.reply))

ListHandlers == {"PUSH", "POP", "LLEN", "LRANGE", "LINDEX", "LSET", "LREM", "LTRIM",
                 "LINSERT", "LPOS", "LMOVE"}

list_command(db, c, ts) ==
    CASE c.op = "PUSH"    -> push(db, c, ts)
      [] c.op = "POP"     -> pop(db, c, ts)
      [] c.op = "LLEN"    -> llen(db, c, ts)
      [] c.op = "LRANGE"  -> lrange(db, c, ts)
      [] c.op = "LINDEX"  -> lindex(db, c, ts)
      [] c.op = "LSET"    -> lset(db, c, ts)
      [] c.op = "LREM"    -> lrem(db, c, ts)
      [] c.op = "LTRIM"   -> ltrim(db, c, ts)
      [] c.op = "LINSERT" -> linsert(db, c, ts)
      [] c.op = "LPOS"    -> lpos(db, c, ts)
      [] c.op = "LMOVE"   -> move_elem(db, c, ts)

=============================================================================
