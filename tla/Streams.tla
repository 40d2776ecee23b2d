------------------------------ MODULE Streams -------------------------------
(***************************************************************************)
(* The stream commands of src/src/commands/stream.rs.  An id <ms>-<seq> is *)
(* the number ms * Seqs + seq, so ids are ordered as numbers and the next  *)
(* one is one more.                                                        *)
(***************************************************************************)
EXTENDS Values

CONSTANTS
    Seqs,    \* bound: how many values seq has (2^64)
    MaxMs    \* bound: the last millisecond an id can have

ASSUME StreamsAssumption == Seqs \in Nat \ {0, 1} /\ MaxMs \in Nat

Millis(id) == id \div Seqs

\* StreamId::MIN and MAX.
MinStreamId == 0
MaxStreamId == (MaxMs + 1) * Seqs - 1

\* StreamId::next is None at the last id.
Exhausted(id) == id = MaxStreamId

NewestFirst(ids) == SetToSortSeq(ids, >)

OldestFirst(ids) == SetToSortSeq(ids, <)

\* entry_frame of each of a sequence of ids.
Entries(s, ids) == [i \in DOMAIN ids |-> <<ids[i], s.entries[ids[i]]>>]

\* The loops test COUNT after they push, so 0 lets one entry through.
Counted(ids, count) == IF count = <<>> THEN ids ELSE Taken(ids, Max({1, count[1]}))

-----------------------------------------------------------------------------
(* Adding *)

\* Fault: the auto id is taken from the clock alone.
resolve_from_clock(arg, s, now) ==
    LET id == CASE arg.kind = "auto"   -> now * Seqs
                [] arg.kind = "msauto" -> arg.ms * Seqs
                [] arg.kind = "full"   -> arg.id
    IN  IF arg.kind = "auto" \/ id > s.last_id THEN <<id>> ELSE <<>>

\* The id XADD will use, or <<>> for a refusal.  `<ms>-*` counts on within the
\* millisecond of the last id, and past its end; a bare <ms> is <ms>-0.
resolve_add_id(arg, s, now) ==
    LET bumped == IF Exhausted(s.last_id) THEN <<>> ELSE <<s.last_id + 1>>
        above(id) == IF id > s.last_id THEN <<id>> ELSE <<>>
    IN  CASE arg.kind = "auto"   -> IF now > Millis(s.last_id) THEN <<now * Seqs>> ELSE bumped
          [] arg.kind = "msauto" -> IF arg.ms = Millis(s.last_id) THEN bumped
                                    ELSE above(arg.ms * Seqs)
          [] arg.kind = "full"   -> above(arg.id)

Deleted(s, ids) ==
    [s EXCEPT !.entries = Without(@, ids),
              !.max_deleted_id = Max({@} \cup (ids \cap DOMAIN s.entries))]

\* What apply_trim removes: the oldest, at most LIMIT of them.  A negative
\* LIMIT stops MAXLEN at once; for MINID it becomes a huge usize.
TrimVictims(s, trim) ==
    LET ids == OldestFirst(DOMAIN s.entries)
        below == SelectSeq(ids, LAMBDA id : id < trim.n)
        surplus == Taken(ids, Max({0, Len(ids) - trim.n}))
        victims == IF trim.kind = "MINID" THEN below ELSE surplus
        unlimited == trim.limit = <<>> \/ (trim.kind = "MINID" /\ trim.limit[1] < 0)
    IN  ToSet(IF unlimited THEN victims ELSE Taken(victims, Max({0, trim.limit[1]})))

\* A trim is an option: <<>>, or <<spec>>.
apply_trim(s, trim) ==
    IF trim = <<>> THEN s ELSE Deleted(s, TrimVictims(s, trim[1]))

\* NOMKSTREAM looks at the key first; the stream is then created, at a later
\* reading, before the id is resolved, and stays when the id is refused.
xadd(db, c, ts) ==
    LET probe == typed_get(db, c.key, ts[1], "stream", Null)
    IN  IF c.nomkstream /\ probe.reply[1] # "found" THEN probe
        ELSE Creating(IF c.nomkstream THEN probe.db ELSE db, c.key, ts[2], "stream",
            LAMBDA s :
                LET id == resolve_add_id(c.id, s, ts[3])
                IN  IF id = <<>> \/ id = <<MinStreamId>> THEN Change(s, Err("id"))
                    ELSE Change(apply_trim([s EXCEPT
                                    !.entries = Merged(@, [i \in {id[1]} |-> c.fields]),
                                    !.last_id = id[1]], c.trim),
                                Bulk(id[1])))

-----------------------------------------------------------------------------
(* Reading and removing *)

xlen(db, c, ts) ==
    Reading(db, c.key, ts[1], "stream", Integer(0), LAMBDA s :
        Integer(Cardinality(DOMAIN s.entries)))

\* XRANGE and, with its arguments already swapped, XREVRANGE.  BTreeMap::range
\* panics on inverted bounds, unless the map has never held anything; whether
\* one that was emptied still has its root depends on how it came to be.
xrange(db, c, ts) ==
    LET probe == typed_get(db, c.key, ts[1], "stream", Array(<<>>))
        s == probe.reply[2]
        inside == {id \in DOMAIN s.entries :
                      /\ id \in c.start .. c.stop
                      /\ ~(c.start_excl /\ id = c.start)
                      /\ ~(c.stop_excl /\ id = c.stop)}
        ids == IF c.rev THEN NewestFirst(inside) ELSE OldestFirst(inside)
        answer == Answer(probe.db, Array(Entries(s, Counted(ids, c.count))))
    IN  IF probe.reply[1] # "found" THEN {probe}
        ELSE IF c.start <= c.stop \/ s.last_id = MinStreamId THEN {answer}
        ELSE IF DOMAIN s.entries = {} THEN {answer, Answer(probe.db, Panic)}
        ELSE {Answer(probe.db, Panic)}

\* The lower bound is the successor of the id given, which for the last id of
\* all is that id itself.  A $ reads as the last id when nothing blocks.
xread(db, c, ts) ==
    LET newer(s, from) == {id \in DOMAIN s.entries :
                              id >= IF Exhausted(from) THEN from ELSE from + 1}
        page(s, from) == Counted(OldestFirst(newer(s, from)), c.count)
        found == Gathered(db, c.keys, ts, "stream", Found(Fresh.stream))
        streams == found.reply[2]
        pages == SelectSeq([i \in DOMAIN c.keys |->
                               <<c.keys[i], Entries(streams[i], page(streams[i], c.from[i]))>>],
                           LAMBDA p : p[2] # <<>>)
    IN  IF found.reply = WrongType THEN found
        ELSE Answer(found.db, IF pages = <<>> THEN NullArray ELSE Array(pages))

xdel(db, c, ts) ==
    Updating(db, c.key, ts[1], "stream", Integer(0), LAMBDA s :
        Change(Deleted(s, c.ids), Integer(Cardinality(c.ids \cap DOMAIN s.entries))))

xtrim(db, c, ts) ==
    Updating(db, c.key, ts[1], "stream", Integer(0), LAMBDA s :
        Change(apply_trim(s, <<c.trim>>), Integer(Cardinality(TrimVictims(s, c.trim)))))

StreamHandlers == {"XADD", "XLEN", "XRANGE", "XREAD", "XDEL", "XTRIM"}

stream_command(db, c, ts) ==
    CASE c.op = "XADD"   -> {xadd(db, c, ts)}
      [] c.op = "XLEN"   -> {xlen(db, c, ts)}
      [] c.op = "XRANGE" -> xrange(db, c, ts)
      [] c.op = "XREAD"  -> {xread(db, c, ts)}
      [] c.op = "XDEL"   -> {xdel(db, c, ts)}
      [] c.op = "XTRIM"  -> {xtrim(db, c, ts)}

=============================================================================
