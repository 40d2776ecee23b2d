-------------------------------- MODULE Rdb ---------------------------------
(***************************************************************************)
(* The dump format of src/src/rdb: what meebis writes, what Redis writes,  *)
(* and the reader that has to take both.  An image is a sequence of items, *)
(* one per opcode with its operands; a string operand is the string, and a *)
(* packed container the sequence of its elements, each stored as an        *)
(* integer or as bytes.  How a length and an integer are spelled in bytes, *)
(* and LZF, are left out.                                                  *)
(***************************************************************************)
EXTENDS SortedSets, Streams

-----------------------------------------------------------------------------
(* Elements of packed containers *)

Int64(n) == <<"int", n>>
Bytes(s) == <<"str", s>>

IsInt64(e) == e[1] = "int"

\* Integers are rendered as decimals again.
into_bytes(e) == IF IsInt64(e) THEN Text(e[2]) ELSE e[2]

\* Redis stores text that is the decimal of an integer as the integer.
Packed(s) == IF IsInt(s) THEN IF Text(Numeral(s)) = s THEN Int64(Numeral(s)) ELSE Bytes(s)
             ELSE Bytes(s)

strings(elements) == [i \in DOMAIN elements |-> into_bytes(elements[i])]

\* A map from an even sequence; a later pair replaces an earlier one.
FromPairs(flat) ==
    FoldLeft(LAMBDA h, i : Merged(h, [f \in {flat[2 * i - 1]} |-> flat[2 * i]]),
             Fresh.hash, [i \in 1 .. Len(flat) \div 2 |-> i])

\* The pairs of a function, one after the other.
Flat(h) == FlattenSeq([i \in 1 .. Cardinality(DOMAIN h) |->
                          LET f == SetToSeq(DOMAIN h)[i] IN <<f, h[f]>>])

-----------------------------------------------------------------------------
(* Streams *)

FLAG_NONE == 0
FLAG_DELETED == 1
FLAG_SAMEFIELDS == 2

Names(fields) == [i \in DOMAIN fields |-> fields[i][1]]

Valued(fields) == [i \in DOMAIN fields |-> fields[i][2]]

\* A delta is added to the milliseconds and to the sequence number of the
\* master's id, each of them modulo its width.
Shifted(master, ms_diff, seq_diff) ==
    ((Millis(master) + ms_diff) % (MaxMs + 1)) * Seqs + ((master + seq_diff) % Seqs)

InsertLive(entries, flags, id, fields) ==
    IF flags \in {FLAG_DELETED, FLAG_DELETED + FLAG_SAMEFIELDS} THEN entries
    ELSE Merged(entries, [x \in {id} |-> fields])

\* One entry of a node from element i on: flags, two deltas, the fields or,
\* with SAMEFIELDS, only the values of the master's fields, and a count.
read_entry(acc, elements, master, names) ==
    LET i == acc.i
        flags == elements[i][2]
        id == Shifted(master, elements[i + 1][2], elements[i + 2][2])
        same == flags \in {FLAG_SAMEFIELDS, FLAG_SAMEFIELDS + FLAG_DELETED}
        n == IF same THEN Len(names) ELSE elements[i + 3][2]
        text(j) == into_bytes(elements[j])
        fields == [f \in 1 .. n |-> IF same THEN <<names[f], text(i + 2 + f)>>
                                    ELSE <<text(i + 2 + 2 * f), text(i + 3 + 2 * f)>>]
    IN  [i |-> i + 4 + IF same THEN n ELSE 2 * n + 1,
         entries |-> InsertLive(acc.entries, flags, id, fields)]

\* The master entry gives how many live and deleted entries follow and the
\* names they share.
read_node(entries, node) ==
    LET e == node.elements
        n == e[3][2]
        names == [f \in 1 .. n |-> into_bytes(e[3 + f])]
    IN  FoldLeft(LAMBDA acc, j : read_entry(acc, e, node.key, names),
                 [i |-> 5 + n, entries |-> entries],
                 [j \in 1 .. e[1][2] + e[2][2] |-> j]).entries

\* Consumer groups are parsed and dropped.
read_stream(code, body) ==
    [entries |-> FoldLeft(read_node, Fresh.stream.entries, body.nodes),
     last_id |-> body.last_id,
     max_deleted_id |-> IF code = "STREAM_LISTPACKS" THEN MinStreamId
                        ELSE body.max_deleted_id]

\* One node for each entry, which is its own master.
write_stream(s) ==
    LET ids == OldestFirst(DOMAIN s.entries)
        node(id) == LET fields == s.entries[id]
                    IN  [key |-> id,
                         elements |-> <<Int64(1), Int64(0), Int64(Len(fields))>>
                                      \o [f \in DOMAIN fields |-> Bytes(fields[f][1])]
                                      \o <<Int64(0), Int64(FLAG_SAMEFIELDS), Int64(0), Int64(0)>>
                                      \o [f \in DOMAIN fields |-> Bytes(fields[f][2])]
                                      \o <<Int64(Len(fields) + 3)>>]
    IN  [nodes |-> [i \in DOMAIN ids |-> node(ids[i])], last_id |-> s.last_id,
         max_deleted_id |-> s.max_deleted_id]

-----------------------------------------------------------------------------
(* Writing *)

\* The oldest spelling of each type that Redis still loads.
put_value(k, v) ==
    LET item(code, body) == [op |-> "VALUE", code |-> code, key |-> k, body |-> body]
    IN  CASE v.type = "string" -> item("STRING", v.data)
          [] v.type = "list"   -> item("LIST", v.data)
          [] v.type = "set"    -> item("SET", SetToSeq(v.data))
          [] v.type = "hash"   -> item("HASH", Flat(v.data))
          [] v.type = "zset"   -> item("ZSET_2", iter_asc(v.data))
          [] v.type = "stream" -> item("STREAM_LISTPACKS_2", write_stream(v.data))

Op(op) == <<[op |-> op]>>

\* Empty databases are skipped and so are keys that have expired; the order
\* of the keys is that of a hash map.
Sections(ks, t, Write(_, _)) ==
    LET live(d) == SetToSeq({k \in Keys : LiveEntry(ks[d][k], t)})
        item(k, e) == (IF e.expire_at = NoTtl THEN <<>>
                       ELSE <<[op |-> "EXPIRETIME_MS", at |-> e.expire_at]>>)
                      \o Write(k, e.value)
        section(d) == IF live(d) = <<>> THEN <<>>
                      ELSE <<[op |-> "SELECTDB", n |-> d]>> \o Op("RESIZEDB")
                           \o FlattenSeq([i \in DOMAIN live(d) |->
                                              item(live(d)[i], ks[d][live(d)[i]])])
    IN  FlattenSeq([d \in 1 .. Databases |-> section(d - 1)])

to_bytes(ks, t) ==
    LET items == Op("AUX") \o Sections(ks, t, LAMBDA k, v : <<put_value(k, v)>>) \o Op("EOF")
    IN  [version |-> 11, items |-> items, checksum |-> items]

-----------------------------------------------------------------------------
(* Reading *)

MAX_RDB_VERSION == 11

NoChecksum == <<>>

\* A stored checksum of zero means the writer had them turned off.
verify_checksum(image) ==
    image.version < 5 \/ image.checksum \in {NoChecksum, image.items}

PackedPairs == {"HASH_ZIPLIST", "HASH_LISTPACK", "ZSET_ZIPLIST", "ZSET_LISTPACK"}

\* A quicklist node is one plain element or a packed container of them.
NodeItems(node) == IF node.container = "PLAIN" THEN <<node.items>> ELSE strings(node.items)

\* The value, or <<>> where the reader gives up.  A packed sorted set holds the
\* text of its scores.
read_value(code, body) ==
    LET zset(pairs) == FoldLeft(LAMBDA z, p : insert(z, p[2], p[1]), Fresh.zset, pairs)
        flat == strings(body)
    IN  IF code \in PackedPairs /\ Len(body) % 2 # 0 THEN <<>>
        ELSE CASE code = "STRING" -> <<Held("string", body)>>
               [] code = "LIST" -> <<Held("list", body)>>
               [] code = "LIST_ZIPLIST" -> <<Held("list", flat)>>
               [] code \in {"LIST_QUICKLIST", "LIST_QUICKLIST_2"} ->
                     <<Held("list", FlattenSeq([i \in DOMAIN body |-> NodeItems(body[i])]))>>
               [] code = "SET" -> <<Held("set", ToSet(body))>>
               [] code \in {"SET_INTSET", "SET_LISTPACK"} -> <<Held("set", ToSet(flat))>>
               [] code = "HASH" -> <<Held("hash", FromPairs(body))>>
               [] code \in {"HASH_ZIPLIST", "HASH_LISTPACK"} -> <<Held("hash", FromPairs(flat))>>
               [] code \in {"ZSET", "ZSET_2"} -> <<Held("zset", zset(body))>>
               [] code \in {"ZSET_ZIPLIST", "ZSET_LISTPACK"} ->
                     <<Held("zset", zset([i \in 1 .. Len(body) \div 2 |->
                                             <<body[2 * i][2], body[2 * i - 1][2]>>]))>>
               [] code \in {"STREAM_LISTPACKS", "STREAM_LISTPACKS_2", "STREAM_LISTPACKS_3"} ->
                     <<Held("stream", read_stream(code, body))>>
               [] OTHER -> <<>>

\* Any other opcode is the type of a value: it is put unless it has expired by t.
TakeValue(acc, item, t) ==
    LET v == read_value(item.code, item.body)
    IN  IF v = <<>> THEN [acc EXCEPT !.status = "failed"]
        ELSE IF acc.pending # NoTtl /\ acc.pending <= t THEN [acc EXCEPT !.pending = NoTtl]
        ELSE [acc EXCEPT !.ks[acc.db] = put(@, item.key, v[1], acc.pending), !.pending = NoTtl]

\* Fault: any opcode but a key ends the scope of an expiry.
read_item_narrow(acc, item, clock) ==
    CASE acc.status # "reading" -> acc
      [] item.op = "EOF" -> [acc EXCEPT !.status = "done"]
      [] item.op = "EXPIRETIME_MS" -> [acc EXCEPT !.pending = item.at]
      [] item.op = "SELECTDB" -> [acc EXCEPT !.db = item.n, !.pending = NoTtl]
      [] item.op = "VALUE" -> TakeValue(acc, item, clock[item.key])
      [] OTHER -> [acc EXCEPT !.pending = NoTtl]

\* One turn of the reader's loop.
read_item(acc, item, clock) ==
    CASE acc.status # "reading" -> acc
      [] item.op = "EOF" -> [acc EXCEPT !.status = "done"]
      [] item.op = "SELECTDB" -> IF is_valid(item.n)
                                 THEN [acc EXCEPT !.db = item.n, !.pending = NoTtl]
                                 ELSE [acc EXCEPT !.status = "failed"]
      [] item.op \in {"EXPIRETIME_MS", "EXPIRETIME"} -> [acc EXCEPT !.pending = item.at]
      [] item.op = "MODULE_AUX" -> [acc EXCEPT !.status = "failed"]
      [] item.op = "VALUE" -> TakeValue(acc, item, clock[item.key])
      [] item.op \in {"AUX", "RESIZEDB", "IDLE", "FREQ", "FUNCTION2", "SLOT_INFO"} -> acc

\* The keyspace an image gives, or <<>> for an error.  An image that ends
\* without EOF was cut off.  now_ms() is read for each key: clock says what it
\* shows then.
from_bytes(image, clock) ==
    LET end == FoldLeft(LAMBDA acc, item : read_item(acc, item, clock),
                        [ks |-> EmptyKeyspace, db |-> 0, pending |-> NoTtl,
                         status |-> "reading"], image.items)
    IN  IF image.version > MAX_RDB_VERSION \/ ~verify_checksum(image) THEN <<>>
        ELSE IF end.status # "done" THEN <<>> ELSE <<end.ks>>

-----------------------------------------------------------------------------
(* What Redis writes *)

\* All entries of a stream in one node: the first is the master, and the ids
\* are differences from it.  The id in between that was deleted, if it is the
\* newest deleted one, is still there as a tombstone.
redis_node(s) ==
    LET gone == {s.max_deleted_id} \ (DOMAIN s.entries \cup {MinStreamId})
        ids == OldestFirst(DOMAIN s.entries \cup gone)
        master == ids[1]
        fields(id) == IF id \in gone THEN <<>> ELSE s.entries[id]
        shared == Names(fields(master))
        entry(id) ==
            LET same == Names(fields(id)) = shared
                flags == (IF same THEN FLAG_SAMEFIELDS ELSE FLAG_NONE)
                         + (IF id \in gone THEN FLAG_DELETED ELSE FLAG_NONE)
                body == IF same THEN [f \in DOMAIN shared |-> Packed(Valued(fields(id))[f])]
                        ELSE <<Int64(Len(fields(id)))>>
                             \o FlattenSeq([f \in DOMAIN fields(id) |->
                                    <<Packed(fields(id)[f][1]), Packed(fields(id)[f][2])>>])
            IN  <<Int64(flags), Int64(Millis(id) - Millis(master)),
                  Int64((id % Seqs) - (master % Seqs))>> \o body \o <<Int64(0)>>
    IN  [key |-> master,
         elements |-> <<Int64(Cardinality(DOMAIN s.entries)), Int64(Cardinality(gone)),
                        Int64(Len(shared))>>
                      \o [f \in DOMAIN shared |-> Packed(shared[f])] \o <<Int64(0)>>
                      \o FlattenSeq([i \in DOMAIN ids |-> entry(ids[i])])]

redis_value(k, v) ==
    LET item(code, body) == [op |-> "VALUE", code |-> code, key |-> k, body |-> body]
        packed(s) == [i \in DOMAIN s |-> Packed(s[i])]
        pairs(z) == FlattenSeq([i \in DOMAIN iter_asc(z) |->
                        <<Bytes(iter_asc(z)[i][2]), Int64(iter_asc(z)[i][1])>>])
    IN  CASE v.type = "string" -> item("STRING", v.data)
          [] v.type = "list" ->
                item("LIST_QUICKLIST_2",
                     [i \in DOMAIN v.data |->
                         IF i = 1 THEN [container |-> "PLAIN", items |-> v.data[i]]
                         ELSE [container |-> "PACKED", items |-> <<Packed(v.data[i])>>]])
          [] v.type = "set" ->
                LET elements == packed(SetToSeq(v.data))
                IN  item(IF \A i \in DOMAIN elements : IsInt64(elements[i])
                         THEN "SET_INTSET" ELSE "SET_LISTPACK", elements)
          [] v.type = "hash" -> item("HASH_LISTPACK", packed(Flat(v.data)))
          [] v.type = "zset" -> item("ZSET_LISTPACK", pairs(v.data))
          [] v.type = "stream" ->
                item("STREAM_LISTPACKS_3",
                     [nodes |-> IF DOMAIN v.data.entries = {} THEN <<>> ELSE <<redis_node(v.data)>>,
                      last_id |-> v.data.last_id, max_deleted_id |-> v.data.max_deleted_id])

\* The image Redis would write of the same keyspace: with the packed encodings
\* and, under an eviction policy, an opcode between a key and its expiry.
redis_image(ks, t, meta) ==
    [version |-> 11, checksum |-> NoChecksum,
     items |-> Op("FUNCTION2")
               \o Sections(ks, t, LAMBDA k, v : Op(meta) \o <<redis_value(k, v)>>)
               \o Op("EOF")]

=============================================================================
