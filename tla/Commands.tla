------------------------------ MODULE Commands ------------------------------
(***************************************************************************)
(* The keyspace commands of src/src/commands: generic.rs, the SET family   *)
(* of string.rs, XADD and XDEL of stream.rs with explicit ids, FLUSHDB,    *)
(* FLUSHALL and DEBUG RELOAD.  A command is a record; execute_locked maps  *)
(* the keyspace before it to the keyspace after it.  ts[i] is what the     *)
(* i-th call of now_ms() inside the command returns.                       *)
(***************************************************************************)
EXTENDS Keyspace

Options == {"NX", "XX", "GT", "LT"}

KeyCommand == [op : {"GET", "PERSIST"}, key : Keys]

SetCommand ==
    [op : {"SET"}, key : Keys, val : Strings, opts : SUBSET {"NX", "XX", "GET"},
     keepttl : BOOLEAN, px : Nat \cup {NoTtl}, absolute : BOOLEAN]

DelCommand == [op : {"DEL"}, keys : SUBSET Keys]

ExpireCommand ==
    [op : {"EXPIRE"}, key : Keys, n : Int, relative : BOOLEAN, opts : SUBSET Options]

RenameCommand == [op : {"RENAME"}, key : Keys, dst : Keys, nx : BOOLEAN]

CopyCommand == [op : {"COPY"}, key : Keys, dst : Keys, db : Int, replace : BOOLEAN]

MoveCommand == [op : {"MOVE"}, key : Keys, db : Int]

SwapCommand == [op : {"SWAPDB"}, first : Int, second : Int]

SelectCommand == [op : {"SELECT"}, db : Int]

StreamCommand ==
    [op : {"XADD"}, key : Keys, id : 0 .. MaxId, fields : Fields]
    \cup [op : {"XDEL"}, key : Keys, id : 0 .. MaxId]

OtherCommand == [op : {"FLUSHDB", "FLUSHALL", "RELOAD", "SUBSCRIBE", "UNKNOWN"}]

Command ==
    KeyCommand \cup SetCommand \cup DelCommand \cup ExpireCommand \cup RenameCommand
    \cup CopyCommand \cup MoveCommand \cup SwapCommand \cup SelectCommand
    \cup StreamCommand \cup OtherCommand

\* The most now_ms() readings one of these commands makes.
Reads == 4

\* Successive readings of the clock by one command that starts at `from`.
Readings(from, to) ==
    {ts \in [1 .. Reads -> from .. to] :
        \A i \in 1 .. Reads - 1 : ts[i] <= ts[i + 1]}

-----------------------------------------------------------------------------
(* Commands on the selected database *)

\* The deadline SET computes while parsing, at reading t: EXAT and PXAT give it
\* as it is, passed or not; EX and PX count from now, and zero is an error.
SetDeadline(cmd, t) ==
    IF cmd.px = NoTtl \/ cmd.absolute THEN cmd.px ELSE t + cmd.px

\* string.rs: options are parsed at ts[1]; SET ... GET reads the old value at
\* ts[2]; existence is tested at ts[3].
Set(db, cmd, ts) ==
    LET syntax_error == \/ {"NX", "XX"} \subseteq cmd.opts
                        \/ cmd.keepttl /\ cmd.px # NoTtl
        invalid_expire == cmd.px = 0 /\ ~cmd.absolute
        wrongtype == /\ "GET" \in cmd.opts
                     /\ contains(db, cmd.key, ts[2])
                     /\ db[cmd.key].value.type # "string"
        exists == contains(db, cmd.key, ts[3])
        should_set == ~("NX" \in cmd.opts /\ exists) /\ ~("XX" \in cmd.opts /\ ~exists)
        purged == purge_if_expired(db, cmd.key, ts[3])
    IN  IF syntax_error \/ invalid_expire \/ wrongtype THEN db
        ELSE IF ~should_set THEN purged
        ELSE IF cmd.keepttl THEN set_keep_ttl(purged, cmd.key, Str(cmd.val))
        ELSE put(purged, cmd.key, Str(cmd.val), SetDeadline(cmd, ts[1]))

Del(db, cmd) == [k \in Keys |-> IF k \in cmd.keys THEN NoEntry ELSE db[k]]

\* EXPIRE, PEXPIRE, EXPIREAT and PEXPIREAT: contains at ts[1], now at ts[2],
\* the current expiry at ts[3], the write at ts[4].
Expire(db, cmd, ts) ==
    LET opts == cmd.opts
        clash == \/ "NX" \in opts /\ opts # {"NX"}
                 \/ {"GT", "LT"} \subseteq opts
        at == IF cmd.relative THEN ts[2] + cmd.n ELSE cmd.n
        current == expire_at(db, cmd.key, ts[3])
        ok == CASE "NX" \in opts -> current = NoTtl
                [] "NX" \notin opts /\ "XX" \in opts -> current # NoTtl
                [] opts = {"GT"} -> current # NoTtl /\ at > current
                [] opts = {"LT"} -> current = NoTtl \/ at < current
                [] OTHER -> TRUE
    IN  IF clash \/ ~contains(db, cmd.key, ts[1])
        THEN IF clash THEN db ELSE purge_if_expired(db, cmd.key, ts[1])
        ELSE IF ~ok THEN purge_if_expired(db, cmd.key, ts[3])
        ELSE IF at <= ts[2] THEN remove(db, cmd.key)
        ELSE set_expire(purge_if_expired(db, cmd.key, ts[3]), cmd.key, at, ts[4])

\* RENAME and RENAMENX: contains(src) at ts[1], contains(dst) at ts[2].
Rename(db, cmd, ts) ==
    LET occupied == cmd.nx /\ contains(db, cmd.dst, ts[2])
    IN  IF ~contains(db, cmd.key, ts[1]) THEN purge_if_expired(db, cmd.key, ts[1])
        ELSE IF occupied THEN db
        ELSE rename(IF cmd.nx THEN purge_if_expired(db, cmd.dst, ts[2]) ELSE db,
                    cmd.key, cmd.dst, ts[3])

\* get_or_create_stream at ts[1]: the key is there even when the id that
\* follows is refused.
XAdd(db, cmd, ts) ==
    LET purged == purge_if_expired(db, cmd.key, ts[1])
        made == IF purged[cmd.key] = NoEntry THEN set(purged, cmd.key, EmptyStream) ELSE purged
        entry == made[cmd.key]
        stream == entry.value
    IN  IF stream.type # "stream" \/ cmd.id <= stream.last_id THEN made
        ELSE put(made, cmd.key,
                 [stream EXCEPT !.entries = [i \in DOMAIN @ \cup {cmd.id} |->
                                                IF i = cmd.id THEN cmd.fields ELSE @[i]],
                                !.last_id = cmd.id],
                 entry.expire_at)

XDel(db, cmd, ts) ==
    LET purged == purge_if_expired(db, cmd.key, ts[1])
        entry == purged[cmd.key]
    IN  IF entry = NoEntry THEN purged
        ELSE IF entry.value.type # "stream" THEN purged
        ELSE put(purged, cmd.key,
                 [entry.value EXCEPT !.entries =
                    [i \in DOMAIN @ \ {cmd.id} |-> @[i]]],
                 entry.expire_at)

-----------------------------------------------------------------------------
(* Commands that span databases *)

\* The value is cloned at ts[1], its expiry read at ts[2], the destination
\* consulted at ts[3].
Copy(ks, d, cmd, ts) ==
    LET src == ks[d][cmd.key]
        ttl == expire_at(ks[d], cmd.key, ts[2])
        purged == [ks EXCEPT ![d] = purge_if_expired(@, cmd.key, ts[2])]
    IN  IF ~is_valid(cmd.db) \/ (cmd.db = d /\ cmd.key = cmd.dst) THEN ks
        ELSE IF ~contains(ks[d], cmd.key, ts[1])
        THEN [ks EXCEPT ![d] = purge_if_expired(@, cmd.key, ts[1])]
        ELSE IF contains(purged[cmd.db], cmd.dst, ts[3]) /\ ~cmd.replace THEN purged
        ELSE [purged EXCEPT ![cmd.db] = put(@, cmd.dst, src.value, ttl)]

\* Fault: the expiry does not travel with the value.
MoveDroppingTtl(ks, d, cmd, ts) ==
    IF /\ is_valid(cmd.db) /\ cmd.db # d
       /\ ~contains(ks[cmd.db], cmd.key, ts[1])
       /\ contains(ks[d], cmd.key, ts[2])
    THEN [ks EXCEPT ![d] = remove(@, cmd.key),
                    ![cmd.db] = set(@, cmd.key, ks[d][cmd.key].value)]
    ELSE ks

\* contains(dst) at ts[1], take(src) at ts[2].
Move(ks, d, cmd, ts) ==
    LET purged == [ks EXCEPT ![cmd.db] = purge_if_expired(@, cmd.key, ts[1])]
        src == ks[d][cmd.key]
    IN  IF ~is_valid(cmd.db) \/ cmd.db = d THEN ks
        ELSE IF contains(ks[cmd.db], cmd.key, ts[1]) THEN ks
        ELSE IF ~contains(ks[d], cmd.key, ts[2])
        THEN [purged EXCEPT ![d] = purge_if_expired(@, cmd.key, ts[2])]
        ELSE [ks EXCEPT ![d] = remove(@, cmd.key),
                        ![cmd.db] = put(@, cmd.key, src.value, src.expire_at)]

SwapDb(ks, cmd) ==
    IF is_valid(cmd.first) /\ is_valid(cmd.second)
    THEN swap(ks, cmd.first, cmd.second) ELSE ks

\* DEBUG RELOAD: written without the keys expired at ts[1], read back without
\* those expired at ts[2].  The reader looks at the clock for each key (module
\* Rdb): here a key that expires while others are read stays as an expired entry.
Reload(ks, ts) ==
    [d \in DbIds |-> sweep_expired(sweep_expired(ks[d], ts[1]), ts[2])]

-----------------------------------------------------------------------------

\* SELECT touches only the connection; SUBSCRIBE never reaches this function
\* and an unknown command is an error reply.
execute_locked(ks, d, cmd, ts) ==
    CASE cmd.op = "GET"      -> [ks EXCEPT ![d] = purge_if_expired(@, cmd.key, ts[1])]
      [] cmd.op = "SET"      -> [ks EXCEPT ![d] = Set(@, cmd, ts)]
      [] cmd.op = "DEL"      -> [ks EXCEPT ![d] = Del(@, cmd)]
      [] cmd.op = "EXPIRE"   -> [ks EXCEPT ![d] = Expire(@, cmd, ts)]
      [] cmd.op = "PERSIST"  -> [ks EXCEPT ![d] = persist(@, cmd.key, ts[1])]
      [] cmd.op = "RENAME"   -> [ks EXCEPT ![d] = Rename(@, cmd, ts)]
      [] cmd.op = "COPY"     -> Copy(ks, d, cmd, ts)
      [] cmd.op = "MOVE"     -> Move(ks, d, cmd, ts)
      [] cmd.op = "SWAPDB"   -> SwapDb(ks, cmd)
      [] cmd.op = "XADD"     -> [ks EXCEPT ![d] = XAdd(@, cmd, ts)]
      [] cmd.op = "XDEL"     -> [ks EXCEPT ![d] = XDel(@, cmd, ts)]
      [] cmd.op = "FLUSHDB"  -> [ks EXCEPT ![d] = EmptyDb]
      [] cmd.op = "FLUSHALL" -> EmptyKeyspace
      [] cmd.op = "RELOAD"   -> Reload(ks, ts)
      [] OTHER               -> ks

\* Fault: the index is not checked.
select_unchecked(d, cmd) == IF cmd.op = "SELECT" THEN cmd.db ELSE d

\* The database the connection is on after the command.
select(d, cmd) == IF cmd.op = "SELECT" /\ is_valid(cmd.db) THEN cmd.db ELSE d

=============================================================================
