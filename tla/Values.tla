------------------------------- MODULE Values -------------------------------
(***************************************************************************)
(* What the data type commands of src/src/commands are built from: reply   *)
(* frames, the typed accessors of db.rs, numbers and index arithmetic.     *)
(* A handler maps a database, its arguments c and the clock readings ts to *)
(* the database and the reply it leaves.                                   *)
(*                                                                         *)
(* Arguments arrive parsed.  A wrong number of arguments, an argument that *)
(* is no number and an unknown keyword are answered before the keyspace is *)
(* touched; MALFORMED stands for all of these, and the handlers that       *)
(* notice one later than that have it among their own arguments.           *)
(***************************************************************************)
EXTENDS Commands, SequencesExt

CONSTANTS
    MaxInt,      \* bound: i64::MAX
    MaxFloat,    \* bound: the largest finite f64
    ByteBits     \* bound: how many bits a byte has

ASSUME ValuesAssumption ==
    /\ MaxInt \in Nat /\ MaxFloat \in Nat
    /\ ByteBits \in Nat \ {0, 1}

\* What proofs need of ^, which the provers do not know.
ASSUME PowersAssumption == 2 ^ 0 = 1 /\ \A b \in 0 .. ByteBits - 1 : 2 ^ (b + 1) = 2 * 2 ^ b

-----------------------------------------------------------------------------
(* Frames.  An absent option is <<>>, a present one a sequence of length 1. *)

Integer(n) == <<"int", n>>
Bulk(x) == <<"bulk", x>>
Array(s) == <<"array", s>>
Unordered(s) == <<"unordered", s>>
Null == <<"null">>
NullArray == <<"nullarray">>
Ok == <<"ok">>
Err(what) == <<"err", what>>
WrongType == Err("WRONGTYPE")

\* A panic under the keyspace mutex: no reply, and the mutex is poisoned.
Panic == <<"panic">>

IsError(reply) == reply[1] \in {"err", "panic"}

Answer(db, reply) == [db |-> db, reply |-> reply]

\* What a look into the database found, where the handler goes on from it.
Found(x) == <<"found", x>>

malformed(db, c, ts) == Answer(db, Err("syntax"))

-----------------------------------------------------------------------------
(* Typed accessors *)

\* Value::List(VecDeque::new()) and its like.
Fresh == [string |-> <<>>, list |-> <<>>, set |-> {}, hash |-> [f \in {} |-> 0],
          zset |-> [scores |-> [m \in {} |-> 0], sorted |-> {}],
          stream |-> [entries |-> [i \in {} |-> 0], last_id |-> 0, max_deleted_id |-> 0]]

Held(type, data) == [type |-> type, data |-> data]

\* HashMap::insert and remove, for whole sets of keys at once.
Merged(h, pairs) == [f \in DOMAIN h \cup DOMAIN pairs |->
                        IF f \in DOMAIN pairs THEN pairs[f] ELSE h[f]]

Without(h, fields) == Restrict(h, DOMAIN h \ fields)

\* A stream may be empty and keep its key.
Hollow(v) == CASE v.type = "list" -> v.data = <<>>
               [] v.type = "set"  -> v.data = {}
               [] v.type = "hash" -> DOMAIN v.data = {}
               [] v.type = "zset" -> DOMAIN v.data.scores = {}
               [] OTHER           -> FALSE

\* Fault: the key of an emptied container stays.
keep_if_empty(db, k) == db

remove_if_empty(db, k) ==
    IF db[k] # NoEntry THEN IF Hollow(db[k].value) THEN remove(db, k) ELSE db ELSE db

\* get_str, get_list and the other read accessors, mutable ones included: what
\* they leave, and the data, or how it failed.
typed_get(db, k, t, type, absent) ==
    LET d == purge_if_expired(db, k, t)
    IN  Answer(d, IF d[k] = NoEntry THEN absent
                  ELSE IF d[k].value.type # type THEN WrongType
                  ELSE Found(d[k].value.data))

\* get_or_create_list, _set, _hash, _zset and _stream.
get_or_create(db, k, t, type) ==
    LET d == purge_if_expired(db, k, t)
        made == IF d[k] = NoEntry THEN set(d, k, Held(type, Fresh[type])) ELSE d
    IN  Answer(made, IF made[k].value.type # type THEN WrongType ELSE Found(made[k].value.data))

\* What the first n of several looks at keys, one reading each, leave.
PurgedAlong(db, keys, ts, n) ==
    [k \in Keys |-> IF \E i \in 1 .. n : keys[i] = k /\ Expired(db[k], ts[i])
                    THEN NoEntry ELSE db[k]]

\* Several keys looked up one after the other until one look fails.  Each may
\* be taken in the database as it was: a key that an earlier look removed had
\* expired, and still has.
Gathered(db, keys, ts, type, absent) ==
    LET look(i) == typed_get(db, keys[i], ts[i], type, absent).reply
        failed == {i \in DOMAIN keys : look(i)[1] # "found"}
        last == IF failed = {} THEN Len(keys) ELSE Min(failed)
    IN  Answer(PurgedAlong(db, keys, ts, last),
               IF failed = {} THEN Found([i \in DOMAIN keys |-> look(i)[2]]) ELSE look(last))

\* F is what a handler does with the database and the data it got.
AndThen(got, type, k, F(_, _)) ==
    IF got.db[k] = NoEntry THEN got
    ELSE IF got.db[k].value.type # type THEN got
    ELSE F(got.db, got.db[k].value.data)

\* A change of a container in place, which leaves its expiry alone.
Change(data, reply) == [data |-> data, reply |-> reply]

\* Fault: the container is stored as a new value, without its expiry.
StoredAfresh(db, k, type, ch) == Answer(set(db, k, Held(type, ch.data)), ch.reply)

Stored(db, k, type, ch) ==
    Answer(put(db, k, Held(type, ch.data), db[k].expire_at), ch.reply)

Trimmed(db, k, type, ch) ==
    Answer(remove_if_empty(Stored(db, k, type, ch).db, k), ch.reply)

Reading(db, k, t, type, absent, F(_)) ==
    AndThen(typed_get(db, k, t, type, absent), type, k, LAMBDA d, x : Answer(d, F(x)))

Updating(db, k, t, type, absent, F(_)) ==
    AndThen(typed_get(db, k, t, type, absent), type, k, LAMBDA d, x : Stored(d, k, type, F(x)))

Shrinking(db, k, t, type, absent, F(_)) ==
    AndThen(typed_get(db, k, t, type, absent), type, k, LAMBDA d, x : Trimmed(d, k, type, F(x)))

Creating(db, k, t, type, F(_)) ==
    AndThen(get_or_create(db, k, t, type), type, k, LAMBDA d, x : Stored(d, k, type, F(x)))

Culling(db, k, t, type, F(_)) ==
    AndThen(get_or_create(db, k, t, type), type, k, LAMBDA d, x : Trimmed(d, k, type, F(x)))

-----------------------------------------------------------------------------
(* Numbers and indices *)

I64 == -(MaxInt + 1) .. MaxInt

U64 == 2 * (MaxInt + 1)

\* Outside I64 it is None.
checked_add(a, b) == a + b

Inf == MaxFloat + 1

Abs(n) == IF n < 0 THEN -n ELSE n

\* inf + -inf; the only sum of two scores that is not a number.
SumIsNan(a, b) == Abs(a) = Inf /\ b = -a

FloatSum(a, b) ==
    IF Abs(a) = Inf THEN a ELSE IF Abs(b) = Inf THEN b
    ELSE Max({-Inf, Min({Inf, a + b})})

\* Bytes 0 and 1 are the digits of a numeral, 2 is its minus sign.
Digits(s) == IF s # <<>> /\ s[1] = 2 THEN Tail(s) ELSE s

IsNumeral(s) == Digits(s) # <<>> /\ ToSet(Digits(s)) \subseteq {0, 1}

\* The number whose binary digits these are.
OfDigits(digits) == FoldLeft(LAMBDA acc, x : 2 * acc + x, 0, digits)

Numeral(s) ==
    LET n == OfDigits(Digits(s))
    IN  IF Digits(s) # s THEN -n ELSE n

\* str::parse::<i64>() succeeds.
IsInt(s) == IsNumeral(s) /\ Numeral(s) \in I64

Binary[n \in Nat] == IF n < 2 THEN <<n>> ELSE Append(Binary[n \div 2], n % 2)

\* to_string(), and format_double() of an integral value.
Text(n) == IF n < 0 THEN <<2>> \o Binary[-n] ELSE Binary[n]

norm_index(i, len) == IF i < 0 THEN i + len ELSE i

\* The elements at a set of positions, in order.
Picked(s, I) ==
    LET order == SetToSortSeq(I, <) IN [i \in 1 .. Cardinality(I) |-> s[order[i]]]

\* s[from ..= to], counted from zero.
Slice(s, from, to) == SubSeq(s, from + 1, to + 1)

Taken(s, n) == SubSeq(s, 1, Min({n, Len(s)}))

\* rand_u64 decides which: any n distinct members, in any order.
distinct_sample(members, n) ==
    {s \in [1 .. Min({n, Cardinality(members)}) -> members] : IsInjective(s)}

\* A positive count asks for distinct members, a negative one for draws.
sample(members, count) ==
    IF count >= 0 \/ members = {} THEN distinct_sample(members, Abs(count))
    ELSE [1 .. -count -> members]

=============================================================================
