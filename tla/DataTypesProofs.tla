-------------------------- MODULE DataTypesProofs ---------------------------
(***************************************************************************)
(* Proofs about the data type commands: every command of every family, with *)
(* any arguments that parse, for every set of keys and every length of the *)
(* clock.                                                                  *)
(*                                                                         *)
(* The argument is one key at a time.  Sound says what a value must be for *)
(* the handlers to work on it, and Tame what a command may make of an      *)
(* entry: remove it, leave it, or put a sound value in its place with the  *)
(* old expiry and not newly hollow.  Effect lifts this to a database, and  *)
(* effects compose, so that a handler is a chain of lookups, stores and    *)
(* removals.  A stream changed in place is StreamTame instead: it Grows.   *)
(* The handlers that loop are folds, whose results are reached by          *)
(* induction over the positions.                                           *)
(***************************************************************************)
EXTENDS DataTypes, FiniteSetTheorems, TLAPS

-----------------------------------------------------------------------------
(* Induction.  The library's principle takes a predicate, which no prover   *)
(* here can be given; this one takes the set of the numbers it holds of,    *)
(* and rests on the well-foundedness of <.                                  *)

\* A set of numbers that is not empty has a least element.
LEMMA LeastNatural ==
    ASSUME NEW T \in SUBSET Nat, T # {}
    PROVE  \E n \in T : \A m \in T : n <= m
  <1> DEFINE R == {ss \in Nat \X Nat : ss[1] < ss[2]}
  <1>1. IsWellFoundedOn(R, Nat)
    BY NatLessThanWellFounded, Zenon DEF OpToRel
  <1>2. PICK x \in T : \A y \in T : <<y, x>> \notin R
    <2> HIDE DEF R
    <2> QED BY <1>1, WFMin
  <1>3. \A m \in T : x <= m
    <2> SUFFICES ASSUME NEW m \in T, m < x PROVE FALSE OBVIOUS
    <2>1. <<m, x>> \in Nat \X Nat /\ <<m, x>>[1] < <<m, x>>[2] OBVIOUS
    <2> QED BY <1>2, <2>1
  <1> QED BY <1>3

\* A set with 0 and, with any number, the next one has them all.
LEMMA Induction ==
    ASSUME NEW T, 0 \in T, \A n \in Nat : n \in T => n + 1 \in T
    PROVE  \A n \in Nat : n \in T
  <1> SUFFICES ASSUME NEW x \in Nat, x \notin T PROVE FALSE OBVIOUS
  <1>1. PICK n \in Nat \ T : \A m \in Nat \ T : n <= m BY LeastNatural
  <1>2. n # 0 /\ n - 1 \in Nat /\ n - 1 \in T BY <1>1
  <1> QED BY <1>1, <1>2

\* An upper bound that is in the set is its maximum.
LEMMA MaxUnique ==
    ASSUME NEW s \in SUBSET Int, NEW m \in s, \A x \in s : x <= m
    PROVE  Max(s) = m
  <1>1. \A x \in s : x \in Int /\ m >= x OBVIOUS
  <1>2. ASSUME NEW x \in s, \A y \in s : x >= y PROVE x = m BY <1>1, <1>2
  <1> QED BY <1>1, <1>2, Zenon DEF Max

\* A set of integers that is bounded above has a maximum.
LEMMA BoundedMax ==
    ASSUME NEW s \in SUBSET Int, s # {}, NEW b \in Int, \A x \in s : x <= b
    PROVE  Max(s) \in s /\ \A x \in s : x <= Max(s)
  <1> DEFINE T == {n \in Nat : \E x \in s : n = b - x}
  <1>1. T # {}
    <2>1. PICK x \in s : TRUE OBVIOUS
    <2>2. x \in Int /\ x <= b BY <2>1
    <2>3. b - x \in Nat BY <2>2
    <2>4. b - x \in T BY <2>1, <2>3
    <2> QED BY <2>4
  <1>2. PICK n \in T : \A m \in T : n <= m BY <1>1, LeastNatural
  <1>3. PICK y \in s : n = b - y BY <1>2
  <1>4. ASSUME NEW x \in s PROVE x <= y
    <2>1. x \in Int /\ y \in Int /\ x <= b BY <1>3
    <2>2. b - x \in Nat BY <2>1
    <2>3. b - x \in T BY <2>2
    <2> QED BY <1>2, <1>3, <2>1, <2>3
  <1> QED BY <1>3, <1>4, MaxUnique

\* A lower bound that is in the set is its minimum.
LEMMA MinUnique ==
    ASSUME NEW s \in SUBSET Int, NEW m \in s, \A x \in s : x >= m
    PROVE  Min(s) = m
  <1>1. \A x \in s : x \in Int /\ m <= x OBVIOUS
  <1>2. ASSUME NEW x \in s, \A y \in s : x <= y PROVE x = m BY <1>1, <1>2
  <1> QED BY <1>1, <1>2, Zenon DEF Min

\* The minimum of a set of natural numbers is one of them.
LEMMA NatMin ==
    ASSUME NEW s \in SUBSET Nat, s # {}
    PROVE  Min(s) \in s
  <1>1. PICK n \in s : \A m \in s : n <= m BY LeastNatural
  <1>2. s \in SUBSET Int /\ \A x \in s : x >= n BY <1>1
  <1> QED BY <1>2, MinUnique

-----------------------------------------------------------------------------
(* Folds.  FoldLeft runs over all subsets of the positions and takes the    *)
(* largest out of each.                                                     *)

\* How the maximum of a set of positions 1 .. n + 1 is taken out of it.
LEMMA Positions ==
    ASSUME NEW n \in Nat
    PROVE  /\ 1 .. 0 = {}
           /\ Max(1 .. (n + 1)) = n + 1
           /\ (1 .. (n + 1)) \ {n + 1} = 1 .. n
           /\ 1 .. (n + 1) # {}
           /\ \A s \in SUBSET (1 .. (n + 1)) :
                 /\ n + 1 \notin s => s \in SUBSET (1 .. n)
                 /\ s \ {n + 1} \in SUBSET (1 .. n)
                 /\ n + 1 \in s => Max(s) = n + 1
           /\ \A s \in SUBSET (1 .. n) :
                 s # {} => /\ Max(s) \in s
                           /\ Max(s) \in 1 .. n
                           /\ s \ {Max(s)} \in SUBSET (1 .. n)
  <1>1. (1 .. (n + 1)) \ {n + 1} = 1 .. n /\ n + 1 \in 1 .. (n + 1) OBVIOUS
  <1>2. ASSUME NEW s \in SUBSET (1 .. (n + 1)), n + 1 \in s PROVE Max(s) = n + 1
    <2>1. s \in SUBSET Int /\ \A x \in s : x <= n + 1 OBVIOUS
    <2> QED BY <2>1, <1>2, MaxUnique
  <1>3. ASSUME NEW s \in SUBSET (1 .. n), s # {} PROVE Max(s) \in s
    <2>1. s \in SUBSET Int /\ \A x \in s : x <= n OBVIOUS
    <2> QED BY <2>1, <1>3, BoundedMax
  <1>4. ASSUME NEW s \in SUBSET (1 .. (n + 1)) PROVE s \ {n + 1} \in SUBSET (1 .. n)
    BY <1>1
  <1>5. ASSUME NEW s \in SUBSET (1 .. (n + 1)), n + 1 \notin s PROVE s \in SUBSET (1 .. n)
    BY <1>4, <1>5
  <1>6. 1 .. 0 = {} OBVIOUS
  <1>7. Max(1 .. (n + 1)) = n + 1 BY <1>1, <1>2
  <1> QED BY <1>1, <1>2, <1>3, <1>4, <1>5, <1>6, <1>7

IsFold(g, A, base, N, st) ==
    /\ g \in [SUBSET (1 .. N) -> A]
    /\ \A s \in SUBSET (1 .. N) :
          g[s] = IF s = {} THEN base ELSE st[<<g[s \ {Max(s)}], Max(s)>>]

\* A step from A to A has a fold.
LEMMA FoldExists ==
    ASSUME NEW A, NEW base \in A, NEW N \in Nat, NEW st \in [A \X (1 .. N) -> A]
    PROVE  \E g : IsFold(g, A, base, N, st)
  <1> DEFINE Def(g, n) == /\ g \in [SUBSET (1 .. n) -> A]
                          /\ \A s \in SUBSET (1 .. n) :
                                g[s] = IF s = {} THEN base ELSE st[<<g[s \ {Max(s)}], Max(s)>>]
             T == {n \in Nat : n <= N => \E g : Def(g, n)}
  <1>1. 0 \in T
    <2> DEFINE g == [s \in SUBSET (1 .. 0) |-> base]
    <2>1. SUBSET (1 .. 0) = {{}} OBVIOUS
    <2>2. Def(g, 0) BY <2>1
    <2> QED BY <2>2
  <1>2. ASSUME NEW n \in Nat, n \in T PROVE n + 1 \in T
    <2>0. CASE ~(n + 1 <= N)
      BY <2>0
    <2>1. CASE n + 1 <= N
      <3>0. \E g : Def(g, n)
        <4> HIDE DEF Def
        <4> QED BY <1>2, <2>1
      <3>1. PICK g : Def(g, n) BY <3>0
      <3> DEFINE h == [s \in SUBSET (1 .. (n + 1)) |->
                          IF n + 1 \in s THEN st[<<g[s \ {n + 1}], n + 1>>] ELSE g[s]]
      <3>2. ASSUME NEW s \in SUBSET (1 .. (n + 1))
            PROVE  /\ n + 1 \notin s => s \in SUBSET (1 .. n) /\ h[s] = g[s] /\ g[s] \in A
                   /\ s \ {n + 1} \in SUBSET (1 .. n)
                   /\ g[s \ {n + 1}] \in A
                   /\ h[s] \in A
        <4>1. /\ n + 1 \notin s => s \in SUBSET (1 .. n)
              /\ s \ {n + 1} \in SUBSET (1 .. n)
          BY Positions
        <4>2. g[s \ {n + 1}] \in A /\ (n + 1 \notin s => g[s] \in A) BY <4>1, <3>1
        <4>3. <<g[s \ {n + 1}], n + 1>> \in A \X (1 .. N) BY <4>2, <2>1
        <4>4. st[<<g[s \ {n + 1}], n + 1>>] \in A BY <4>3
        <4> QED BY <4>1, <4>2, <4>4
      <3>3. h \in [SUBSET (1 .. (n + 1)) -> A] BY <3>2
      <3>4. ASSUME NEW s \in SUBSET (1 .. (n + 1))
            PROVE  h[s] = IF s = {} THEN base ELSE st[<<h[s \ {Max(s)}], Max(s)>>]
        <4>1. CASE n + 1 \in s
          <5>1. Max(s) = n + 1 BY <4>1, Positions
          <5>2. s \ {n + 1} \in SUBSET (1 .. (n + 1)) /\ n + 1 \notin s \ {n + 1} OBVIOUS
          <5>3. h[s \ {n + 1}] = g[s \ {n + 1}] BY <5>2, <3>2
          <5>4. h[s] = st[<<g[s \ {n + 1}], n + 1>>] BY <4>1
          <5> QED BY <4>1, <5>1, <5>3, <5>4
        <4>2. CASE s # {} /\ n + 1 \notin s
          <5>1. s \in SUBSET (1 .. n) /\ h[s] = g[s] BY <4>2, <3>2
          <5>2. Max(s) \in s /\ s \ {Max(s)} \in SUBSET (1 .. n) BY <4>2, <5>1, Positions
          <5>3. s \ {Max(s)} \in SUBSET (1 .. (n + 1)) /\ n + 1 \notin s \ {Max(s)} BY <4>2
          <5>4. h[s \ {Max(s)}] = g[s \ {Max(s)}] BY <5>3, <3>2
          <5>5. g[s] = st[<<g[s \ {Max(s)}], Max(s)>>] BY <5>1, <4>2, <3>1
          <5> HIDE DEF h
          <5> QED BY <4>2, <5>1, <5>4, <5>5
        <4>3. CASE s = {}
          <5>1. h[s] = g[s] /\ s \in SUBSET (1 .. n) BY <4>3, <3>2
          <5> QED BY <4>3, <5>1, <3>1
        <4> QED BY <4>1, <4>2, <4>3
      <3>5. Def(h, n + 1) BY <3>3, <3>4
      <3> HIDE DEF h, Def
      <3> QED BY <3>5
    <2> QED BY <2>0, <2>1
  <1>3. N \in T
    <2> HIDE DEF T
    <2> QED BY <1>1, <1>2, Induction
  <1>4. PICK g : Def(g, N)
    <2> HIDE DEF Def
    <2> QED BY <1>3
  <1>5. IsFold(g, A, base, N, st) BY <1>4 DEF IsFold
  <1> QED BY <1>5

\* What a fold computes stays where its steps stay.
LEMMA FoldClosed ==
    ASSUME NEW A, NEW N \in Nat, NEW it, it[{}] \in A,
           \A s \in SUBSET (1 .. N) : s # {} /\ it[s \ {Max(s)}] \in A => it[s] \in A
    PROVE  it[1 .. N] \in A
  <1> DEFINE T == {n \in Nat : n <= N => it[1 .. n] \in A}
  <1>1. 0 \in T
    <2>1. 1 .. 0 = {} OBVIOUS
    <2> QED BY <2>1
  <1>2. ASSUME NEW n \in Nat, n \in T PROVE n + 1 \in T
    <2>1. CASE n + 1 <= N
      <3>1. it[1 .. n] \in A BY <2>1, <1>2
      <3>2. \A x \in 1 .. (n + 1) : x \in 1 .. N BY <2>1
      <3>3. 1 .. (n + 1) \in SUBSET (1 .. N) BY <3>2
      <3>4. /\ (1 .. (n + 1)) \ {Max(1 .. (n + 1))} = 1 .. n
            /\ 1 .. (n + 1) # {}
        BY Positions
      <3>5. it[(1 .. (n + 1)) \ {Max(1 .. (n + 1))}] \in A BY <3>1, <3>4
      <3>6. it[1 .. (n + 1)] \in A BY <3>3, <3>4, <3>5
      <3> QED BY <3>6
    <2> QED BY <2>1
  <1>3. N \in T
    <2> HIDE DEF T
    <2> QED BY <1>1, <1>2, Induction
  <1> QED BY <1>3

-----------------------------------------------------------------------------
(* What values are.  The elements of a list may be anything; a sorted set    *)
(* has integral scores and an index of exactly these.                       *)

ListOK(l) == l \in Seq(ToSet(l))

ZsetOK(z) ==
    /\ z = [scores |-> z.scores, sorted |-> z.sorted]
    /\ DOMAIN z.scores \subseteq Int
    /\ z.scores \in [DOMAIN z.scores -> Int]
    /\ z.sorted = {<<z.scores[m], m>> : m \in DOMAIN z.scores}

StreamOK(s) ==
    /\ s = [entries |-> s.entries, last_id |-> s.last_id, max_deleted_id |-> s.max_deleted_id]
    /\ s.last_id \in Nat
    /\ s.max_deleted_id \in Nat /\ s.max_deleted_id <= s.last_id
    /\ \A id \in DOMAIN s.entries : id \in Nat /\ id <= s.last_id

Sound(v) ==
    /\ v.type \in {"string", "list", "set", "hash", "zset", "stream"}
    /\ v.type = "string" => v.data \in ByteString
    /\ v.type = "list" => ListOK(v.data)
    /\ v.type = "zset" => ZsetOK(v.data)
    /\ v.type = "stream" => StreamOK(v.data)

SoundDb(d) ==
    /\ DOMAIN d = Keys
    /\ \A k \in Keys : d[k] # NoEntry => d[k].expire_at \in Expiry /\ Sound(d[k].value)

-----------------------------------------------------------------------------
(* What a command may do to a key.  ok: the reply is no error.  keep: the    *)
(* command is one that leaves expiries alone.                               *)

Lapsed(e, f, t) == f = e \/ (f = NoEntry /\ Expired(e, t))

Tame(e, f, t, keep, ok) ==
    \/ f = NoEntry
    \/ f = e
    \/ /\ f.expire_at \in Expiry
       /\ Sound(f.value)
       /\ f.value.type # "stream" \/ (e # NoEntry /\ f.value = e.value)
       /\ keep /\ LiveEntry(e, t) => f.expire_at = e.expire_at
       /\ ok /\ Hollow(f.value) => e # NoEntry /\ Hollow(e.value)

\* From database d to f, with the keys K changed and others at most lapsed.
Effect(d, f, K, t, keep, ok) ==
    /\ DOMAIN f = Keys
    /\ \A j \in Keys \ K : Lapsed(d[j], f[j], t)
    /\ \A j \in Keys : Tame(d[j], f[j], t, keep, ok)

\* A key may always lapse.
LEMMA LapsedIsTame ==
    ASSUME NEW e, NEW f, NEW t, Lapsed(e, f, t), NEW keep, NEW ok
    PROVE  Tame(e, f, t, keep, ok)
  BY DEF Lapsed, Tame

\* A database stays sound under any effect.
LEMMA EffectSound ==
    ASSUME NEW d, SoundDb(d), NEW f, NEW K, NEW t, NEW keep, NEW ok, Effect(d, f, K, t, keep, ok)
    PROVE  SoundDb(f)
  BY DEF Effect, Tame, SoundDb

\* Changing nothing is an effect.
LEMMA NoEffect ==
    ASSUME NEW d, SoundDb(d), NEW K, NEW t, NEW keep, NEW ok
    PROVE  Effect(d, d, K, t, keep, ok)
  BY DEF Effect, Tame, Lapsed, SoundDb

\* What is tame for a key that has lapsed is tame for the key.
LEMMA LapseThenTame ==
    ASSUME NEW e, e # NoEntry => e.expire_at \in Expiry, NEW g, NEW f, NEW t,
           NEW keep, NEW ok, Lapsed(e, g, t), Tame(g, f, t, keep, ok)
    PROVE  Tame(e, f, t, keep, ok)
  BY DEF Lapsed, Tame, LiveEntry

\* A key may lapse after any change.
LEMMA TameThenLapse ==
    ASSUME NEW e, NEW g, NEW f, NEW t,
           NEW keep, NEW ok, Tame(e, g, t, keep, ok), Lapsed(g, f, t)
    PROVE  Tame(e, f, t, keep, ok)
  BY DEF Lapsed, Tame

\* Looks first, then a change.
LEMMA LookThenEffect ==
    ASSUME NEW d, SoundDb(d), NEW g, NEW f, NEW K, NEW t, NEW keep, NEW ok,
           \A j \in Keys : Lapsed(d[j], g[j], t), Effect(g, f, K, t, keep, ok)
    PROVE  Effect(d, f, K, t, keep, ok)
  <1>1. ASSUME NEW j \in Keys PROVE Tame(d[j], f[j], t, keep, ok)
    BY LapseThenTame DEF SoundDb, Effect
  <1>2. ASSUME NEW j \in Keys \ K PROVE Lapsed(d[j], f[j], t)
    BY DEF Effect, Lapsed, Expired
  <1> QED BY <1>1, <1>2 DEF Effect

\* A change of one key, then of another one; or of the same one by a command
\* that does not promise to leave its expiry alone.
LEMMA TwoEffects ==
    ASSUME NEW d, SoundDb(d), NEW g, NEW f, NEW K, NEW L, NEW t,
           NEW keep \in BOOLEAN, NEW ok \in BOOLEAN,
           Effect(d, g, K, t, TRUE, TRUE), Effect(g, f, L, t, TRUE, ok),
           keep => K \cap L = {}
    PROVE  Effect(d, f, K \cup L, t, keep, ok)
  <1>1. ASSUME NEW j \in Keys PROVE Tame(d[j], f[j], t, keep, ok)
    <2>1. CASE j \notin K
      <3>1. Lapsed(d[j], g[j], t) /\ Tame(g[j], f[j], t, keep, ok)
        BY <2>1 DEF Effect, Tame
      <3> QED BY <3>1, LapseThenTame DEF SoundDb
    <2>2. CASE j \notin L
      <3>1. Tame(d[j], g[j], t, keep, ok) /\ Lapsed(g[j], f[j], t)
        BY <2>2 DEF Effect, Tame
      <3> QED BY <3>1, TameThenLapse
    <2>3. CASE j \in K /\ j \in L
      <3>1. keep = FALSE BY <2>3
      <3>2. Tame(d[j], g[j], t, TRUE, TRUE) /\ Tame(g[j], f[j], t, TRUE, ok) BY DEF Effect
      <3> QED BY <3>1, <3>2 DEF Tame
    <2> QED BY <2>1, <2>2, <2>3
  <1>2. ASSUME NEW j \in Keys \ (K \cup L) PROVE Lapsed(d[j], f[j], t)
    BY DEF Effect, Lapsed, Expired
  <1> QED BY <1>1, <1>2 DEF Effect

-----------------------------------------------------------------------------
(* The accessors.  A change ch is what the handler made of the data it got.  *)

\* What AndThen gives for a change o.
After(got, type, k, o) ==
    IF got.db[k] = NoEntry THEN got ELSE IF got.db[k].value.type # type THEN got ELSE o

\* The handler reaches the change.
Reaches(got, type, k) == got.db[k] # NoEntry /\ got.db[k].value.type = type

\* What a look at key k leaves: the entry, unless it had expired.
Looked(d, k, t, type, absent, got) ==
    /\ \A j \in Keys : Lapsed(d[j], got.db[j], t)
    /\ DOMAIN got.db = Keys
    /\ \A j \in Keys \ {k} : got.db[j] = d[j]
    /\ got.db[k] # NoEntry => got.db[k] = d[k]
    /\ got.db[k] = NoEntry => got.reply = absent
    /\ got.db[k] # NoEntry /\ got.db[k].value.type # type => got.reply = WrongType
    /\ Reaches(got, type, k) => got.reply = Found(got.db[k].value.data)

\* typed_get: the key is purged if it has expired and nothing else is touched.
LEMMA Look ==
    ASSUME NEW d, SoundDb(d), NEW k \in Keys, NEW u \in Nat, NEW t \in Nat, u <= t,
           NEW type, NEW absent
    PROVE  Looked(d, k, t, type, absent, typed_get(d, k, u, type, absent))
  <1> DEFINE got == typed_get(d, k, u, type, absent)
  <1>1. /\ got.db[k] # NoEntry => got.db[k] = d[k]
        /\ got.db[k] = NoEntry => got.reply = absent
        /\ got.db[k] # NoEntry /\ got.db[k].value.type # type => got.reply = WrongType
        /\ Reaches(got, type, k) => got.reply = Found(got.db[k].value.data)
        /\ DOMAIN got.db = Keys
        /\ \A j \in Keys \ {k} : got.db[j] = d[j]
    BY DEF typed_get, Answer, purge_if_expired, SoundDb, Reaches
  <1>2. \A j \in Keys : Lapsed(d[j], got.db[j], t)
    BY KeyspaceAssumption
       DEF typed_get, Answer, purge_if_expired, SoundDb, Expired, Lapsed, Expiry
  <1> QED BY <1>1, <1>2 DEF Looked

\* What typed_get finds is a sound value of the type asked for.
LEMMA LookedSound ==
    ASSUME NEW d, SoundDb(d), NEW k \in Keys, NEW t, NEW type, NEW absent, NEW got,
           Looked(d, k, t, type, absent, got)
    PROVE  /\ SoundDb(got.db)
           /\ Reaches(got, type, k) => Sound(got.db[k].value) /\ got.db[k].value = d[k].value
  BY DEF Looked, SoundDb, Lapsed, Reaches

\* A look is an effect on its key alone.
LEMMA LookedEffect ==
    ASSUME NEW d, NEW k, NEW t, NEW type, NEW absent, NEW got, NEW K, NEW ok,
           Looked(d, k, t, type, absent, got)
    PROVE  Effect(d, got.db, K, t, TRUE, ok)
  BY LapsedIsTame DEF Looked, Effect

\* A sound value put back into its entry keeps the expiry.
LEMMA StoredEffect ==
    ASSUME NEW d, SoundDb(d), NEW k \in Keys, NEW t \in Nat, NEW type, type # "stream",
           NEW ch, NEW ok \in BOOLEAN, d[k] # NoEntry, Sound(Held(type, ch.data)),
           ok => (Hollow(Held(type, ch.data)) => Hollow(d[k].value))
    PROVE  Effect(d, Stored(d, k, type, ch).db, {k}, t, TRUE, ok)
  BY DEF Effect, Tame, Lapsed, Stored, Answer, put, SoundDb, Held, LiveEntry

\* The same for a container that goes away when it is empty.
LEMMA TrimmedEffect ==
    ASSUME NEW d, SoundDb(d), NEW k \in Keys, NEW t \in Nat, NEW type, type # "stream",
           NEW ch, d[k] # NoEntry, Sound(Held(type, ch.data))
    PROVE  Effect(d, Trimmed(d, k, type, ch).db, {k}, t, TRUE, TRUE)
  BY DEF Effect, Tame, Lapsed, Trimmed, Stored, remove_if_empty, remove, Answer, put, SoundDb,
         Held, LiveEntry

\* The containers get_or_create makes are sound.
LEMMA FreshSound ==
    ASSUME NEW type \in {"list", "set", "hash", "zset"}
    PROVE  Sound(Held(type, Fresh[type]))
  <1>1. CASE type = "list"
    <2>1. Fresh[type] = <<>> BY <1>1 DEF Fresh
    <2>2. ListOK(<<>>) BY DEF ListOK
    <2> QED BY <1>1, <2>1, <2>2 DEF Sound, Held
  <1>2. CASE type = "zset"
    <2>1. Fresh[type] = [scores |-> [m \in {} |-> 0], sorted |-> {}] BY <1>2 DEF Fresh
    <2>2. ZsetOK([scores |-> [m \in {} |-> 0], sorted |-> {}]) BY DEF ZsetOK
    <2> QED BY <1>2, <2>1, <2>2 DEF Sound, Held
  <1>3. CASE type \in {"set", "hash"} BY <1>3 DEF Sound, Held
  <1> QED BY <1>1, <1>2, <1>3

\* What get_or_create leaves: the entry there was, or a new one.
Made(d, k, t, type, got) ==
    /\ DOMAIN got.db = Keys
    /\ \A j \in Keys \ {k} : Lapsed(d[j], got.db[j], t)
    /\ \/ got.db[k] # NoEntry /\ got.db[k] = d[k]
       \/ /\ ~LiveEntry(d[k], t)
          /\ got.db[k] = [value |-> Held(type, Fresh[type]), expire_at |-> NoTtl]

\* get_or_create: the key holds what it held if it was live, else a fresh container.
LEMMA Make ==
    ASSUME NEW d, SoundDb(d), NEW k \in Keys, NEW u \in Nat, NEW t \in Nat, u <= t, NEW type
    PROVE  Made(d, k, t, type, get_or_create(d, k, u, type))
  <1> DEFINE p == purge_if_expired(d, k, u)
             got == get_or_create(d, k, u, type)
  <1>1. /\ \A j \in Keys : Lapsed(d[j], p[j], t)
        /\ DOMAIN p = Keys
        /\ p[k] # NoEntry => p[k] = d[k]
    BY KeyspaceAssumption DEF purge_if_expired, SoundDb, Expired, Lapsed, Expiry
  <1>3. CASE p[k] # NoEntry
    <2>1. got.db = p BY <1>3 DEF get_or_create, Answer
    <2> QED BY <2>1, <1>1, <1>3 DEF Made
  <1>4. CASE p[k] = NoEntry
    <2> DEFINE e == [value |-> Held(type, Fresh[type]), expire_at |-> NoTtl]
    <2>1. /\ DOMAIN got.db = Keys
          /\ got.db[k] = e /\ \A j \in Keys \ {k} : got.db[j] = p[j]
      BY <1>4, <1>1 DEF get_or_create, Answer, set, put
    <2>2. ~LiveEntry(d[k], t) BY <1>4, <1>1 DEF Lapsed, LiveEntry
    <2> QED BY <2>1, <2>2, <1>1 DEF Made
  <1> QED BY <1>3, <1>4

\* What get_or_create gives to a handler is sound.
LEMMA MadeSound ==
    ASSUME NEW d, SoundDb(d), NEW k \in Keys, NEW t, NEW type \in {"list", "set", "hash", "zset"},
           NEW got, Made(d, k, t, type, got)
    PROVE  Reaches(got, type, k) => Sound(got.db[k].value)
  <1>1. CASE got.db[k] # NoEntry /\ got.db[k] = d[k] BY <1>1 DEF SoundDb
  <1>2. CASE got.db[k] = [value |-> Held(type, Fresh[type]), expire_at |-> NoTtl]
    BY <1>2, FreshSound
  <1> QED BY <1>1, <1>2 DEF Made

\* A container that get_or_create made is stored with content, or is removed.
LEMMA MadeStored ==
    ASSUME NEW d, SoundDb(d), NEW k \in Keys, NEW t, NEW type, type # "stream",
           NEW got, NEW ch, NEW ok \in BOOLEAN, Made(d, k, t, type, got),
           Reaches(got, type, k) =>
               Sound(Held(type, ch.data)) /\ (ok => ~Hollow(Held(type, ch.data)))
    PROVE  Effect(d, After(got, type, k, Stored(got.db, k, type, ch)).db, {k}, t, TRUE, ok)
  <1> DEFINE e == [value |-> Held(type, ch.data), expire_at |-> got.db[k].expire_at]
             f == After(got, type, k, Stored(got.db, k, type, ch)).db
  <1>1. CASE ~Reaches(got, type, k)
    <2>1. f = got.db BY <1>1 DEF After, Reaches
    <2>2. Tame(d[k], got.db[k], t, TRUE, ok)
      BY <1>1 DEF Made, Reaches, Held, Tame
    <2> QED BY <2>1, <2>2, LapsedIsTame DEF Effect, Made
  <1>2. CASE Reaches(got, type, k)
    <2>1. DOMAIN f = Keys /\ f[k] = e /\ \A j \in Keys \ {k} : f[j] = got.db[j]
      BY <1>2 DEF After, Reaches, Stored, Answer, put, Made
    <2>2. e.expire_at \in Expiry /\ (LiveEntry(d[k], t) => e.expire_at = d[k].expire_at)
      BY <1>2 DEF Made, Reaches, SoundDb, Expiry
    <2>3. e.value = Held(type, ch.data) /\ e.value.type = type BY DEF Held
    <2> HIDE DEF e, f
    <2>4. Tame(d[k], f[k], t, TRUE, ok) BY <1>2, <2>1, <2>2, <2>3 DEF Tame
    <2> QED BY <2>1, <2>4, LapsedIsTame DEF Effect, Made, f
  <1> QED BY <1>1, <1>2

\* A container that was made, changed and removed if it is empty.
LEMMA MadeTrimmed ==
    ASSUME NEW d, SoundDb(d), NEW k \in Keys, NEW t, NEW type, type # "stream",
           NEW got, NEW ch, Made(d, k, t, type, got),
           Reaches(got, type, k) => Sound(Held(type, ch.data))
    PROVE  Effect(d, After(got, type, k, Trimmed(got.db, k, type, ch)).db, {k}, t, TRUE, TRUE)
  <1> DEFINE e == [value |-> Held(type, ch.data), expire_at |-> got.db[k].expire_at]
             f == After(got, type, k, Trimmed(got.db, k, type, ch)).db
  <1>1. CASE ~Reaches(got, type, k)
    <2>1. f = got.db BY <1>1 DEF After, Reaches
    <2>2. Tame(d[k], got.db[k], t, TRUE, TRUE)
      BY <1>1 DEF Made, Reaches, Held, Tame
    <2> QED BY <2>1, <2>2, LapsedIsTame DEF Effect, Made
  <1>2. CASE Reaches(got, type, k)
    <2>1. /\ DOMAIN f = Keys /\ \A j \in Keys \ {k} : f[j] = got.db[j]
          /\ f[k] = e \/ f[k] = NoEntry
          /\ f[k] = e /\ Hollow(e.value) => f[k] = NoEntry
      BY <1>2 DEF After, Reaches, Trimmed, Stored, remove_if_empty, remove, Answer, put, Made
    <2>2. e.expire_at \in Expiry /\ (LiveEntry(d[k], t) => e.expire_at = d[k].expire_at)
      BY <1>2 DEF Made, Reaches, SoundDb, Expiry
    <2>3. e.value = Held(type, ch.data) /\ e.value.type = type BY DEF Held
    <2> HIDE DEF e, f
    <2>4. Tame(d[k], f[k], t, TRUE, TRUE) BY <1>2, <2>1, <2>2, <2>3 DEF Tame
    <2> QED BY <2>1, <2>4, LapsedIsTame DEF Effect, Made, f
  <1> QED BY <1>1, <1>2

\* A container, or a string, that was there is stored again, or trimmed.
LEMMA LookedStored ==
    ASSUME NEW d, SoundDb(d), NEW k \in Keys, NEW t \in Nat, NEW type, type # "stream",
           NEW absent, NEW got, NEW ch, NEW ok \in BOOLEAN, Looked(d, k, t, type, absent, got),
           Reaches(got, type, k) =>
               /\ Sound(Held(type, ch.data))
               /\ ok => (Hollow(Held(type, ch.data)) => Hollow(got.db[k].value))
    PROVE  Effect(d, After(got, type, k, Stored(got.db, k, type, ch)).db, {k}, t, TRUE, ok)
  <1>1. CASE ~Reaches(got, type, k)
    BY <1>1, LookedEffect DEF After, Reaches
  <1>2. CASE Reaches(got, type, k)
    <2>1. /\ got.db[k] # NoEntry
          /\ After(got, type, k, Stored(got.db, k, type, ch)) = Stored(got.db, k, type, ch)
      BY <1>2 DEF After, Reaches
    <2>2. SoundDb(got.db) BY LookedSound
    <2>3. Effect(got.db, Stored(got.db, k, type, ch).db, {k}, t, TRUE, ok)
      BY <1>2, <2>1, <2>2, StoredEffect
    <2>4. \A j \in Keys : Lapsed(d[j], got.db[j], t) BY DEF Looked
    <2> QED BY <2>1, <2>3, <2>4, LookThenEffect
  <1> QED BY <1>1, <1>2

\* A container that was looked up, changed and removed if it is empty.
LEMMA LookedTrimmed ==
    ASSUME NEW d, SoundDb(d), NEW k \in Keys, NEW t \in Nat, NEW type, type # "stream",
           NEW absent, NEW got, NEW ch, Looked(d, k, t, type, absent, got),
           Reaches(got, type, k) => Sound(Held(type, ch.data))
    PROVE  Effect(d, After(got, type, k, Trimmed(got.db, k, type, ch)).db, {k}, t, TRUE, TRUE)
  <1>1. CASE ~Reaches(got, type, k)
    BY <1>1, LookedEffect DEF After, Reaches
  <1>2. CASE Reaches(got, type, k)
    <2>1. /\ got.db[k] # NoEntry
          /\ After(got, type, k, Trimmed(got.db, k, type, ch)) = Trimmed(got.db, k, type, ch)
      BY <1>2 DEF After, Reaches
    <2>2. SoundDb(got.db) BY LookedSound
    <2>3. Effect(got.db, Trimmed(got.db, k, type, ch).db, {k}, t, TRUE, TRUE)
      BY <1>2, <2>1, <2>2, TrimmedEffect
    <2>4. \A j \in Keys : Lapsed(d[j], got.db[j], t) BY DEF Looked
    <2> QED BY <2>1, <2>3, <2>4, LookThenEffect
  <1> QED BY <1>1, <1>2

-----------------------------------------------------------------------------
(* Sequences *)

LEMMA SeqMono ==
    ASSUME NEW S, NEW U, S \subseteq U, NEW s \in Seq(S)
    PROVE  s \in Seq(U)
  <1>1. DOMAIN s = 1 .. Len(s) /\ Len(s) \in Nat /\ \A i \in 1 .. Len(s) : s[i] \in U OBVIOUS
  <1> QED BY <1>1

LEMMA SeqList ==
    ASSUME NEW S, NEW s \in Seq(S)
    PROVE  ListOK(s)
  <1>1. DOMAIN s = 1 .. Len(s) /\ Len(s) \in Nat /\ \A i \in 1 .. Len(s) : s[i] \in ToSet(s)
    BY DEF ToSet
  <1> QED BY <1>1 DEF ListOK

LEMMA ListSeq ==
    ASSUME NEW s, ListOK(s)
    PROVE  \E S : s \in Seq(S)
  BY DEF ListOK

LEMMA FunctionList ==
    ASSUME NEW n \in Nat, NEW s, DOMAIN s = 1 .. n, s = [i \in 1 .. n |-> s[i]]
    PROVE  ListOK(s)
  <1> DEFINE S == {s[i] : i \in 1 .. n}
  <1>1. s \in [1 .. n -> S] BY Zenon
  <1>2. s \in Seq(S) BY <1>1
  <1> QED BY <1>2, SeqList

\* Two sequences over a common set.
LEMMA CommonSeq ==
    ASSUME NEW s, NEW r, ListOK(s), ListOK(r)
    PROVE  \E S : s \in Seq(S) /\ r \in Seq(S)
  <1> DEFINE S == ToSet(s) \cup ToSet(r)
  <1>1. s \in Seq(ToSet(s)) /\ r \in Seq(ToSet(r)) BY DEF ListOK
  <1>2. s \in Seq(S) /\ r \in Seq(S) BY <1>1, SeqMono
  <1> QED BY <1>2

LEMMA ConcatList ==
    ASSUME NEW s, NEW r, ListOK(s), ListOK(r)
    PROVE  /\ ListOK(s \o r)
           /\ Len(s \o r) = Len(s) + Len(r)
           /\ Len(s) \in Nat /\ Len(r) \in Nat
  <1>1. PICK S : s \in Seq(S) /\ r \in Seq(S) BY CommonSeq
  <1>2. s \o r \in Seq(S) BY <1>1
  <1>3. Len(s \o r) = Len(s) + Len(r) /\ Len(s) \in Nat /\ Len(r) \in Nat BY <1>1
  <1> QED BY <1>2, <1>3, SeqList

LEMMA ReverseList ==
    ASSUME NEW s, ListOK(s)
    PROVE  ListOK(Reverse(s)) /\ Len(Reverse(s)) = Len(s)
  <1>1. PICK S : s \in Seq(S) BY ListSeq
  <1>2. Reverse(s) \in Seq(S) /\ Len(Reverse(s)) = Len(s) BY <1>1 DEF Reverse
  <1> QED BY <1>2, SeqList

LEMMA SubSeqList ==
    ASSUME NEW s, ListOK(s), NEW m \in Int, NEW n \in Int, m >= 1, n <= Len(s)
    PROVE  ListOK(SubSeq(s, m, n))
  <1>1. PICK S : s \in Seq(S) BY ListSeq
  <1>2. SubSeq(s, m, n) \in Seq(S) BY <1>1
  <1> QED BY <1>2, SeqList

LEMMA OneList ==
    ASSUME NEW x
    PROVE  ListOK(<<x>>) /\ Len(<<x>>) = 1
  <1>1. <<x>> \in Seq({x}) OBVIOUS
  <1> QED BY <1>1, SeqList

LEMMA EmptyList == ListOK(<<>>)
  BY DEF ListOK

LEMMA ListLen ==
    ASSUME NEW s, ListOK(s)
    PROVE  /\ Len(s) \in Nat /\ DOMAIN s = 1 .. Len(s)
           /\ s # <<>> <=> Len(s) > 0
           /\ s = [i \in 1 .. Len(s) |-> s[i]]
  <1>1. PICK S : s \in Seq(S) BY ListSeq
  <1> QED BY <1>1

LEMMA MinTwo ==
    ASSUME NEW a \in Int, NEW b \in Int
    PROVE  Min({a, b}) = IF a <= b THEN a ELSE b
  <1>1. CASE a <= b
    <2>1. {a, b} \in SUBSET Int /\ \A x \in {a, b} : x >= a BY <1>1
    <2> QED BY <1>1, <2>1, MinUnique
  <1>2. CASE b < a
    <2>1. {a, b} \in SUBSET Int /\ \A x \in {a, b} : x >= b BY <1>2
    <2> QED BY <1>2, <2>1, MinUnique
  <1> QED BY <1>1, <1>2

LEMMA MaxTwo ==
    ASSUME NEW a \in Int, NEW b \in Int
    PROVE  Max({a, b}) = IF a <= b THEN b ELSE a
  <1>1. CASE a <= b
    <2>1. {a, b} \in SUBSET Int /\ \A x \in {a, b} : x <= b BY <1>1
    <2> QED BY <1>1, <2>1, MaxUnique
  <1>2. CASE b < a
    <2>1. {a, b} \in SUBSET Int /\ \A x \in {a, b} : x <= a BY <1>2
    <2> QED BY <1>2, <2>1, MaxUnique
  <1> QED BY <1>1, <1>2

\* A selection of a list's positions is a list again.
LEMMA PickedList ==
    ASSUME NEW s, ListOK(s), NEW I \in SUBSET DOMAIN s
    PROVE  ListOK(Picked(s, I))
  <1>0. Len(s) \in Nat BY ListLen
  <1>1. IsFiniteSet(1 .. Len(s)) BY <1>0, FS_Interval
  <1>2. IsFiniteSet(I) BY <1>1, ListLen, FS_Subset
  <1>3. Cardinality(I) \in Nat BY <1>2, FS_CardinalityType
  <1> DEFINE p == Picked(s, I)
  <1>4. DOMAIN p = 1 .. Cardinality(I) /\ p = [i \in 1 .. Cardinality(I) |-> p[i]]
    BY DEF Picked
  <1> HIDE DEF p
  <1>5. ListOK(p) BY <1>3, <1>4, FunctionList
  <1> QED BY <1>5 DEF p

-----------------------------------------------------------------------------
(* Commands *)

Keeps(c) == ~Replacing(c) /\ ~Rotating(c)

\* What every outcome of a command but a stream's is shown to be.
Fits(d, c, ts, out) ==
    /\ DOMAIN out.db = Keys
    /\ \A j \in Keys : Tame(d[j], out.db[j], ts[Reads], Keeps(c), ~IsError(out.reply))

\* The four readings of a command follow each other and the clock.
LEMMA Clock ==
    ASSUME NEW n \in Nat, NEW ts \in Readings(n, MaxTime)
    PROVE  /\ ts[1] \in Nat /\ ts[2] \in Nat /\ ts[3] \in Nat /\ ts[4] \in Nat
           /\ ts[1] <= ts[2] /\ ts[2] <= ts[3] /\ ts[3] <= ts[4]
           /\ ts[1] <= ts[3] /\ ts[1] <= ts[4] /\ ts[2] <= ts[4]
           /\ ts[Reads] = ts[4] /\ ts[4] \in n .. MaxTime
  BY DataTypesAssumption DEF Readings, Reads

\* An effect that keeps expiries and leaves nothing hollow fits any command.
LEMMA EffectFits ==
    ASSUME NEW d, NEW c, NEW ts, NEW out, NEW K, NEW keep \in BOOLEAN, NEW ok \in BOOLEAN,
           Effect(d, out.db, K, ts[Reads], keep, ok), Keeps(c) => keep, ~IsError(out.reply) => ok
    PROVE  Fits(d, c, ts, out)
  BY DEF Effect, Fits, Tame

\* A parsed command on one key has its key among Keys.
LEMMA ParsedKey ==
    ASSUME NEW c, Parsed(c),
           c.op \notin SeveralKeys \cup {"MSET", "MSETNX", "DEL", "RELOAD", "MALFORMED"}
    PROVE  c.key \in Keys
  BY DEF Parsed

\* A command that only looks at its key.
LEMMA ReadFits ==
    ASSUME NEW d, SoundDb(d), NEW c, c.key \in Keys, NEW n \in Nat,
           NEW ts \in Readings(n, MaxTime), NEW out,
           out.db \in {d, purge_if_expired(d, c.key, ts[1])}
    PROVE  Fits(d, c, ts, out)
  <1> DEFINE got == typed_get(d, c.key, ts[1], "", Null)
  <1>1. got.db = purge_if_expired(d, c.key, ts[1]) BY DEF typed_get, Answer
  <1>2. Looked(d, c.key, ts[4], "", Null, got) BY Look, Clock
  <1> HIDE DEF got
  <1>3. Effect(d, got.db, {}, ts[4], TRUE, TRUE) BY <1>2, LookedEffect
  <1>4. Effect(d, d, {}, ts[4], TRUE, TRUE) BY NoEffect
  <1>5. Effect(d, out.db, {}, ts[Reads], TRUE, TRUE) BY <1>1, <1>3, <1>4, Clock
  <1> QED BY <1>5, EffectFits

\* set(): a new entry in place of whatever was there.
LEMMA PutEffect ==
    ASSUME NEW d, SoundDb(d), NEW k \in Keys, NEW v, Sound(v), v.type # "stream", ~Hollow(v),
           NEW at \in Expiry, NEW t
    PROVE  Effect(d, put(d, k, v, at), {k}, t, FALSE, TRUE)
  BY DEF put, Effect, Tame, Lapsed, SoundDb

\* remove(): the key is gone.
LEMMA RemoveEffect ==
    ASSUME NEW d, SoundDb(d), NEW k \in Keys, NEW t
    PROVE  Effect(d, remove(d, k), {k}, t, TRUE, TRUE)
  BY DEF remove, Effect, Tame, Lapsed, SoundDb

\* SREM, HDEL and their like: a look, then get_or_create and a removal.
LEMMA ProbedTrimmed ==
    ASSUME NEW d, SoundDb(d), NEW k \in Keys, NEW t \in Nat, NEW type, type # "stream",
           NEW absent, NEW probe, Looked(d, k, t, type, absent, probe),
           NEW got, NEW ch, Made(probe.db, k, t, type, got),
           Reaches(got, type, k) => Sound(Held(type, ch.data))
    PROVE  Effect(d, After(got, type, k, Trimmed(got.db, k, type, ch)).db, {k}, t, TRUE, TRUE)
  <1>1. SoundDb(probe.db) /\ \A j \in Keys : Lapsed(d[j], probe.db[j], t)
    BY LookedSound DEF Looked
  <1>2. Effect(probe.db, After(got, type, k, Trimmed(got.db, k, type, ch)).db, {k}, t, TRUE, TRUE)
    BY <1>1, MadeTrimmed
  <1> QED BY <1>1, <1>2, LookThenEffect

\* Keys purged one after the other, each at its own reading, at most lapse.
LEMMA PurgedAlongLapses ==
    ASSUME NEW d, SoundDb(d), NEW keys, NEW n \in Nat, NEW ts \in Readings(n, MaxTime),
           NEW m \in Int, m <= Reads
    PROVE  LET f == PurgedAlong(d, keys, ts, m)
           IN  DOMAIN f = Keys /\ \A j \in Keys : Lapsed(d[j], f[j], ts[4])
  <1> DEFINE f == PurgedAlong(d, keys, ts, m)
  <1>1. \A i \in 1 .. m : ts[i] \in Nat /\ ts[i] <= ts[4] /\ ts[4] \in Nat
    <2>1. \A i \in 1 .. m : i \in {1, 2, 3, 4} BY DEF Reads
    <2>2. \A i \in {1, 2, 3, 4} : ts[i] \in Nat /\ ts[i] <= ts[4] /\ ts[4] \in Nat BY Clock
    <2> QED BY <2>1, <2>2
  <1>2. ASSUME NEW j \in Keys PROVE Lapsed(d[j], f[j], ts[4])
    <2>1. CASE \E i \in 1 .. m : keys[i] = j /\ Expired(d[j], ts[i])
      <3>1. PICK i \in 1 .. m : keys[i] = j /\ Expired(d[j], ts[i]) BY <2>1
      <3>2. f[j] = NoEntry BY <2>1 DEF PurgedAlong
      <3>3. d[j].expire_at \in Nat /\ d[j].expire_at <= ts[i]
        BY <3>1 DEF Expired, SoundDb, Expiry
      <3>4. Expired(d[j], ts[4]) BY <1>1, <3>1, <3>3 DEF Expired
      <3> QED BY <3>2, <3>4 DEF Lapsed
    <2>2. CASE ~(\E i \in 1 .. m : keys[i] = j /\ Expired(d[j], ts[i]))
      BY <2>2 DEF PurgedAlong, Lapsed
    <2> QED BY <2>1, <2>2
  <1> QED BY <1>2 DEF PurgedAlong

\* The same for a command that stops at the first key of the wrong type.
LEMMA GatheredLapses ==
    ASSUME NEW d, SoundDb(d), NEW keys \in Seq(Keys), Len(keys) <= Reads,
           NEW n \in Nat, NEW ts \in Readings(n, MaxTime), NEW type, NEW absent
    PROVE  LET f == Gathered(d, keys, ts, type, absent).db
           IN  DOMAIN f = Keys /\ \A j \in Keys : Lapsed(d[j], f[j], ts[4])
  <1> DEFINE look(i) == typed_get(d, keys[i], ts[i], type, absent).reply
             failed == {i \in DOMAIN keys : look(i)[1] # "found"}
             last == IF failed = {} THEN Len(keys) ELSE Min(failed)
  <1>1. Gathered(d, keys, ts, type, absent).db = PurgedAlong(d, keys, ts, last)
    BY DEF Gathered, Answer
  <1>2. last \in Int /\ last <= Reads
    <2>1. failed \in SUBSET (1 .. Len(keys)) /\ Len(keys) \in Nat OBVIOUS
    <2> HIDE DEF failed
    <2>2. failed # {} => Min(failed) \in failed
      <3>1. failed \in SUBSET Nat BY <2>1
      <3> QED BY <3>1, NatMin
    <2>3. \A x \in failed : x \in Int /\ x <= Len(keys) BY <2>1
    <2>4. CASE failed = {} BY <2>1, <2>4
    <2>5. CASE failed # {}
      <3>1. last \in Int /\ last <= Len(keys) BY <2>2, <2>3, <2>5
      <3> HIDE DEF last
      <3> QED BY <2>1, <3>1 DEF Reads
    <2> QED BY <2>4, <2>5
  <1> HIDE DEF last
  <1> QED BY <1>1, <1>2, PurgedAlongLapses

\* A database whose keys at most lapse.
LEMMA LapsesEffect ==
    ASSUME NEW d, SoundDb(d), NEW f, NEW t, DOMAIN f = Keys, \A j \in Keys : Lapsed(d[j], f[j], t),
           NEW K
    PROVE  SoundDb(f) /\ Effect(d, f, K, t, TRUE, TRUE)
  BY LapsedIsTame DEF Effect, SoundDb, Lapsed

-----------------------------------------------------------------------------
(* Lists *)

LEMMA HeldList ==
    ASSUME NEW l, ListOK(l)
    PROVE  Sound(Held("list", l)) /\ (Hollow(Held("list", l)) <=> l = <<>>)
  BY DEF Sound, Held, Hollow

LEMMA ListHeld ==
    ASSUME NEW v, Sound(v), v.type = "list"
    PROVE  ListOK(v.data) /\ (Hollow(v) <=> v.data = <<>>)
  BY DEF Sound, Hollow

LEMMA PushedList ==
    ASSUME NEW l, ListOK(l), NEW vals, ListOK(vals), vals # <<>>, NEW left
    PROVE  ListOK(Pushed(l, vals, left)) /\ Pushed(l, vals, left) # <<>>
  <1>1. ListOK(Reverse(vals)) /\ Len(Reverse(vals)) = Len(vals) BY ReverseList
  <1>2. Len(vals) > 0 /\ Len(vals) \in Nat BY ListLen
  <1>3. ListOK(Reverse(vals) \o l) /\ Len(Reverse(vals) \o l) > 0
    BY <1>1, <1>2, ConcatList
  <1>4. ListOK(l \o vals) /\ Len(l \o vals) > 0
    BY <1>2, ConcatList
  <1>5. Reverse(vals) \o l # <<>> /\ l \o vals # <<>> BY <1>3, <1>4, ListLen
  <1> QED BY <1>3, <1>4, <1>5 DEF Pushed

LEMMA PushedEffect ==
    ASSUME NEW d, SoundDb(d), NEW k \in Keys, NEW t, NEW got, Made(d, k, t, "list", got),
           NEW vals, ListOK(vals), vals # <<>>, NEW left, NEW ch,
           ch.data = Pushed(got.db[k].value.data, vals, left)
    PROVE  Effect(d, After(got, "list", k, Stored(got.db, k, "list", ch)).db, {k}, t, TRUE, TRUE)
  <1>1. ASSUME Reaches(got, "list", k)
        PROVE  Sound(Held("list", ch.data)) /\ ~Hollow(Held("list", ch.data))
    <2>1. Sound(got.db[k].value) BY <1>1, MadeSound
    <2>2. ListOK(got.db[k].value.data) BY <1>1, <2>1, ListHeld DEF Reaches
    <2>3. ListOK(ch.data) /\ ch.data # <<>> BY <2>2, PushedList
    <2> QED BY <2>3, HeldList
  <1> QED BY <1>1, MadeStored

\* LPUSH, RPUSH and their X forms.
LEMMA PushFits ==
    ASSUME NEW d, SoundDb(d), NEW c, Parsed(c), c.op = "PUSH",
           NEW n \in Nat, NEW ts \in Readings(n, MaxTime)
    PROVE  Fits(d, c, ts, push(d, c, ts))
  <1>1. c.key \in Keys /\ ListOK(c.vals) /\ c.vals # <<>>
    <2>1. c.key \in Keys /\ c.vals \in Seq(ByteString) /\ c.vals # <<>>
      BY DEF Parsed, SeveralKeys
    <2> QED BY <2>1, SeqList
  <1> DEFINE t == ts[4]
             probe == typed_get(d, c.key, ts[1], "list", Integer(0))
             add(e, u) == Creating(e, c.key, u, "list", LAMBDA l :
                              Change(Pushed(l, c.vals, c.left), Integer(Len(Pushed(l, c.vals, c.left)))))
  <1>2. push(d, c, ts) = IF ~c.xx THEN add(d, ts[1])
                         ELSE IF probe.reply[1] # "found" THEN probe ELSE add(probe.db, ts[2])
    BY DEF push
  <1>3. ASSUME NEW e, SoundDb(e), NEW u \in Nat, u <= t
        PROVE  Effect(e, add(e, u).db, {c.key}, t, TRUE, TRUE)
    <2> DEFINE got == get_or_create(e, c.key, u, "list")
               l == got.db[c.key].value.data
               ch == Change(Pushed(l, c.vals, c.left), Integer(Len(Pushed(l, c.vals, c.left))))
    <2>1. add(e, u) = After(got, "list", c.key, Stored(got.db, c.key, "list", ch))
      BY DEF Creating, AndThen, After
    <2>2. Made(e, c.key, t, "list", got) BY <1>1, <1>3, Make, Clock
    <2>3. ch.data = Pushed(l, c.vals, c.left) BY DEF Change
    <2> HIDE DEF got, ch, add
    <2>4. Effect(e, After(got, "list", c.key, Stored(got.db, c.key, "list", ch)).db, {c.key}, t, TRUE, TRUE)
      BY <1>1, <1>3, <2>2, <2>3, PushedEffect
    <2> QED BY <2>1, <2>4
  <1>4. Looked(d, c.key, t, "list", Integer(0), probe) BY <1>1, Look, Clock
  <1> HIDE DEF add, probe
  <1>5. SoundDb(probe.db) /\ \A j \in Keys : Lapsed(d[j], probe.db[j], t)
    BY <1>1, <1>4, LookedSound DEF Looked
  <1>6. Effect(probe.db, add(probe.db, ts[2]).db, {c.key}, t, TRUE, TRUE)
    BY <1>3, <1>5, Clock
  <1>7. Effect(d, add(probe.db, ts[2]).db, {c.key}, t, TRUE, TRUE)
    BY <1>5, <1>6, LookThenEffect
  <1>8. Effect(d, probe.db, {c.key}, t, TRUE, TRUE) BY <1>4, LookedEffect
  <1>9. Effect(d, add(d, ts[1]).db, {c.key}, t, TRUE, TRUE) BY <1>3, Clock
  <1>10. Effect(d, push(d, c, ts).db, {c.key}, ts[Reads], TRUE, TRUE)
    BY <1>2, <1>7, <1>8, <1>9, Clock
  <1> QED BY <1>10, EffectFits

LEMMA ListReads ==
    ASSUME NEW d, SoundDb(d), NEW c, Parsed(c), c.op \in {"LLEN", "LRANGE", "LINDEX", "LPOS"},
           NEW n \in Nat, NEW ts \in Readings(n, MaxTime)
    PROVE  Fits(d, c, ts, list_command(d, c, ts))
  <1>0. c.key \in Keys BY ParsedKey DEF SeveralKeys
  <1>1. CASE c.op = "LLEN"
    <2>1. llen(d, c, ts).db = purge_if_expired(d, c.key, ts[1])
      BY DEF llen, Reading, AndThen, typed_get, Answer
    <2> QED BY <1>1, <2>1, <1>0, ReadFits DEF list_command
  <1>2. CASE c.op = "LRANGE"
    <2>1. lrange(d, c, ts).db = purge_if_expired(d, c.key, ts[1])
      BY DEF lrange, Reading, AndThen, typed_get, Answer
    <2> QED BY <1>2, <2>1, <1>0, ReadFits DEF list_command
  <1>3. CASE c.op = "LINDEX"
    <2>1. lindex(d, c, ts).db = purge_if_expired(d, c.key, ts[1])
      BY DEF lindex, Reading, AndThen, typed_get, Answer
    <2> QED BY <1>3, <2>1, <1>0, ReadFits DEF list_command
  <1>4. CASE c.op = "LPOS"
    <2>1. lpos(d, c, ts).db \in {d, purge_if_expired(d, c.key, ts[1])}
      BY DEF lpos, Reading, AndThen, typed_get, Answer
    <2> QED BY <1>4, <2>1, <1>0, ReadFits DEF list_command
  <1> QED BY <1>1, <1>2, <1>3, <1>4

LEMMA ShrunkList ==
    ASSUME NEW d, SoundDb(d), NEW k \in Keys, NEW t \in Nat, NEW absent, NEW got,
           Looked(d, k, t, "list", absent, got), NEW ch,
           ListOK(got.db[k].value.data) => ListOK(ch.data)
    PROVE  Effect(d, After(got, "list", k, Trimmed(got.db, k, "list", ch)).db, {k}, t, TRUE, TRUE)
  <1>1. ASSUME Reaches(got, "list", k) PROVE Sound(Held("list", ch.data))
    <2>1. Sound(got.db[k].value) BY <1>1, LookedSound
    <2>2. ListOK(ch.data) BY <1>1, <2>1, ListHeld DEF Reaches
    <2> QED BY <2>2, HeldList
  <1> QED BY <1>1, LookedTrimmed

\* LPOP and RPOP: the list that is left is put back or its key removed.
LEMMA PopEffect ==
    ASSUME NEW d, SoundDb(d), NEW c, c.key \in Keys, c.count = <<>> \/ c.count[1] \in Int,
           NEW us, us[1] \in Nat, NEW t \in Nat, us[1] <= t
    PROVE  Effect(d, pop(d, c, us).db, {c.key}, t, TRUE, TRUE)
  <1> DEFINE single == c.count = <<>>
             n == IF single THEN 1 ELSE c.count[1]
             absent == IF single THEN Null ELSE NullArray
             got == typed_get(d, c.key, us[1], "list", absent)
             l == got.db[c.key].value.data
             take == Min({n, Len(l)})
             rest == IF c.left THEN SubSeq(l, take + 1, Len(l)) ELSE SubSeq(l, 1, Len(l) - take)
             out == IF c.left THEN SubSeq(l, 1, take)
                    ELSE Reverse(SubSeq(l, Len(l) - take + 1, Len(l)))
             ch == Change(rest, IF ~single THEN Array(out)
                                ELSE IF out = <<>> THEN Null ELSE Bulk(out[1]))
  <1>1. pop(d, c, us) = IF n < 0 THEN Answer(d, Err("range"))
                        ELSE After(got, "list", c.key, Trimmed(got.db, c.key, "list", ch))
    BY DEF pop, Shrinking, AndThen, After
  <1>2. n \in Int OBVIOUS
  <1> HIDE DEF n, ch, got
  <1>3. CASE n < 0
    <2>1. pop(d, c, us).db = d BY <1>1, <1>3 DEF Answer
    <2> QED BY <2>1, NoEffect
  <1>4. CASE ~(n < 0)
    <2>1. Looked(d, c.key, t, "list", absent, got) BY Look DEF got
    <2>2. ch.data = rest BY DEF Change, ch
    <2> HIDE DEF absent
    <2>3. ASSUME ListOK(l) PROVE ListOK(rest)
      <3> HIDE DEF l
      <3>1. Len(l) \in Nat BY <2>3, ListLen
      <3>2. take = IF n <= Len(l) THEN n ELSE Len(l) BY <3>1, <1>2, MinTwo
      <3>3. take \in Nat /\ take <= Len(l) BY <3>1, <3>2, <1>2, <1>4
      <3> HIDE DEF take
      <3>4. ListOK(SubSeq(l, take + 1, Len(l))) BY <2>3, <3>1, <3>3, SubSeqList
      <3>5. ListOK(SubSeq(l, 1, Len(l) - take)) BY <2>3, <3>1, <3>3, SubSeqList
      <3> QED BY <3>4, <3>5
    <2> HIDE DEF rest
    <2> QED BY <1>1, <1>4, <2>1, <2>2, <2>3, ShrunkList
  <1> QED BY <1>3, <1>4

\* The range clamp_range gives lies inside the list.
LEMMA ListRange ==
    ASSUME NEW l, ListOK(l), NEW start \in Int, NEW stop \in Int,
           NEW range, range = list_range(start, stop, Len(l)), ~NothingIn(range, Len(l))
    PROVE  ListOK(Slice(l, range[1], range[2]))
  <1>1. Len(l) \in Nat BY ListLen
  <1>2. norm_index(start, Len(l)) \in Int /\ norm_index(stop, Len(l)) \in Int
    BY <1>1 DEF norm_index
  <1>3. range[1] = Max({0, norm_index(start, Len(l))})
        /\ range[2] = Min({norm_index(stop, Len(l)), Len(l) - 1})
    BY DEF list_range
  <1>4. range[1] \in Nat /\ range[2] \in Int /\ range[2] <= Len(l) - 1
    BY <1>1, <1>2, <1>3, MinTwo, MaxTwo
  <1>5. range[1] + 1 \in Int /\ range[2] + 1 \in Int /\ range[1] + 1 >= 1 /\ range[2] + 1 <= Len(l)
    BY <1>1, <1>4
  <1> QED BY <1>5, SubSeqList DEF Slice

\* LTRIM, which may leave nothing and then removes the key.
LEMMA LtrimEffect ==
    ASSUME NEW d, SoundDb(d), NEW c, c.key \in Keys, c.start \in Int, c.stop \in Int,
           NEW us, us[1] \in Nat, NEW t \in Nat, us[1] <= t
    PROVE  Effect(d, ltrim(d, c, us).db, {c.key}, t, TRUE, TRUE)
  <1> DEFINE got == typed_get(d, c.key, us[1], "list", Ok)
             l == got.db[c.key].value.data
             range == list_range(c.start, c.stop, Len(l))
             rest == IF NothingIn(range, Len(l)) THEN <<>> ELSE Slice(l, range[1], range[2])
             ch == Change(rest, Ok)
  <1>1. ltrim(d, c, us) = After(got, "list", c.key, Trimmed(got.db, c.key, "list", ch))
    BY DEF ltrim, Shrinking, AndThen, After
  <1>2. Looked(d, c.key, t, "list", Ok, got) BY Look
  <1>3. ch.data = rest BY DEF Change
  <1> HIDE DEF got, ch
  <1>4. ListOK(l) => ListOK(rest) BY ListRange, EmptyList
  <1> HIDE DEF rest
  <1> QED BY <1>1, <1>2, <1>3, <1>4, ShrunkList

\* LREM.
LEMMA LremEffect ==
    ASSUME NEW d, SoundDb(d), NEW c, c.key \in Keys,
           NEW us, us[1] \in Nat, NEW t \in Nat, us[1] <= t
    PROVE  Effect(d, lrem(d, c, us).db, {c.key}, t, TRUE, TRUE)
  <1> DEFINE got == typed_get(d, c.key, us[1], "list", Integer(0))
             l == got.db[c.key].value.data
             limit == IF c.count = 0 THEN -1 ELSE Abs(c.count)
             matches == {i \in DOMAIN l : l[i] = c.val}
             passed(i) == {j \in matches : IF c.count >= 0 THEN j <= i ELSE j >= i}
             victims == {i \in matches : Cardinality(passed(i)) <= limit}
             ch == Change(Picked(l, DOMAIN l \ victims), Integer(Cardinality(victims)))
  <1>1. lrem(d, c, us) = After(got, "list", c.key, Trimmed(got.db, c.key, "list", ch))
    BY DEF lrem, Shrinking, AndThen, After
  <1>2. Looked(d, c.key, t, "list", Integer(0), got) BY Look
  <1>3. ch.data = Picked(l, DOMAIN l \ victims) BY DEF Change
  <1> HIDE DEF got, ch, victims
  <1>4. ListOK(l) => ListOK(ch.data) BY <1>3, PickedList
  <1> QED BY <1>1, <1>2, <1>4, ShrunkList

LEMMA UpdatedList ==
    ASSUME NEW d, SoundDb(d), NEW k \in Keys, NEW t \in Nat, NEW absent, NEW got,
           Looked(d, k, t, "list", absent, got), NEW ch,
           ListOK(got.db[k].value.data) =>
               ListOK(ch.data) /\ (ch.data = <<>> => got.db[k].value.data = <<>>)
    PROVE  Effect(d, After(got, "list", k, Stored(got.db, k, "list", ch)).db, {k}, t, TRUE, TRUE)
  <1>1. ASSUME Reaches(got, "list", k)
        PROVE  /\ Sound(Held("list", ch.data))
               /\ Hollow(Held("list", ch.data)) => Hollow(got.db[k].value)
    <2>1. Sound(got.db[k].value) BY <1>1, LookedSound
    <2>2. /\ ListOK(got.db[k].value.data)
          /\ Hollow(got.db[k].value) <=> got.db[k].value.data = <<>>
      BY <1>1, <2>1, ListHeld DEF Reaches
    <2> QED BY <2>2, HeldList
  <1> QED BY <1>1, LookedStored

\* LSET, for an index counted from either end.
LEMMA LsetEffect ==
    ASSUME NEW d, SoundDb(d), NEW c, c.key \in Keys, c.index \in Int,
           NEW us, us[1] \in Nat, NEW t \in Nat, us[1] <= t
    PROVE  Effect(d, lset(d, c, us).db, {c.key}, t, TRUE, TRUE)
  <1> DEFINE got == typed_get(d, c.key, us[1], "list", Err("no such key"))
             l == got.db[c.key].value.data
             i == norm_index(c.index, Len(l))
             new == [j \in DOMAIN l |-> IF j = i + 1 THEN c.val ELSE l[j]]
             ch == IF i \notin 0 .. Len(l) - 1 THEN Change(l, Err("index")) ELSE Change(new, Ok)
  <1>1. lset(d, c, us) = After(got, "list", c.key, Stored(got.db, c.key, "list", ch))
    BY DEF lset, Updating, AndThen, After
  <1>2. Looked(d, c.key, t, "list", Err("no such key"), got) BY Look
  <1> HIDE DEF got
  <1>3. ch.data = IF i \notin 0 .. Len(l) - 1 THEN l ELSE new BY DEF Change
  <1>4. ASSUME ListOK(l) PROVE ListOK(ch.data) /\ (ch.data = <<>> => l = <<>>)
    <2> HIDE DEF l, ch
    <2>1. Len(l) \in Nat /\ DOMAIN l = 1 .. Len(l) BY <1>4, ListLen
    <2>2. DOMAIN new = 1 .. Len(l) /\ new = [j \in 1 .. Len(l) |-> new[j]] BY <2>1
    <2>3. ListOK(new)
      <3> HIDE DEF new
      <3> QED BY <2>1, <2>2, FunctionList
    <2>4. new = <<>> => l = <<>>
      <3>1. Len(new) = Len(l)
        <4> HIDE DEF new
        <4> QED BY <2>1, <2>2, <2>3, ListLen
      <3>2. new = <<>> => Len(l) = 0 BY <3>1, <2>1
      <3> QED BY <3>2, <1>4, ListLen
    <2> HIDE DEF new, i
    <2> QED BY <1>3, <1>4, <2>3, <2>4
  <1> HIDE DEF ch
  <1> QED BY <1>1, <1>2, <1>4, UpdatedList

\* LINSERT.
LEMMA LinsertEffect ==
    ASSUME NEW d, SoundDb(d), NEW c, c.key \in Keys,
           NEW us, us[1] \in Nat, NEW t \in Nat, us[1] <= t
    PROVE  Effect(d, linsert(d, c, us).db, {c.key}, t, TRUE, TRUE)
  <1> DEFINE got == typed_get(d, c.key, us[1], "list", Integer(0))
             l == got.db[c.key].value.data
             I == {i \in 1 .. Len(l) : l[i] = c.pivot}
             at == IF I # {} THEN Min(I) ELSE 0
             grown == InsertAt(l, IF c.before THEN at ELSE at + 1, c.val)
             ch == IF at = 0 THEN Change(l, Integer(-1)) ELSE Change(grown, Integer(Len(grown)))
  <1>1. linsert(d, c, us) = After(got, "list", c.key, Stored(got.db, c.key, "list", ch))
    BY DEF linsert, Updating, AndThen, After, SelectInSeq
  <1>2. Looked(d, c.key, t, "list", Integer(0), got) BY Look
  <1> HIDE DEF got
  <1>3. ch.data = IF at = 0 THEN l ELSE grown BY DEF Change
  <1>4. ASSUME ListOK(l) PROVE ListOK(ch.data) /\ (ch.data = <<>> => l = <<>>)
    <2> HIDE DEF l, ch
    <2>1. Len(l) \in Nat BY <1>4, ListLen
    <2>2. I # {} => at \in I
      <3>1. I \in SUBSET Nat BY <2>1
      <3> HIDE DEF I
      <3> QED BY <3>1, NatMin
    <2>3. at # 0 => at \in Int /\ at >= 1 /\ at <= Len(l) BY <2>1, <2>2
    <2> HIDE DEF at, I
    <2>4. ASSUME at # 0, NEW p \in Int, p >= 1, p <= Len(l) + 1
          PROVE  ListOK(InsertAt(l, p, c.val)) /\ Len(InsertAt(l, p, c.val)) >= 1
      <3>1. ListOK(SubSeq(l, 1, p - 1)) /\ ListOK(SubSeq(l, p, Len(l)))
        BY <1>4, <2>1, <2>4, SubSeqList
      <3>2. /\ ListOK(SubSeq(l, 1, p - 1) \o <<c.val>>)
            /\ Len(SubSeq(l, 1, p - 1) \o <<c.val>>) >= 1
        BY <3>1, OneList, ConcatList, ListLen
      <3> DEFINE head == SubSeq(l, 1, p - 1) \o <<c.val>>
                 tail == SubSeq(l, p, Len(l))
      <3>3. ListOK(head \o tail) /\ Len(head \o tail) >= 1
        <4> HIDE DEF head, tail
        <4>1. ListOK(head) /\ Len(head) >= 1 /\ ListOK(tail) BY <3>1, <3>2 DEF head, tail
        <4> QED BY <4>1, ConcatList
      <3> QED BY <3>3 DEF InsertAt
    <2>5. at # 0 => ListOK(grown) /\ Len(grown) >= 1 BY <2>1, <2>3, <2>4
    <2> HIDE DEF grown
    <2>6. at # 0 => grown # <<>> BY <2>5, ListLen
    <2> QED BY <1>3, <1>4, <2>5, <2>6
  <1> HIDE DEF ch
  <1> QED BY <1>1, <1>2, <1>4, UpdatedList

\* LMOVE: a pop and a push, on two keys or on the same one.
LEMMA MoveFits ==
    ASSUME NEW d, SoundDb(d), NEW c, Parsed(c), c.op = "LMOVE",
           NEW n \in Nat, NEW ts \in Readings(n, MaxTime)
    PROVE  Fits(d, c, ts, move_elem(d, c, ts))
  <1>1. c.key \in Keys /\ c.dst \in Keys BY ParsedKey DEF Parsed, SeveralKeys
  <1> DEFINE t == ts[4]
             probe == typed_get(d, c.dst, ts[1], "list", Null)
             one == [key |-> c.key, left |-> c.from_left, count |-> <<>>]
             popped == pop(probe.db, one, <<ts[2]>>)
             got == get_or_create(popped.db, c.dst, ts[3], "list")
             ch == Change(Pushed(got.db[c.dst].value.data, <<popped.reply[2]>>, c.to_left),
                          popped.reply)
             end == After(got, "list", c.dst, Stored(got.db, c.dst, "list", ch))
  <1>2. move_elem(d, c, ts) = IF probe.reply = WrongType THEN probe
                              ELSE IF popped.reply \in {Null, WrongType} THEN popped
                              ELSE end
    BY DEF move_elem, Creating, AndThen, After
  <1>3. Looked(d, c.dst, t, "list", Null, probe) BY <1>1, Look, Clock
  <1>4. one.key \in Keys /\ one.key = c.key /\ one.count = <<>> BY <1>1
  <1> HIDE DEF probe, one
  <1>5. SoundDb(probe.db) /\ \A j \in Keys : Lapsed(d[j], probe.db[j], t)
    BY <1>1, <1>3, LookedSound DEF Looked
  <1>6. Effect(probe.db, popped.db, {c.key}, t, TRUE, TRUE)
    <2>1. <<ts[2]>>[1] \in Nat /\ <<ts[2]>>[1] <= t /\ t \in Nat BY Clock
    <2> QED BY <1>4, <1>5, <2>1, PopEffect
  <1>7. Effect(d, popped.db, {c.key}, t, TRUE, TRUE) BY <1>5, <1>6, LookThenEffect
  <1> HIDE DEF popped
  <1>8. SoundDb(popped.db) BY <1>7, EffectSound
  <1>9. Made(popped.db, c.dst, t, "list", got) BY <1>1, <1>8, Make, Clock
  <1>10. ch.data = Pushed(got.db[c.dst].value.data, <<popped.reply[2]>>, c.to_left) BY DEF Change
  <1> HIDE DEF got, ch
  <1>11. Effect(popped.db, end.db, {c.dst}, t, TRUE, TRUE)
    <2>1. ListOK(<<popped.reply[2]>>) /\ <<popped.reply[2]>> # <<>> BY OneList
    <2> QED BY <1>1, <1>8, <1>9, <1>10, <2>1, PushedEffect
  <1> HIDE DEF end
  <1>12. /\ Keeps(c) => Effect(d, end.db, {c.key} \cup {c.dst}, t, TRUE, TRUE)
         /\ Effect(d, end.db, {c.key} \cup {c.dst}, t, FALSE, TRUE)
    <2>1. Keeps(c) => {c.key} \cap {c.dst} = {} BY DEF Keeps, Rotating
    <2> QED BY <1>7, <1>11, <2>1, TwoEffects
  <1>13. Effect(d, probe.db, {}, t, TRUE, TRUE) BY <1>3, LookedEffect
  <1>14. ts[Reads] = t BY Clock
  <1>15. Fits(d, c, ts, probe) BY <1>13, <1>14, EffectFits
  <1>16. Fits(d, c, ts, popped) BY <1>7, <1>14, EffectFits
  <1>17. Fits(d, c, ts, end) BY <1>12, <1>14, EffectFits
  <1> QED BY <1>2, <1>15, <1>16, <1>17

\* Every list command.
LEMMA ListCommandFits ==
    ASSUME NEW d, SoundDb(d), NEW c, Parsed(c), c.op \in ListHandlers,
           NEW n \in Nat, NEW ts \in Readings(n, MaxTime)
    PROVE  Fits(d, c, ts, list_command(d, c, ts))
  <1>1. c.key \in Keys BY ParsedKey DEF SeveralKeys, ListHandlers
  <1>2. ts[1] \in Nat /\ ts[4] \in Nat /\ ts[1] <= ts[4] /\ ts[Reads] = ts[4] BY Clock
  <1>3. CASE c.op = "PUSH" BY <1>3, PushFits DEF list_command
  <1>4. CASE c.op = "POP"
    <2>1. c.count = <<>> \/ c.count[1] \in Int BY <1>4 DEF Parsed
    <2>2. Effect(d, pop(d, c, ts).db, {c.key}, ts[4], TRUE, TRUE) BY <1>1, <1>2, <2>1, PopEffect
    <2> QED BY <1>2, <1>4, <2>2, EffectFits DEF list_command
  <1>5. CASE c.op = "LSET"
    <2>1. c.index \in Int BY <1>5 DEF Parsed
    <2>2. Effect(d, lset(d, c, ts).db, {c.key}, ts[4], TRUE, TRUE) BY <1>1, <1>2, <2>1, LsetEffect
    <2> QED BY <1>2, <1>5, <2>2, EffectFits DEF list_command
  <1>6. CASE c.op = "LREM"
    <2>2. Effect(d, lrem(d, c, ts).db, {c.key}, ts[4], TRUE, TRUE) BY <1>1, <1>2, LremEffect
    <2> QED BY <1>2, <1>6, <2>2, EffectFits DEF list_command
  <1>7. CASE c.op = "LTRIM"
    <2>1. c.start \in Int /\ c.stop \in Int BY <1>7 DEF Parsed
    <2>2. Effect(d, ltrim(d, c, ts).db, {c.key}, ts[4], TRUE, TRUE) BY <1>1, <1>2, <2>1, LtrimEffect
    <2> QED BY <1>2, <1>7, <2>2, EffectFits DEF list_command
  <1>8. CASE c.op = "LINSERT"
    <2>2. Effect(d, linsert(d, c, ts).db, {c.key}, ts[4], TRUE, TRUE) BY <1>1, <1>2, LinsertEffect
    <2> QED BY <1>2, <1>8, <2>2, EffectFits DEF list_command
  <1>9. CASE c.op = "LMOVE" BY <1>9, MoveFits DEF list_command
  <1>10. CASE c.op \in {"LLEN", "LRANGE", "LINDEX", "LPOS"} BY <1>10, ListReads
  <1> QED BY <1>3, <1>4, <1>5, <1>6, <1>7, <1>8, <1>9, <1>10 DEF ListHandlers

-----------------------------------------------------------------------------
(* Sets *)

LEMMA HeldSet ==
    ASSUME NEW s
    PROVE  Sound(Held("set", s)) /\ (Hollow(Held("set", s)) <=> s = {})
           /\ Held("set", s).type # "stream"
  BY DEF Sound, Held, Hollow

LEMMA SaddEffect ==
    ASSUME NEW d, SoundDb(d), NEW k \in Keys, NEW t, NEW got, Made(d, k, t, "set", got),
           NEW ch, ch.data # {}
    PROVE  Effect(d, After(got, "set", k, Stored(got.db, k, "set", ch)).db, {k}, t, TRUE, TRUE)
  BY HeldSet, MadeStored

\* SADD.
LEMMA SaddFits ==
    ASSUME NEW d, SoundDb(d), NEW c, Parsed(c), c.op = "SADD",
           NEW n \in Nat, NEW ts \in Readings(n, MaxTime)
    PROVE  Fits(d, c, ts, sadd(d, c, ts))
  <1>1. c.key \in Keys /\ c.members # {} BY DEF Parsed, SeveralKeys
  <1> DEFINE got == get_or_create(d, c.key, ts[1], "set")
             s == got.db[c.key].value.data
             ch == Change(s \cup c.members, Integer(Cardinality(c.members \ s)))
  <1>2. sadd(d, c, ts) = After(got, "set", c.key, Stored(got.db, c.key, "set", ch))
    BY DEF sadd, Creating, AndThen, After
  <1>3. Made(d, c.key, ts[4], "set", got) BY <1>1, Make, Clock
  <1>4. ch.data # {} BY <1>1 DEF Change
  <1> HIDE DEF got, ch
  <1>5. Effect(d, After(got, "set", c.key, Stored(got.db, c.key, "set", ch)).db, {c.key}, ts[4],
               TRUE, TRUE)
    BY <1>1, <1>3, <1>4, SaddEffect
  <1>6. Effect(d, sadd(d, c, ts).db, {c.key}, ts[Reads], TRUE, TRUE)
    BY <1>2, <1>5, Clock
  <1> QED BY <1>6, EffectFits

\* SREM.
LEMMA SremFits ==
    ASSUME NEW d, SoundDb(d), NEW c, Parsed(c), c.op = "SREM",
           NEW n \in Nat, NEW ts \in Readings(n, MaxTime)
    PROVE  Fits(d, c, ts, srem(d, c, ts))
  <1>1. c.key \in Keys BY ParsedKey DEF SeveralKeys
  <1> DEFINE t == ts[4]
             probe == typed_get(d, c.key, ts[1], "set", Integer(0))
             got == get_or_create(probe.db, c.key, ts[2], "set")
             s == got.db[c.key].value.data
             ch == Change(s \ c.members, Integer(Cardinality(c.members \cap s)))
             end == After(got, "set", c.key, Trimmed(got.db, c.key, "set", ch))
  <1>2. srem(d, c, ts) = IF probe.reply[1] # "found" THEN probe ELSE end
    BY DEF srem, Culling, AndThen, After
  <1>3. Looked(d, c.key, t, "set", Integer(0), probe) BY <1>1, Look, Clock
  <1> HIDE DEF probe
  <1>4. SoundDb(probe.db) BY <1>1, <1>3, LookedSound
  <1>5. Made(probe.db, c.key, t, "set", got) BY <1>1, <1>4, Make, Clock
  <1> HIDE DEF got, ch
  <1>6. Effect(d, end.db, {c.key}, t, TRUE, TRUE)
    BY <1>1, <1>3, <1>5, HeldSet, ProbedTrimmed, Clock
  <1>7. Effect(d, probe.db, {c.key}, t, TRUE, TRUE) BY <1>3, LookedEffect
  <1> HIDE DEF end
  <1>8. Effect(d, srem(d, c, ts).db, {c.key}, ts[Reads], TRUE, TRUE) BY <1>2, <1>6, <1>7, Clock
  <1> QED BY <1>8, EffectFits

\* SPOP.
LEMMA SpopFits ==
    ASSUME NEW d, SoundDb(d), NEW c, Parsed(c), c.op = "SPOP",
           NEW n \in Nat, NEW ts \in Readings(n, MaxTime), NEW out \in spop(d, c, ts)
    PROVE  Fits(d, c, ts, out)
  <1>1. c.key \in Keys BY ParsedKey DEF SeveralKeys
  <1> DEFINE t == ts[4]
             single == c.count = <<>>
             m == IF single THEN 1 ELSE c.count[1]
             absent == IF single THEN Null ELSE Unordered({})
             probe == typed_get(d, c.key, ts[1], "set", absent)
             reply(drawn) == IF single THEN Bulk(drawn[1]) ELSE Unordered(ToSet(drawn))
             got == get_or_create(probe.db, c.key, ts[2], "set")
             ch(drawn) == Change(got.db[c.key].value.data \ ToSet(drawn), reply(drawn))
             end(drawn) == After(got, "set", c.key, Trimmed(got.db, c.key, "set", ch(drawn)))
  <1>2. \/ out = Answer(d, Err("range"))
        \/ out = probe
        \/ \E drawn \in distinct_sample(probe.reply[2], m) : out = end(drawn)
    BY DEF spop, Culling, AndThen, After
  <1>3. Looked(d, c.key, t, "set", absent, probe) BY <1>1, Look, Clock
  <1> HIDE DEF probe, absent
  <1>4. SoundDb(probe.db) BY <1>1, <1>3, LookedSound
  <1>5. Made(probe.db, c.key, t, "set", got) BY <1>1, <1>4, Make, Clock
  <1> HIDE DEF got
  <1>6. ASSUME NEW drawn PROVE Effect(d, end(drawn).db, {c.key}, t, TRUE, TRUE)
    <2> HIDE DEF ch
    <2> QED BY <1>1, <1>3, <1>5, HeldSet, ProbedTrimmed, Clock
  <1>7. Effect(d, probe.db, {c.key}, t, TRUE, TRUE) BY <1>3, LookedEffect
  <1>8. Effect(d, Answer(d, Err("range")).db, {c.key}, t, TRUE, TRUE) BY NoEffect DEF Answer
  <1> HIDE DEF end, m
  <1>9. Effect(d, out.db, {c.key}, ts[Reads], TRUE, TRUE) BY <1>2, <1>6, <1>7, <1>8, Clock
  <1> QED BY <1>9, EffectFits

\* SMOVE: a removal and an addition, on two keys or on the same one.
LEMMA SmoveFits ==
    ASSUME NEW d, SoundDb(d), NEW c, Parsed(c), c.op = "SMOVE",
           NEW n \in Nat, NEW ts \in Readings(n, MaxTime)
    PROVE  Fits(d, c, ts, smove(d, c, ts))
  <1>1. c.key \in Keys /\ c.dst \in Keys BY ParsedKey DEF Parsed, SeveralKeys
  <1> DEFINE t == ts[4]
             dst == typed_get(d, c.dst, ts[1], "set", Found({}))
             src == typed_get(dst.db, c.key, ts[2], "set", Found({}))
             gsrc == get_or_create(src.db, c.key, ts[3], "set")
             chs == Change(gsrc.db[c.key].value.data \ {c.member}, Ok)
             emptied == After(gsrc, "set", c.key, Trimmed(gsrc.db, c.key, "set", chs))
             gdst == get_or_create(emptied.db, c.dst, ts[4], "set")
             chd == Change(gdst.db[c.dst].value.data \cup {c.member}, Integer(1))
             end == After(gdst, "set", c.dst, Stored(gdst.db, c.dst, "set", chd))
  <1>2. smove(d, c, ts) = IF dst.reply = WrongType THEN dst
                          ELSE IF src.reply = WrongType THEN src
                          ELSE IF c.member \notin src.reply[2] THEN Answer(src.db, Integer(0))
                          ELSE end
    BY DEF smove, Culling, Creating, AndThen, After
  <1>3. Looked(d, c.dst, t, "set", Found({}), dst) BY <1>1, Look, Clock
  <1> HIDE DEF dst
  <1>4. SoundDb(dst.db) BY <1>1, <1>3, LookedSound
  <1>5. Looked(dst.db, c.key, t, "set", Found({}), src) BY <1>1, <1>4, Look, Clock
  <1> HIDE DEF src
  <1>6. SoundDb(src.db) BY <1>1, <1>4, <1>5, LookedSound
  <1>7. Made(src.db, c.key, t, "set", gsrc) BY <1>1, <1>6, Make, Clock
  <1> HIDE DEF gsrc, chs
  <1>8. Effect(dst.db, emptied.db, {c.key}, t, TRUE, TRUE)
    BY <1>1, <1>4, <1>5, <1>7, HeldSet, ProbedTrimmed, Clock
  <1> HIDE DEF emptied
  <1>9. \A j \in Keys : Lapsed(d[j], dst.db[j], t) BY <1>3 DEF Looked
  <1>10. Effect(d, emptied.db, {c.key}, t, TRUE, TRUE) BY <1>8, <1>9, LookThenEffect
  <1>11. SoundDb(emptied.db) BY <1>10, EffectSound
  <1>12. Made(emptied.db, c.dst, t, "set", gdst) BY <1>1, <1>11, Make, Clock
  <1>13. chd.data # {} BY DEF Change
  <1> HIDE DEF gdst, chd
  <1>14. Effect(emptied.db, end.db, {c.dst}, t, TRUE, TRUE)
    BY <1>1, <1>11, <1>12, <1>13, SaddEffect
  <1> HIDE DEF end
  <1>15. /\ Keeps(c) => Effect(d, end.db, {c.key} \cup {c.dst}, t, TRUE, TRUE)
         /\ Effect(d, end.db, {c.key} \cup {c.dst}, t, FALSE, TRUE)
    <2>1. Keeps(c) => {c.key} \cap {c.dst} = {} BY DEF Keeps, Rotating
    <2> QED BY <1>10, <1>14, <2>1, TwoEffects
  <1>16. Effect(d, dst.db, {}, t, TRUE, TRUE) BY <1>3, LookedEffect
  <1>17. Effect(d, src.db, {}, t, TRUE, TRUE)
    <2>1. Effect(dst.db, src.db, {}, t, TRUE, TRUE) BY <1>5, LookedEffect
    <2> QED BY <2>1, <1>9, LookThenEffect
  <1>18. ts[Reads] = t BY Clock
  <1>19. Fits(d, c, ts, dst) BY <1>16, <1>18, EffectFits
  <1>20. Fits(d, c, ts, src) BY <1>17, <1>18, EffectFits
  <1>21. Fits(d, c, ts, Answer(src.db, Integer(0)))
    <2> DEFINE o == Answer(src.db, Integer(0))
    <2>1. o.db = src.db BY DEF Answer
    <2> HIDE DEF o
    <2>2. Effect(d, o.db, {}, ts[Reads], TRUE, TRUE) BY <2>1, <1>17, <1>18
    <2>3. Fits(d, c, ts, o) BY <2>2, EffectFits
    <2> QED BY <2>3 DEF o
  <1>22. Fits(d, c, ts, end) BY <1>15, <1>18, EffectFits
  <1> QED BY <1>2, <1>19, <1>20, <1>21, <1>22

\* SUNION, SINTER, SDIFF and their STORE forms.
LEMMA SetopFits ==
    ASSUME NEW d, SoundDb(d), NEW c, Parsed(c), c.op = "SETOP",
           NEW n \in Nat, NEW ts \in Readings(n, MaxTime)
    PROVE  Fits(d, c, ts, setop(d, c, ts))
  <1>1. c.keys \in Seq(Keys) /\ Len(c.keys) <= Reads /\ (c.dst = <<>> \/ c.dst[1] \in Keys)
    BY DEF Parsed, SeveralKeys
  <1> DEFINE t == ts[4]
             found == Gathered(d, c.keys, ts, "set", Found({}))
             result == compute_setop(found.reply[2], c.kind)
             count == Integer(Cardinality(result))
             dropped == Answer(remove(found.db, c.dst[1]), count)
             stored == Answer(set(found.db, c.dst[1], Held("set", result)), count)
  <1>2. setop(d, c, ts) = IF found.reply = WrongType THEN found
                          ELSE IF c.dst = <<>> THEN Answer(found.db, Unordered(result))
                          ELSE IF result = {} THEN dropped ELSE stored
    BY DEF setop
  <1>3. DOMAIN found.db = Keys /\ \A j \in Keys : Lapsed(d[j], found.db[j], t)
    BY <1>1, GatheredLapses
  <1> HIDE DEF found
  <1>4. SoundDb(found.db) /\ Effect(d, found.db, {}, t, TRUE, TRUE) BY <1>3, LapsesEffect
  <1>5. ts[Reads] = t BY Clock
  <1> HIDE DEF result
  <1>6. ASSUME NEW out, out.db = found.db PROVE Fits(d, c, ts, out)
    BY <1>4, <1>5, <1>6, EffectFits
  <1>7. ASSUME c.dst # <<>> PROVE Fits(d, c, ts, dropped)
    <2>1. Effect(found.db, dropped.db, {c.dst[1]}, t, TRUE, TRUE)
      BY <1>1, <1>4, <1>7, RemoveEffect DEF Answer
    <2>2. Effect(d, dropped.db, {c.dst[1]}, t, TRUE, TRUE) BY <1>3, <2>1, LookThenEffect
    <2> QED BY <1>5, <2>2, EffectFits
  <1>8. ASSUME c.dst # <<>>, result # {} PROVE Fits(d, c, ts, stored)
    <2>1. stored.db = put(found.db, c.dst[1], Held("set", result), NoTtl) BY DEF Answer, set
    <2>2. Sound(Held("set", result)) /\ ~Hollow(Held("set", result)) /\ Held("set", result).type # "stream"
      BY <1>8, HeldSet
    <2>3. NoTtl \in Expiry BY DEF Expiry
    <2> HIDE DEF stored
    <2>4. Effect(found.db, stored.db, {c.dst[1]}, t, FALSE, TRUE)
      BY <1>1, <1>4, <1>8, <2>1, <2>2, <2>3, PutEffect
    <2>5. Effect(d, stored.db, {c.dst[1]}, t, FALSE, TRUE) BY <1>3, <2>4, LookThenEffect
    <2>6. ~Keeps(c) BY <1>8 DEF Keeps, Replacing
    <2> QED BY <1>5, <2>5, <2>6, EffectFits
  <1>9. Fits(d, c, ts, found) /\ Fits(d, c, ts, Answer(found.db, Unordered(result)))
    BY <1>6 DEF Answer
  <1> HIDE DEF dropped, stored
  <1> QED BY <1>2, <1>7, <1>8, <1>9

LEMMA SintercardFits ==
    ASSUME NEW d, SoundDb(d), NEW c, Parsed(c), c.op = "SINTERCARD",
           NEW n \in Nat, NEW ts \in Readings(n, MaxTime)
    PROVE  Fits(d, c, ts, sintercard(d, c, ts))
  <1>1. c.keys \in Seq(Keys) /\ Len(c.keys) <= Reads BY DEF Parsed, SeveralKeys
  <1> DEFINE found == Gathered(d, c.keys, ts, "set", Integer(0))
  <1>2. sintercard(d, c, ts).db \in {d, found.db} BY DEF sintercard, Answer
  <1>3. DOMAIN found.db = Keys /\ \A j \in Keys : Lapsed(d[j], found.db[j], ts[4])
    BY <1>1, GatheredLapses
  <1> HIDE DEF found
  <1>4. Effect(d, found.db, {}, ts[4], TRUE, TRUE) /\ Effect(d, d, {}, ts[4], TRUE, TRUE)
    BY <1>3, LapsesEffect, NoEffect
  <1>5. Effect(d, sintercard(d, c, ts).db, {}, ts[Reads], TRUE, TRUE) BY <1>2, <1>4, Clock
  <1> QED BY <1>5, EffectFits

LEMMA SetReads ==
    ASSUME NEW d, SoundDb(d), NEW c, Parsed(c),
           c.op \in {"SMEMBERS", "SMISMEMBER", "SCARD", "SRANDMEMBER", "SSCAN"},
           NEW n \in Nat, NEW ts \in Readings(n, MaxTime), NEW out \in set_command(d, c, ts)
    PROVE  Fits(d, c, ts, out)
  <1>0. c.key \in Keys BY ParsedKey DEF SeveralKeys
  <1>1. CASE c.op = "SMEMBERS"
    <2>1. out = smembers(d, c, ts) BY <1>1 DEF set_command
    <2>2. out.db = purge_if_expired(d, c.key, ts[1])
      BY <2>1 DEF smembers, Reading, AndThen, typed_get, Answer
    <2> QED BY <2>2, <1>0, ReadFits
  <1>2. CASE c.op = "SMISMEMBER"
    <2>1. out = smismember(d, c, ts) BY <1>2 DEF set_command
    <2>2. out.db = purge_if_expired(d, c.key, ts[1])
      BY <2>1 DEF smismember, Reading, AndThen, typed_get, Answer
    <2> QED BY <2>2, <1>0, ReadFits
  <1>3. CASE c.op = "SCARD"
    <2>1. out = scard(d, c, ts) BY <1>3 DEF set_command
    <2>2. out.db = purge_if_expired(d, c.key, ts[1])
      BY <2>1 DEF scard, Reading, AndThen, typed_get, Answer
    <2> QED BY <2>2, <1>0, ReadFits
  <1>4. CASE c.op = "SSCAN"
    <2>1. out = sscan(d, c, ts) BY <1>4 DEF set_command
    <2>2. out.db = purge_if_expired(d, c.key, ts[1])
      BY <2>1 DEF sscan, Reading, AndThen, typed_get, Answer
    <2> QED BY <2>2, <1>0, ReadFits
  <1>5. CASE c.op = "SRANDMEMBER"
    <2>1. out \in srandmember(d, c, ts) BY <1>5 DEF set_command
    <2>2. out.db = purge_if_expired(d, c.key, ts[1])
      BY <2>1 DEF srandmember, typed_get, Answer
    <2> QED BY <2>2, <1>0, ReadFits
  <1> QED BY <1>1, <1>2, <1>3, <1>4, <1>5

\* Every set command.
LEMMA SetCommandFits ==
    ASSUME NEW d, SoundDb(d), NEW c, Parsed(c), c.op \in SetHandlers,
           NEW n \in Nat, NEW ts \in Readings(n, MaxTime), NEW out \in set_command(d, c, ts)
    PROVE  Fits(d, c, ts, out)
  <1>1. CASE c.op = "SADD" BY <1>1, SaddFits DEF set_command
  <1>2. CASE c.op = "SREM" BY <1>2, SremFits DEF set_command
  <1>3. CASE c.op = "SPOP" BY <1>3, SpopFits DEF set_command
  <1>4. CASE c.op = "SMOVE" BY <1>4, SmoveFits DEF set_command
  <1>5. CASE c.op = "SETOP" BY <1>5, SetopFits DEF set_command
  <1>6. CASE c.op = "SINTERCARD" BY <1>6, SintercardFits DEF set_command
  <1>7. CASE c.op \in {"SMEMBERS", "SMISMEMBER", "SCARD", "SRANDMEMBER", "SSCAN"} BY <1>7, SetReads
  <1> QED BY <1>1, <1>2, <1>3, <1>4, <1>5, <1>6, <1>7 DEF SetHandlers

-----------------------------------------------------------------------------
(* Hashes *)

LEMMA HeldHash ==
    ASSUME NEW h
    PROVE  Sound(Held("hash", h)) /\ (Hollow(Held("hash", h)) <=> DOMAIN h = {})
  BY DEF Sound, Held, Hollow

LEMMA HashStored ==
    ASSUME NEW d, SoundDb(d), NEW k \in Keys, NEW t, NEW got, Made(d, k, t, "hash", got),
           NEW ch, NEW ok \in BOOLEAN, ok => DOMAIN ch.data # {}
    PROVE  Effect(d, After(got, "hash", k, Stored(got.db, k, "hash", ch)).db, {k}, t, TRUE, ok)
  BY HeldHash, MadeStored

\* HSET and HMSET.
LEMMA HsetFits ==
    ASSUME NEW d, SoundDb(d), NEW c, Parsed(c), c.op = "HSET",
           NEW n \in Nat, NEW ts \in Readings(n, MaxTime)
    PROVE  Fits(d, c, ts, hset(d, c, ts))
  <1>1. c.key \in Keys /\ DOMAIN c.pairs # {} BY DEF Parsed, SeveralKeys
  <1> DEFINE got == get_or_create(d, c.key, ts[1], "hash")
             h == got.db[c.key].value.data
             ch == Change(Merged(h, c.pairs),
                          IF c.hmset THEN Ok ELSE Integer(Cardinality(DOMAIN c.pairs \ DOMAIN h)))
  <1>2. hset(d, c, ts) = After(got, "hash", c.key, Stored(got.db, c.key, "hash", ch))
    BY DEF hset, Creating, AndThen, After
  <1>3. Made(d, c.key, ts[4], "hash", got) BY <1>1, Make, Clock
  <1>4. DOMAIN ch.data # {} BY <1>1 DEF Change, Merged
  <1> HIDE DEF got, ch
  <1>5. Effect(d, After(got, "hash", c.key, Stored(got.db, c.key, "hash", ch)).db, {c.key}, ts[4],
               TRUE, TRUE)
    BY <1>1, <1>3, <1>4, HashStored
  <1>6. Effect(d, hset(d, c, ts).db, {c.key}, ts[Reads], TRUE, TRUE) BY <1>2, <1>5, Clock
  <1> QED BY <1>6, EffectFits

\* HSETNX.
LEMMA HsetnxFits ==
    ASSUME NEW d, SoundDb(d), NEW c, Parsed(c), c.op = "HSETNX",
           NEW n \in Nat, NEW ts \in Readings(n, MaxTime)
    PROVE  Fits(d, c, ts, hsetnx(d, c, ts))
  <1>1. c.key \in Keys BY ParsedKey DEF SeveralKeys
  <1> DEFINE got == get_or_create(d, c.key, ts[1], "hash")
             h == got.db[c.key].value.data
             ch == IF c.field \in DOMAIN h THEN Change(h, Integer(0))
                   ELSE Change(Merged(h, [f \in {c.field} |-> c.val]), Integer(1))
  <1>2. hsetnx(d, c, ts) = After(got, "hash", c.key, Stored(got.db, c.key, "hash", ch))
    BY DEF hsetnx, Creating, AndThen, After
  <1>3. Made(d, c.key, ts[4], "hash", got) BY <1>1, Make, Clock
  <1>4. DOMAIN ch.data # {}
    <2>1. c.field \in DOMAIN ch.data
      <3> HIDE DEF h
      <3> QED BY DEF Change, Merged
    <2> QED BY <2>1
  <1> HIDE DEF got, ch
  <1>5. Effect(d, After(got, "hash", c.key, Stored(got.db, c.key, "hash", ch)).db, {c.key}, ts[4],
               TRUE, TRUE)
    BY <1>1, <1>3, <1>4, HashStored
  <1>6. Effect(d, hsetnx(d, c, ts).db, {c.key}, ts[Reads], TRUE, TRUE) BY <1>2, <1>5, Clock
  <1> QED BY <1>6, EffectFits

\* HDEL.
LEMMA HdelFits ==
    ASSUME NEW d, SoundDb(d), NEW c, Parsed(c), c.op = "HDEL",
           NEW n \in Nat, NEW ts \in Readings(n, MaxTime)
    PROVE  Fits(d, c, ts, hdel(d, c, ts))
  <1>1. c.key \in Keys BY ParsedKey DEF SeveralKeys
  <1> DEFINE t == ts[4]
             probe == typed_get(d, c.key, ts[1], "hash", Integer(0))
             got == get_or_create(probe.db, c.key, ts[2], "hash")
             h == got.db[c.key].value.data
             ch == Change(Without(h, c.fields), Integer(Cardinality(c.fields \cap DOMAIN h)))
             end == After(got, "hash", c.key, Trimmed(got.db, c.key, "hash", ch))
  <1>2. hdel(d, c, ts) = IF probe.reply[1] # "found" THEN probe ELSE end
    BY DEF hdel, Culling, AndThen, After
  <1>3. Looked(d, c.key, t, "hash", Integer(0), probe) BY <1>1, Look, Clock
  <1> HIDE DEF probe
  <1>4. SoundDb(probe.db) BY <1>1, <1>3, LookedSound
  <1>5. Made(probe.db, c.key, t, "hash", got) BY <1>1, <1>4, Make, Clock
  <1> HIDE DEF got, ch
  <1>6. Effect(d, end.db, {c.key}, t, TRUE, TRUE)
    BY <1>1, <1>3, <1>5, HeldHash, ProbedTrimmed, Clock
  <1>7. Effect(d, probe.db, {c.key}, t, TRUE, TRUE) BY <1>3, LookedEffect
  <1> HIDE DEF end
  <1>8. Effect(d, hdel(d, c, ts).db, {c.key}, ts[Reads], TRUE, TRUE) BY <1>2, <1>6, <1>7, Clock
  <1> QED BY <1>8, EffectFits

\* A refusal may leave the hash that was created for it.
LEMMA HincrFits ==
    ASSUME NEW d, SoundDb(d), NEW c, Parsed(c), c.op \in {"HINCRBY", "HINCRBYFLOAT"},
           NEW n \in Nat, NEW ts \in Readings(n, MaxTime),
           NEW out, out \in hash_command(d, c, ts)
    PROVE  Fits(d, c, ts, out)
  <1>1. c.key \in Keys BY ParsedKey DEF SeveralKeys
  <1> DEFINE t == ts[4]
             got == get_or_create(d, c.key, ts[1], "hash")
             h == got.db[c.key].value.data
             cur == Current(h, c.field)
             sum == checked_add(Numeral(cur), c.incr)
             float == FloatSum(Numeral(cur), c.incr)
             grown(x) == Merged(h, [f \in {c.field} |-> Text(x)])
             chi == IF ~IsInt(cur) THEN Change(h, Err("not an integer"))
                    ELSE IF sum \notin I64 THEN Change(h, Err("overflow"))
                    ELSE Change(grown(sum), Integer(sum))
             chf == IF ~IsNumeral(cur) THEN Change(h, Err("not a float"))
                    ELSE IF Abs(float) = Inf THEN Change(h, Err("infinity"))
                    ELSE Change(grown(float), Bulk(Text(float)))
             end(ch) == After(got, "hash", c.key, Stored(got.db, c.key, "hash", ch))
  <1>2. out = end(chi) \/ out = end(chf)
    <2>1. CASE c.op = "HINCRBY"
      BY <2>1 DEF hash_command, hincrby, Creating, AndThen, After
    <2>2. CASE c.op = "HINCRBYFLOAT"
      BY <2>2 DEF hash_command, hincrbyfloat, Creating, AndThen, After
    <2> QED BY <2>1, <2>2
  <1>3. Made(d, c.key, t, "hash", got) BY <1>1, Make, Clock
  <1>4. \A x : DOMAIN grown(x) # {} BY DEF Merged
  <1> HIDE DEF grown, got
  <1>5. ASSUME NEW ch \in {chi, chf} PROVE IsError(ch.reply) \/ DOMAIN ch.data # {}
    <2>1. \/ \E what : ch = Change(h, Err(what))
          \/ \E x, r : ch = Change(grown(x), r)
      <3> HIDE DEF h, cur, sum, float
      <3> QED OBVIOUS
    <2>2. \A what : IsError(Change(h, Err(what)).reply) BY DEF Change, IsError, Err
    <2>3. \A x, r : Change(grown(x), r).data = grown(x) BY DEF Change
    <2> HIDE DEF chi, chf
    <2> QED BY <1>4, <2>1, <2>2, <2>3
  <1>6. ASSUME NEW ch \in {chi, chf} PROVE Fits(d, c, ts, end(ch))
    <2> HIDE DEF chi, chf
    <2>0. ts[Reads] = t BY Clock
    <2>1. CASE Reaches(got, "hash", c.key)
      <3>1. end(ch).reply = ch.reply BY <2>1 DEF After, Reaches, Stored, Answer
      <3>2. CASE IsError(ch.reply)
        <4>1. Effect(d, end(ch).db, {c.key}, t, TRUE, FALSE) BY <1>1, <1>3, HashStored
        <4> HIDE DEF end
        <4> QED BY <4>1, <2>0, <3>1, <3>2, EffectFits
      <3>3. CASE ~IsError(ch.reply)
        <4>1. DOMAIN ch.data # {} BY <3>3, <1>5
        <4>2. Effect(d, end(ch).db, {c.key}, t, TRUE, TRUE) BY <1>1, <1>3, <4>1, HashStored
        <4> HIDE DEF end
        <4> QED BY <4>2, <2>0, EffectFits
      <3> QED BY <3>2, <3>3
    <2>2. CASE ~Reaches(got, "hash", c.key)
      <3>1. Effect(d, end(ch).db, {c.key}, t, TRUE, TRUE) BY <1>1, <1>3, <2>2, MadeStored
      <3> HIDE DEF end
      <3> QED BY <3>1, <2>0, EffectFits
    <2> QED BY <2>1, <2>2
  <1> HIDE DEF chi, chf, end
  <1> QED BY <1>2, <1>6

LEMMA HashReads ==
    ASSUME NEW d, SoundDb(d), NEW c, Parsed(c),
           c.op \in {"HMGET", "HGETALL", "HLEN", "HEXISTS", "HSTRLEN", "HRANDFIELD"},
           NEW n \in Nat, NEW ts \in Readings(n, MaxTime), NEW out \in hash_command(d, c, ts)
    PROVE  Fits(d, c, ts, out)
  <1>0. c.key \in Keys BY ParsedKey DEF SeveralKeys
  <1>1. CASE c.op = "HMGET"
    <2>1. out = hmget(d, c, ts) BY <1>1 DEF hash_command
    <2>2. out.db = purge_if_expired(d, c.key, ts[1])
      BY <2>1 DEF hmget, Reading, AndThen, typed_get, Answer
    <2> QED BY <2>2, <1>0, ReadFits
  <1>2. CASE c.op = "HGETALL"
    <2>1. out = hgetall(d, c, ts) BY <1>2 DEF hash_command
    <2>2. out.db = purge_if_expired(d, c.key, ts[1])
      BY <2>1 DEF hgetall, Reading, AndThen, typed_get, Answer
    <2> QED BY <2>2, <1>0, ReadFits
  <1>3. CASE c.op = "HLEN"
    <2>1. out = hlen(d, c, ts) BY <1>3 DEF hash_command
    <2>2. out.db = purge_if_expired(d, c.key, ts[1])
      BY <2>1 DEF hlen, Reading, AndThen, typed_get, Answer
    <2> QED BY <2>2, <1>0, ReadFits
  <1>4. CASE c.op = "HEXISTS"
    <2>1. out = hexists(d, c, ts) BY <1>4 DEF hash_command
    <2>2. out.db = purge_if_expired(d, c.key, ts[1])
      BY <2>1 DEF hexists, Reading, AndThen, typed_get, Answer
    <2> QED BY <2>2, <1>0, ReadFits
  <1>5. CASE c.op = "HSTRLEN"
    <2>1. out = hstrlen(d, c, ts) BY <1>5 DEF hash_command
    <2>2. out.db = purge_if_expired(d, c.key, ts[1])
      BY <2>1 DEF hstrlen, Reading, AndThen, typed_get, Answer
    <2> QED BY <2>2, <1>0, ReadFits
  <1>6. CASE c.op = "HRANDFIELD"
    <2>1. out \in hrandfield(d, c, ts) BY <1>6 DEF hash_command
    <2>2. out.db = typed_get(d, c.key, ts[1], "hash", Found(Fresh.hash)).db
      <3> DEFINE probe == typed_get(d, c.key, ts[1], "hash", Found(Fresh.hash))
      <3>1. out = probe \/ \E r : out = Answer(probe.db, r) BY <2>1, SMTT(20) DEF hrandfield
      <3> HIDE DEF probe
      <3>2. out.db = probe.db BY <3>1 DEF Answer
      <3> QED BY <3>2 DEF probe
    <2>3. out.db = purge_if_expired(d, c.key, ts[1]) BY <2>2 DEF typed_get, Answer
    <2> QED BY <2>3, <1>0, ReadFits
  <1> QED BY <1>1, <1>2, <1>3, <1>4, <1>5, <1>6

\* Every hash command.
LEMMA HashCommandFits ==
    ASSUME NEW d, SoundDb(d), NEW c, Parsed(c), c.op \in HashHandlers,
           NEW n \in Nat, NEW ts \in Readings(n, MaxTime), NEW out \in hash_command(d, c, ts)
    PROVE  Fits(d, c, ts, out)
  <1>1. CASE c.op = "HSET" BY <1>1, HsetFits DEF hash_command
  <1>2. CASE c.op = "HSETNX" BY <1>2, HsetnxFits DEF hash_command
  <1>3. CASE c.op = "HDEL" BY <1>3, HdelFits DEF hash_command
  <1>4. CASE c.op \in {"HINCRBY", "HINCRBYFLOAT"} BY <1>4, HincrFits
  <1>5. CASE c.op \in {"HMGET", "HGETALL", "HLEN", "HEXISTS", "HSTRLEN", "HRANDFIELD"}
    BY <1>5, HashReads
  <1> QED BY <1>1, <1>2, <1>3, <1>4, <1>5 DEF HashHandlers

-----------------------------------------------------------------------------
(* Sorted sets: the index holds exactly the scores, through every change. *)

LEMMA HeldZset ==
    ASSUME NEW z, ZsetOK(z)
    PROVE  Sound(Held("zset", z))
  BY DEF Sound, Held

LEMMA ZsetHeld ==
    ASSUME NEW v, Sound(v), v.type = "zset"
    PROVE  ZsetOK(v.data)
  BY DEF Sound

\* ZSet::insert keeps the index and the scores of one another.
LEMMA InsertZset ==
    ASSUME NEW z, ZsetOK(z), NEW m \in Int, NEW s \in Int
    PROVE  ZsetOK(insert(z, m, s))
  <1> DEFINE y == insert(z, m, s)
             dom == DOMAIN z.scores \cup {m}
  <1>1. /\ y.scores = [x \in dom |-> IF x = m THEN s ELSE z.scores[x]]
        /\ y.sorted = {e \in z.sorted : ~(m \in DOMAIN z.scores /\ e = <<z.scores[m], m>>)}
                      \cup {<<s, m>>}
    BY DEF insert, Merged
  <1>0. y = [scores |-> y.scores, sorted |-> y.sorted] BY DEF insert
  <1> HIDE DEF y
  <1>2. DOMAIN y.scores = dom /\ dom \subseteq Int /\ y.scores \in [dom -> Int]
    BY <1>1 DEF ZsetOK
  <1>3. y.sorted \subseteq {<<y.scores[x], x>> : x \in DOMAIN y.scores}
    <2> SUFFICES ASSUME NEW e \in y.sorted PROVE \E x \in DOMAIN y.scores : e = <<y.scores[x], x>>
      OBVIOUS
    <2>1. CASE e = <<s, m>> BY <2>1, <1>1, <1>2
    <2>2. CASE e # <<s, m>>
      <3>1. PICK x \in DOMAIN z.scores : e = <<z.scores[x], x>> BY <2>2, <1>1 DEF ZsetOK
      <3>2. x # m BY <3>1, <2>2, <1>1
      <3> QED BY <3>1, <3>2, <1>1, <1>2
    <2> QED BY <2>1, <2>2
  <1>4. {<<y.scores[x], x>> : x \in DOMAIN y.scores} \subseteq y.sorted
    <2> SUFFICES ASSUME NEW x \in dom PROVE <<y.scores[x], x>> \in y.sorted BY <1>2
    <2>1. CASE x = m BY <2>1, <1>1
    <2>2. CASE x # m
      <3>1. y.scores[x] = z.scores[x] /\ x \in DOMAIN z.scores BY <2>2, <1>1
      <3>2. <<z.scores[x], x>> \in z.sorted BY <3>1 DEF ZsetOK
      <3> QED BY <3>1, <3>2, <2>2, <1>1
    <2> QED BY <2>1, <2>2
  <1>5. ZsetOK(y) BY <1>0, <1>2, <1>3, <1>4 DEF ZsetOK
  <1> QED BY <1>5 DEF y

\* ZSet::remove does too.
LEMMA DroppedZset ==
    ASSUME NEW z, ZsetOK(z), NEW ms
    PROVE  ZsetOK(Dropped(z, ms))
  <1> DEFINE y == Dropped(z, ms)
             dom == DOMAIN z.scores \ ms
  <1>1. /\ y.scores = [x \in dom |-> z.scores[x]]
        /\ y.sorted = z.sorted \ {<<z.scores[m], m>> : m \in ms \cap DOMAIN z.scores}
    BY DEF Dropped, Without, Restrict
  <1>0. y = [scores |-> y.scores, sorted |-> y.sorted] BY DEF Dropped
  <1> HIDE DEF y
  <1>2. DOMAIN y.scores = dom /\ dom \subseteq Int /\ y.scores \in [dom -> Int]
    BY <1>1 DEF ZsetOK
  <1>3. y.sorted \subseteq {<<y.scores[x], x>> : x \in DOMAIN y.scores}
    <2> SUFFICES ASSUME NEW e \in y.sorted PROVE \E x \in DOMAIN y.scores : e = <<y.scores[x], x>>
      OBVIOUS
    <2>1. PICK x \in DOMAIN z.scores : e = <<z.scores[x], x>> BY <1>1 DEF ZsetOK
    <2>2. x \notin ms BY <2>1, <1>1
    <2> QED BY <2>1, <2>2, <1>1, <1>2
  <1>4. {<<y.scores[x], x>> : x \in DOMAIN y.scores} \subseteq y.sorted
    <2> SUFFICES ASSUME NEW x \in dom PROVE <<y.scores[x], x>> \in y.sorted BY <1>2
    <2>1. <<z.scores[x], x>> \in z.sorted BY DEF ZsetOK
    <2>2. \A m \in ms : <<z.scores[x], x>> # <<z.scores[m], m>> OBVIOUS
    <2> QED BY <2>1, <2>2, <1>1
  <1>5. ZsetOK(y) BY <1>0, <1>2, <1>3, <1>4 DEF ZsetOK
  <1> QED BY <1>5 DEF y

LEMMA FloatSumInt ==
    ASSUME NEW a \in Int, NEW b \in Int
    PROVE  FloatSum(a, b) \in Int
  <1>1. Inf \in Int /\ -Inf \in Int BY ValuesAssumption DEF Inf
  <1> HIDE DEF Inf
  <1>2. Min({Inf, a + b}) \in Int BY <1>1, MinTwo
  <1>3. Max({-Inf, Min({Inf, a + b})}) \in Int BY <1>1, <1>2, MaxTwo
  <1> QED BY <1>3 DEF FloatSum

ZsetRecord == [scores : UNION {[D -> Int] : D \in SUBSET Int}, sorted : SUBSET (Int \X Int)]

\* What ZADD carries from one pair to the next.
ZAddAcc == [z : {z \in ZsetRecord : ZsetOK(z)}, added : Int, changed : Int,
            result : {Null} \cup {Bulk(s) : s \in Int}, nan : BOOLEAN]

LEMMA ZsetIsRecord ==
    ASSUME NEW z, ZsetOK(z)
    PROVE  z \in ZsetRecord
  <1>1. z.scores \in [DOMAIN z.scores -> Int] /\ DOMAIN z.scores \in SUBSET Int BY DEF ZsetOK
  <1>2. z.scores \in UNION {[D -> Int] : D \in SUBSET Int} BY <1>1
  <1>3. z.sorted \subseteq Int \X Int
    <2> SUFFICES ASSUME NEW m \in DOMAIN z.scores PROVE <<z.scores[m], m>> \in Int \X Int
      BY DEF ZsetOK
    <2> QED BY <1>1
  <1> QED BY <1>2, <1>3 DEF ZsetOK, ZsetRecord

\* One pair of ZADD, with its flags.
LEMMA ZAddPairTyped ==
    ASSUME NEW acc \in ZAddAcc, NEW pair \in Int \X Int, NEW opts
    PROVE  ZAddPair(acc, pair, opts) \in ZAddAcc
  <1> DEFINE m == pair[2]
             exists == m \in DOMAIN acc.z.scores
             current == IF exists THEN acc.z.scores[m] ELSE 0
             score == IF "INCR" \in opts THEN FloatSum(current, pair[1]) ELSE pair[1]
             new == [acc EXCEPT !.z = insert(@, m, score),
                         !.added = IF exists THEN @ ELSE @ + 1,
                         !.changed = IF exists /\ score = current THEN @ ELSE @ + 1,
                         !.result = IF "INCR" \in opts THEN Bulk(score) ELSE @]
  <1>1. ZAddPair(acc, pair, opts) \in {acc, [acc EXCEPT !.nan = TRUE], new}
    BY DEF ZAddPair
  <1>2. ZsetOK(acc.z) /\ m \in Int /\ pair[1] \in Int BY DEF ZAddAcc
  <1>3. current \in Int BY <1>2 DEF ZsetOK
  <1> HIDE DEF current
  <1>4. score \in Int BY <1>2, <1>3, FloatSumInt
  <1> HIDE DEF m, score
  <1>5. insert(acc.z, m, score) \in {z \in ZsetRecord : ZsetOK(z)}
    BY <1>2, <1>4, InsertZset, ZsetIsRecord
  <1>6. new \in ZAddAcc
    <2> HIDE DEF exists
    <2> DEFINE Z == {z \in ZsetRecord : ZsetOK(z)}
               R == {Null} \cup {Bulk(s) : s \in Int}
               z1 == insert(acc.z, m, score)
               added == IF exists THEN acc.added ELSE acc.added + 1
               changed == IF exists /\ score = current THEN acc.changed ELSE acc.changed + 1
               result == IF "INCR" \in opts THEN Bulk(score) ELSE acc.result
    <2>1. ZAddAcc = [z : Z, added : Int, changed : Int, result : R, nan : BOOLEAN] BY DEF ZAddAcc
    <2>2. Bulk(score) \in R BY <1>4
    <2>3. z1 \in Z BY <1>5
    <2> HIDE DEF Z, R, z1
    <2>4. acc.added \in Int /\ acc.changed \in Int /\ acc.result \in R BY <2>1
    <2>5. added \in Int /\ changed \in Int /\ result \in R BY <2>2, <2>4
    <2>6. new = [acc EXCEPT !.z = z1, !.added = added, !.changed = changed, !.result = result]
      BY DEF z1
    <2> HIDE DEF new, added, changed, result
    <2> QED BY <2>1, <2>3, <2>5, <2>6
  <1>7. [acc EXCEPT !.nan = TRUE] \in ZAddAcc BY DEF ZAddAcc
  <1> HIDE DEF new
  <1> QED BY <1>1, <1>6, <1>7

ZAddAll(base, pairs, opts) ==
    FoldLeft(LAMBDA acc, pair : ZAddPair(acc, pair, opts), base, pairs)

\* All pairs of ZADD, one after the other.
LEMMA ZAddFold ==
    ASSUME NEW base \in ZAddAcc, NEW pairs \in Seq(Int \X Int), NEW opts
    PROVE  ZAddAll(base, pairs, opts) \in ZAddAcc
  <1> DEFINE N == Len(pairs)
             A == ZAddAcc
             Def(g) == g = [s \in SUBSET (1 .. N) |->
                               IF s = {} THEN base
                               ELSE ZAddPair(g[s \ {Max(s)}], pairs[Max(s)], opts)]
             it == CHOOSE g : Def(g)
             st == [p \in A \X (1 .. N) |-> ZAddPair(p[1], pairs[p[2]], opts)]
  <1>1. DOMAIN pairs = 1 .. N /\ N \in Nat /\ \A i \in 1 .. N : pairs[i] \in Int \X Int OBVIOUS
  <1>2. ZAddAll(base, pairs, opts) = it[1 .. N]
    BY <1>1 DEF ZAddAll, FoldLeft, MapThenFoldSet
  <1>3. st \in [A \X (1 .. N) -> A]
    <2> SUFFICES ASSUME NEW p \in A \X (1 .. N) PROVE ZAddPair(p[1], pairs[p[2]], opts) \in A
      OBVIOUS
    <2> QED BY <1>1, ZAddPairTyped
  <1>4. \E g : Def(g)
    <2>0. PICK g : IsFold(g, A, base, N, st)
      <3>1. base \in A OBVIOUS
      <3> HIDE DEF st, A, N
      <3> QED BY <1>1, <1>3, <3>1, FoldExists
    <2>1. /\ g \in [SUBSET (1 .. N) -> A]
          /\ \A s \in SUBSET (1 .. N) :
                 g[s] = IF s = {} THEN base ELSE st[<<g[s \ {Max(s)}], Max(s)>>]
      <3> HIDE DEF st
      <3> QED BY <2>0 DEF IsFold
    <2>2. ASSUME NEW s \in SUBSET (1 .. N), s # {}
          PROVE  st[<<g[s \ {Max(s)}], Max(s)>>] = ZAddPair(g[s \ {Max(s)}], pairs[Max(s)], opts)
      <3>1. Max(s) \in 1 .. N /\ s \ {Max(s)} \in SUBSET (1 .. N) BY <1>1, <2>2, Positions
      <3>2. <<g[s \ {Max(s)}], Max(s)>> \in A \X (1 .. N) BY <2>1, <3>1
      <3> QED BY <3>2
    <2>3. Def(g)
      <3> HIDE DEF st
      <3> QED BY <2>1, <2>2
    <2> QED BY <2>3
  <1>5. Def(it)
    <2> HIDE DEF Def
    <2> QED BY <1>4
  <1> HIDE DEF it, st
  <1>6. it[{}] \in A
    <2>1. {} \in SUBSET (1 .. N) OBVIOUS
    <2> QED BY <1>5, <2>1
  <1>7. ASSUME NEW s \in SUBSET (1 .. N), s # {}, it[s \ {Max(s)}] \in A PROVE it[s] \in A
    <2>1. Max(s) \in 1 .. N BY <1>1, <1>7, Positions
    <2>2. it[s] = ZAddPair(it[s \ {Max(s)}], pairs[Max(s)], opts) BY <1>5, <1>7
    <2> QED BY <1>1, <1>7, <2>1, <2>2, ZAddPairTyped
  <1>8. it[1 .. N] \in A
    <2> HIDE DEF A, N, Def
    <2> QED BY <1>1, <1>6, <1>7, FoldClosed
  <1> QED BY <1>2, <1>8

LEMMA ZsetMade ==
    ASSUME NEW d, SoundDb(d), NEW k \in Keys, NEW t, NEW got, Made(d, k, t, "zset", got),
           NEW ch, ZsetOK(got.db[k].value.data) => ZsetOK(ch.data)
    PROVE  Effect(d, After(got, "zset", k, Trimmed(got.db, k, "zset", ch)).db, {k}, t, TRUE, TRUE)
  <1>1. ASSUME Reaches(got, "zset", k) PROVE Sound(Held("zset", ch.data))
    <2>1. Sound(got.db[k].value) BY <1>1, MadeSound
    <2>2. ZsetOK(ch.data) BY <1>1, <2>1, ZsetHeld DEF Reaches
    <2> QED BY <2>2, HeldZset
  <1> QED BY <1>1, MadeTrimmed

\* ZADD.
LEMMA ZaddFits ==
    ASSUME NEW d, SoundDb(d), NEW c, Parsed(c), c.op = "ZADD",
           NEW n \in Nat, NEW ts \in Readings(n, MaxTime)
    PROVE  Fits(d, c, ts, zadd(d, c, ts))
  <1>1. c.key \in Keys /\ c.pairs \in Seq(Int \X Int) BY DEF Parsed, SeveralKeys
  <1> DEFINE t == ts[4]
             opts == c.opts
             got == get_or_create(d, c.key, ts[1], "zset")
             z0 == got.db[c.key].value.data
             start(z) == [z |-> z, added |-> 0, changed |-> 0, result |-> Null, nan |-> FALSE]
             last == ZAddAll(start(z0), c.pairs, opts)
             ch == Change(last.z, IF last.nan THEN Err("nan")
                                  ELSE IF "INCR" \in opts THEN last.result
                                  ELSE Integer(IF "CH" \in opts THEN last.changed ELSE last.added))
             end == After(got, "zset", c.key, Trimmed(got.db, c.key, "zset", ch))
  <1>2. zadd(d, c, ts) = Answer(d, Err("syntax")) \/ zadd(d, c, ts) = end
    BY Zenon DEF zadd, Culling, AndThen, After, ZAddAll
  <1>3. Made(d, c.key, t, "zset", got) BY <1>1, Make, Clock
  <1>4. ASSUME ZsetOK(z0) PROVE ZsetOK(last.z)
    <2> HIDE DEF z0
    <2>1. start(z0) \in ZAddAcc BY <1>4, ZsetIsRecord DEF ZAddAcc
    <2> HIDE DEF start, opts
    <2>2. last \in ZAddAcc BY <1>1, <2>1, ZAddFold
    <2> HIDE DEF last
    <2> QED BY <2>2 DEF ZAddAcc
  <1>5. ch.data = last.z
    <2> HIDE DEF last
    <2> QED BY DEF Change
  <1> HIDE DEF got, ch, last
  <1>6. Effect(d, end.db, {c.key}, t, TRUE, TRUE) BY <1>1, <1>3, <1>4, <1>5, ZsetMade
  <1>7. Effect(d, Answer(d, Err("syntax")).db, {c.key}, t, TRUE, TRUE) BY NoEffect DEF Answer
  <1> HIDE DEF end
  <1>8. Effect(d, zadd(d, c, ts).db, {c.key}, ts[Reads], TRUE, TRUE) BY <1>2, <1>6, <1>7, Clock
  <1> QED BY <1>8, EffectFits

\* ZINCRBY.
LEMMA ZincrbyFits ==
    ASSUME NEW d, SoundDb(d), NEW c, Parsed(c), c.op = "ZINCRBY",
           NEW n \in Nat, NEW ts \in Readings(n, MaxTime)
    PROVE  Fits(d, c, ts, zincrby(d, c, ts))
  <1>1. c.key \in Keys /\ c.member \in Int /\ c.incr \in Int BY DEF Parsed, SeveralKeys
  <1> DEFINE t == ts[4]
             got == get_or_create(d, c.key, ts[1], "zset")
             z == got.db[c.key].value.data
             current == IF c.member \in DOMAIN z.scores THEN z.scores[c.member] ELSE 0
             new == FloatSum(current, c.incr)
             ch == IF SumIsNan(current, c.incr) THEN Change(z, Err("nan"))
                   ELSE Change(insert(z, c.member, new), Bulk(new))
             end == After(got, "zset", c.key, Trimmed(got.db, c.key, "zset", ch))
  <1>2. zincrby(d, c, ts) = end BY DEF zincrby, Culling, AndThen, After
  <1>3. Made(d, c.key, t, "zset", got) BY <1>1, Make, Clock
  <1>4. ch.data = IF SumIsNan(current, c.incr) THEN z ELSE insert(z, c.member, new) BY DEF Change
  <1> HIDE DEF got, ch
  <1>5. ASSUME ZsetOK(z) PROVE ZsetOK(ch.data)
    <2> HIDE DEF z
    <2>1. current \in Int BY <1>5 DEF ZsetOK
    <2> HIDE DEF current
    <2>2. new \in Int BY <1>1, <2>1, FloatSumInt
    <2> HIDE DEF new
    <2>3. ZsetOK(insert(z, c.member, new)) BY <1>1, <1>5, <2>2, InsertZset
    <2> QED BY <1>4, <1>5, <2>3
  <1>6. Effect(d, end.db, {c.key}, t, TRUE, TRUE) BY <1>1, <1>3, <1>5, ZsetMade
  <1> HIDE DEF end
  <1>7. Effect(d, zincrby(d, c, ts).db, {c.key}, ts[Reads], TRUE, TRUE) BY <1>2, <1>6, Clock
  <1> QED BY <1>7, EffectFits

\* ZREM.
LEMMA ZremFits ==
    ASSUME NEW d, SoundDb(d), NEW c, Parsed(c), c.op = "ZREM",
           NEW n \in Nat, NEW ts \in Readings(n, MaxTime)
    PROVE  Fits(d, c, ts, zrem(d, c, ts))
  <1>1. c.key \in Keys BY ParsedKey DEF SeveralKeys
  <1> DEFINE t == ts[4]
             got == get_or_create(d, c.key, ts[1], "zset")
             z == got.db[c.key].value.data
             ch == Change(Dropped(z, c.members), Integer(Cardinality(c.members \cap DOMAIN z.scores)))
             end == After(got, "zset", c.key, Trimmed(got.db, c.key, "zset", ch))
  <1>2. zrem(d, c, ts) = end BY DEF zrem, Culling, AndThen, After
  <1>3. Made(d, c.key, t, "zset", got) BY <1>1, Make, Clock
  <1>4. ch.data = Dropped(z, c.members) BY DEF Change
  <1> HIDE DEF got, ch
  <1>5. ZsetOK(z) => ZsetOK(ch.data) BY <1>4, DroppedZset
  <1>6. Effect(d, end.db, {c.key}, t, TRUE, TRUE) BY <1>1, <1>3, <1>5, ZsetMade
  <1> HIDE DEF end
  <1>7. Effect(d, zrem(d, c, ts).db, {c.key}, ts[Reads], TRUE, TRUE) BY <1>2, <1>6, Clock
  <1> QED BY <1>7, EffectFits

\* Whatever the victims are.
LEMMA EvictedEffect ==
    ASSUME NEW d, SoundDb(d), NEW k \in Keys, NEW u \in Nat, NEW t \in Nat, u <= t,
           NEW victims, NEW reply
    PROVE  Effect(d, Evicted(d, k, u, victims, reply).db, {k}, t, TRUE, TRUE)
  <1> DEFINE got == get_or_create(d, k, u, "zset")
             z == got.db[k].value.data
             ms == {victims[i][Member] : i \in DOMAIN victims}
             ch == Change(Dropped(z, ms), reply)
  <1>1. Evicted(d, k, u, victims, reply) = After(got, "zset", k, Trimmed(got.db, k, "zset", ch))
    BY DEF Evicted, Culling, AndThen, After
  <1>2. Made(d, k, t, "zset", got) BY Make
  <1>3. ch.data = Dropped(z, ms)
    <2> HIDE DEF ms
    <2> QED BY DEF Change
  <1> HIDE DEF got, ch, ms
  <1>4. ZsetOK(z) => ZsetOK(ch.data) BY <1>3, DroppedZset
  <1> QED BY <1>1, <1>2, <1>4, ZsetMade

\* ZPOPMIN, ZPOPMAX and the two ZREMRANGE: a look, then the eviction.
LEMMA ProbedEvicted ==
    ASSUME NEW d, SoundDb(d), NEW k \in Keys, NEW n \in Nat, NEW ts \in Readings(n, MaxTime),
           NEW absent, NEW victims, NEW reply
    PROVE  LET probe == typed_get(d, k, ts[1], "zset", absent)
           IN  /\ Effect(d, probe.db, {k}, ts[Reads], TRUE, TRUE)
               /\ Effect(d, Evicted(probe.db, k, ts[2], victims, reply).db, {k}, ts[Reads], TRUE, TRUE)
  <1> DEFINE t == ts[4]
             probe == typed_get(d, k, ts[1], "zset", absent)
             end == Evicted(probe.db, k, ts[2], victims, reply)
  <1>1. Looked(d, k, t, "zset", absent, probe) BY Look, Clock
  <1> HIDE DEF probe
  <1>2. SoundDb(probe.db) /\ \A j \in Keys : Lapsed(d[j], probe.db[j], t)
    BY <1>1, LookedSound DEF Looked
  <1>3. Effect(probe.db, end.db, {k}, t, TRUE, TRUE) BY <1>2, EvictedEffect, Clock
  <1>4. Effect(d, end.db, {k}, t, TRUE, TRUE) BY <1>2, <1>3, LookThenEffect
  <1>5. Effect(d, probe.db, {k}, t, TRUE, TRUE) BY <1>1, LookedEffect
  <1> QED BY <1>4, <1>5, Clock DEF probe

\* ZPOPMIN, ZPOPMAX and the ZREMRANGE commands.
LEMMA ZevictFits ==
    ASSUME NEW d, SoundDb(d), NEW c, Parsed(c),
           c.op \in {"ZPOP", "ZREMRANGEBYRANK", "ZREMRANGEBYSCORE"},
           NEW n \in Nat, NEW ts \in Readings(n, MaxTime), NEW out \in zset_command(d, c, ts)
    PROVE  Fits(d, c, ts, out)
  <1>1. c.key \in Keys BY ParsedKey DEF SeveralKeys
  <1> DEFINE probe(absent) == typed_get(d, c.key, ts[1], "zset", absent)
  <1>2. \/ out.db = d
        \/ \E absent : out.db = probe(absent).db
        \/ \E absent, victims, reply :
              out = Evicted(probe(absent).db, c.key, ts[2], victims, reply)
    <2>1. CASE c.op = "ZPOP"
      <3>1. out = zpop(d, c, ts) BY <2>1 DEF zset_command
      <3> QED BY <3>1 DEF zpop, Answer
    <2>2. CASE c.op = "ZREMRANGEBYRANK"
      <3>1. out = zremrangebyrank(d, c, ts) BY <2>2 DEF zset_command
      <3> QED BY <3>1 DEF zremrangebyrank, Answer
    <2>3. CASE c.op = "ZREMRANGEBYSCORE"
      <3>1. out = zremrangebyscore(d, c, ts) BY <2>3 DEF zset_command
      <3> QED BY <3>1 DEF zremrangebyscore, Answer
    <2> QED BY <2>1, <2>2, <2>3
  <1>3. Effect(d, out.db, {c.key}, ts[Reads], TRUE, TRUE)
    <2>1. CASE out.db = d BY <2>1, NoEffect
    <2>2. CASE \E absent : out.db = probe(absent).db BY <1>1, <2>2, ProbedEvicted
    <2>3. CASE \E absent, victims, reply :
                  out = Evicted(probe(absent).db, c.key, ts[2], victims, reply)
      BY <1>1, <2>3, ProbedEvicted
    <2> QED BY <1>2, <2>1, <2>2, <2>3
  <1> QED BY <1>3, EffectFits

LEMMA ZsetReads ==
    ASSUME NEW d, SoundDb(d), NEW c, Parsed(c),
           c.op \in {"ZMSCORE", "ZCARD", "ZRANK", "ZCOUNT", "ZLEXCOUNT", "ZRANGE", "ZRANGEBYSCORE",
                    "ZRANGEBYLEX", "ZSCAN", "ZRANDMEMBER"},
           NEW n \in Nat, NEW ts \in Readings(n, MaxTime), NEW out \in zset_command(d, c, ts)
    PROVE  Fits(d, c, ts, out)
  <1>0. c.key \in Keys BY ParsedKey DEF SeveralKeys
  <1>1. CASE c.op = "ZMSCORE"
    <2>1. out = zmscore(d, c, ts) BY <1>1 DEF zset_command
    <2>2. out.db = purge_if_expired(d, c.key, ts[1])
      BY <2>1 DEF zmscore, Reading, AndThen, typed_get, Answer
    <2> QED BY <2>2, <1>0, ReadFits
  <1>2. CASE c.op = "ZCARD"
    <2>1. out = zcard(d, c, ts) BY <1>2 DEF zset_command
    <2>2. out.db = purge_if_expired(d, c.key, ts[1])
      BY <2>1 DEF zcard, Reading, AndThen, typed_get, Answer
    <2> QED BY <2>2, <1>0, ReadFits
  <1>3. CASE c.op = "ZRANK"
    <2>1. out = zrank(d, c, ts) BY <1>3 DEF zset_command
    <2>2. out.db = purge_if_expired(d, c.key, ts[1])
      BY <2>1 DEF zrank, Reading, AndThen, typed_get, Answer
    <2> QED BY <2>2, <1>0, ReadFits
  <1>4. CASE c.op = "ZCOUNT"
    <2>1. out = zcount(d, c, ts) BY <1>4 DEF zset_command
    <2>2. out.db = purge_if_expired(d, c.key, ts[1])
      BY <2>1 DEF zcount, Reading, AndThen, typed_get, Answer
    <2> QED BY <2>2, <1>0, ReadFits
  <1>5. CASE c.op = "ZLEXCOUNT"
    <2>1. out = zlexcount(d, c, ts) BY <1>5 DEF zset_command
    <2>2. out.db = purge_if_expired(d, c.key, ts[1])
      BY <2>1 DEF zlexcount, Reading, AndThen, typed_get, Answer
    <2> QED BY <2>2, <1>0, ReadFits
  <1>6. CASE c.op = "ZRANGE"
    <2>1. out = zrange(d, c, ts) BY <1>6 DEF zset_command
    <2>2. out.db \in {d, purge_if_expired(d, c.key, ts[1])}
      BY <2>1 DEF zrange, Reading, AndThen, typed_get, Answer
    <2> QED BY <2>2, <1>0, ReadFits
  <1>7. CASE c.op = "ZRANGEBYSCORE"
    <2>1. out = zrangebyscore(d, c, ts) BY <1>7 DEF zset_command
    <2>2. out.db = purge_if_expired(d, c.key, ts[1])
      BY <2>1 DEF zrangebyscore, Reading, AndThen, typed_get, Answer
    <2> QED BY <2>2, <1>0, ReadFits
  <1>8. CASE c.op = "ZRANGEBYLEX"
    <2>1. out = zrangebylex(d, c, ts) BY <1>8 DEF zset_command
    <2>2. out.db = purge_if_expired(d, c.key, ts[1])
      BY <2>1 DEF zrangebylex, Reading, AndThen, typed_get, Answer
    <2> QED BY <2>2, <1>0, ReadFits
  <1>9. CASE c.op = "ZSCAN"
    <2>1. out = zscan(d, c, ts) BY <1>9 DEF zset_command
    <2>2. out.db = purge_if_expired(d, c.key, ts[1])
      BY <2>1 DEF zscan, Reading, AndThen, typed_get, Answer
    <2> QED BY <2>2, <1>0, ReadFits
  <1>10. CASE c.op = "ZRANDMEMBER"
    <2>1. out \in zrandmember(d, c, ts) BY <1>10 DEF zset_command
    <2>2. out.db = typed_get(d, c.key, ts[1], "zset", Found(Fresh.zset)).db
      <3> DEFINE probe == typed_get(d, c.key, ts[1], "zset", Found(Fresh.zset))
      <3>1. out = probe \/ \E r : out = Answer(probe.db, r) BY <2>1, SMTT(20) DEF zrandmember
      <3> HIDE DEF probe
      <3>2. out.db = probe.db BY <3>1 DEF Answer
      <3> QED BY <3>2 DEF probe
    <2>3. out.db = purge_if_expired(d, c.key, ts[1]) BY <2>2 DEF typed_get, Answer
    <2> QED BY <2>3, <1>0, ReadFits
  <1> QED BY <1>1, <1>2, <1>3, <1>4, <1>5, <1>6, <1>7, <1>8, <1>9, <1>10

\* Every sorted set command.
LEMMA ZsetCommandFits ==
    ASSUME NEW d, SoundDb(d), NEW c, Parsed(c), c.op \in ZsetHandlers,
           NEW n \in Nat, NEW ts \in Readings(n, MaxTime), NEW out \in zset_command(d, c, ts)
    PROVE  Fits(d, c, ts, out)
  <1>1. CASE c.op = "ZADD" BY <1>1, ZaddFits DEF zset_command
  <1>2. CASE c.op = "ZINCRBY" BY <1>2, ZincrbyFits DEF zset_command
  <1>3. CASE c.op = "ZREM" BY <1>3, ZremFits DEF zset_command
  <1>4. CASE c.op \in {"ZPOP", "ZREMRANGEBYRANK", "ZREMRANGEBYSCORE"} BY <1>4, ZevictFits
  <1>5. CASE c.op \in {"ZMSCORE", "ZCARD", "ZRANK", "ZCOUNT", "ZLEXCOUNT", "ZRANGE", "ZRANGEBYSCORE",
                       "ZRANGEBYLEX", "ZSCAN", "ZRANDMEMBER"}
    BY <1>5, ZsetReads
  <1> QED BY <1>1, <1>2, <1>3, <1>4, <1>5 DEF ZsetHandlers

-----------------------------------------------------------------------------
(* Bytes and numerals *)

LEMMA Powers == \A b \in 0 .. ByteBits : 2 ^ b \in Nat /\ 2 ^ b >= 1
  <1> DEFINE T == {n \in Nat : n <= ByteBits => 2 ^ n \in Nat /\ 2 ^ n >= 1}
  <1>1. 0 \in T BY PowersAssumption
  <1>2. ASSUME NEW n \in Nat, n \in T PROVE n + 1 \in T
    <2>1. CASE n + 1 <= ByteBits
      <3>1. n \in 0 .. ByteBits - 1 BY <2>1, ValuesAssumption
      <3>2. 2 ^ (n + 1) = 2 * 2 ^ n BY <3>1, PowersAssumption
      <3>3. 2 ^ n \in Nat /\ 2 ^ n >= 1 BY <1>2, <2>1, ValuesAssumption
      <3>4. 2 * 2 ^ n \in Nat /\ 2 * 2 ^ n >= 1 BY <3>3
      <3> QED BY <3>2, <3>4
    <2> QED BY <2>1
  <1>3. \A n \in Nat : n \in T
    <2> HIDE DEF T
    <2> QED BY <1>1, <1>2, Induction
  <1> QED BY <1>3, ValuesAssumption

Byte == 0 .. 2 ^ ByteBits - 1

LEMMA SmallBytes == {0, 1, 2} \subseteq Byte
  <1>1. ByteBits - 1 \in 0 .. ByteBits - 1 /\ ByteBits - 2 \in 0 .. ByteBits - 1
        /\ (ByteBits - 1) + 1 = ByteBits /\ (ByteBits - 2) + 1 = ByteBits - 1
    BY ValuesAssumption
  <1>2. 2 ^ ByteBits = 2 * 2 ^ (ByteBits - 1) /\ 2 ^ (ByteBits - 1) = 2 * 2 ^ (ByteBits - 2)
    BY <1>1, PowersAssumption
  <1>3. 2 ^ (ByteBits - 2) \in Nat /\ 2 ^ (ByteBits - 2) >= 1
    <2>1. ByteBits - 2 \in 0 .. ByteBits BY ValuesAssumption
    <2> QED BY <2>1, Powers
  <1>4. 2 ^ ByteBits \in Nat /\ 2 ^ ByteBits >= 4 BY <1>2, <1>3
  <1> QED BY <1>4 DEF Byte

\* The value of n binary digits, as a fold over their positions.
DigitsFold(g, N, f) ==
    g = [s \in SUBSET (1 .. N) |-> IF s = {} THEN 0 ELSE 2 * g[s \ {Max(s)}] + f[Max(s)]]

LEMMA DigitsExist ==
    ASSUME NEW N \in Nat, NEW f \in [1 .. N -> {0, 1}]
    PROVE  \E g : DigitsFold(g, N, f)
  <1> DEFINE st == [p \in Nat \X (1 .. N) |-> 2 * p[1] + f[p[2]]]
  <1>1. st \in [Nat \X (1 .. N) -> Nat]
    <2> SUFFICES ASSUME NEW p \in Nat \X (1 .. N) PROVE 2 * p[1] + f[p[2]] \in Nat OBVIOUS
    <2>1. p[1] \in Nat /\ p[2] \in 1 .. N OBVIOUS
    <2>2. f[p[2]] \in Nat BY <2>1
    <2> QED BY <2>1, <2>2
  <1>2. PICK g : IsFold(g, Nat, 0, N, st)
    <2> HIDE DEF st
    <2> QED BY <1>1, FoldExists
  <1>3. /\ g \in [SUBSET (1 .. N) -> Nat]
        /\ \A s \in SUBSET (1 .. N) :
              g[s] = IF s = {} THEN 0 ELSE st[<<g[s \ {Max(s)}], Max(s)>>]
    <2> HIDE DEF st
    <2> QED BY <1>2 DEF IsFold
  <1>4. ASSUME NEW s \in SUBSET (1 .. N), s # {}
        PROVE  st[<<g[s \ {Max(s)}], Max(s)>>] = 2 * g[s \ {Max(s)}] + f[Max(s)]
    <2>1. Max(s) \in 1 .. N /\ s \ {Max(s)} \in SUBSET (1 .. N) BY <1>4, Positions
    <2>2. <<g[s \ {Max(s)}], Max(s)>> \in Nat \X (1 .. N) BY <1>3, <2>1
    <2> QED BY <2>2
  <1>5. DigitsFold(g, N, f)
    <2> HIDE DEF st
    <2> QED BY <1>3, <1>4 DEF DigitsFold
  <1> QED BY <1>5

LEMMA DigitsNat ==
    ASSUME NEW N \in Nat, NEW f \in [1 .. N -> {0, 1}], NEW g, DigitsFold(g, N, f)
    PROVE  g[1 .. N] \in Nat
  <1>1. g[{}] \in Nat
    <2>1. {} \in SUBSET (1 .. N) OBVIOUS
    <2> QED BY <2>1 DEF DigitsFold
  <1>2. ASSUME NEW s \in SUBSET (1 .. N), s # {}, g[s \ {Max(s)}] \in Nat PROVE g[s] \in Nat
    <2>1. Max(s) \in 1 .. N BY <1>2, Positions
    <2>2. g[s] = 2 * g[s \ {Max(s)}] + f[Max(s)] BY <1>2 DEF DigitsFold
    <2>3. f[Max(s)] \in Nat BY <2>1
    <2> QED BY <1>2, <2>2, <2>3
  <1> QED BY <1>1, <1>2, FoldClosed

\* ByteBits digits make a byte.
LEMMA DigitsByte ==
    ASSUME NEW f \in [1 .. ByteBits -> {0, 1}], NEW g, DigitsFold(g, ByteBits, f)
    PROVE  g[1 .. ByteBits] \in Byte
  <1> DEFINE T == {n \in Nat : n <= ByteBits => g[1 .. n] \in Nat /\ g[1 .. n] <= 2 ^ n - 1}
  <1>1. 0 \in T
    <2>1. 1 .. 0 = {} /\ {} \in SUBSET (1 .. ByteBits) OBVIOUS
    <2>2. g[1 .. 0] = 0 BY <2>1 DEF DigitsFold
    <2> QED BY <2>2, PowersAssumption
  <1>2. ASSUME NEW n \in Nat, n \in T PROVE n + 1 \in T
    <2>1. CASE n + 1 <= ByteBits
      <3>1. n \in 0 .. ByteBits - 1 /\ n \in 0 .. ByteBits /\ n + 1 \in 1 .. ByteBits
        BY <2>1, ValuesAssumption
      <3>2. 2 ^ (n + 1) = 2 * 2 ^ n /\ 2 ^ n \in Nat BY <3>1, PowersAssumption, Powers
      <3>3. g[1 .. n] \in Nat /\ g[1 .. n] <= 2 ^ n - 1 BY <1>2, <3>1
      <3>4. /\ (1 .. (n + 1)) \ {Max(1 .. (n + 1))} = 1 .. n
            /\ 1 .. (n + 1) # {} /\ Max(1 .. (n + 1)) = n + 1
        BY Positions
      <3>5. \A x \in 1 .. (n + 1) : x \in 1 .. ByteBits BY <3>1, ValuesAssumption
      <3>6. 1 .. (n + 1) \in SUBSET (1 .. ByteBits) BY <3>5
      <3>7. g[1 .. (n + 1)] = 2 * g[1 .. n] + f[n + 1] BY <3>4, <3>6 DEF DigitsFold
      <3>8. f[n + 1] \in {0, 1} BY <3>1
      <3>9. g[1 .. (n + 1)] \in Nat /\ g[1 .. (n + 1)] <= 2 * 2 ^ n - 1
        <4> DEFINE a == g[1 .. n]
                   p == 2 ^ n
        <4>1. a \in Nat /\ p \in Nat /\ a <= p - 1 BY <3>2, <3>3
        <4>2. g[1 .. (n + 1)] = 2 * a + f[n + 1] BY <3>7
        <4> HIDE DEF a, p
        <4>3. g[1 .. (n + 1)] \in Nat /\ g[1 .. (n + 1)] <= 2 * p - 1 BY <3>8, <4>1, <4>2
        <4> QED BY <4>3 DEF p
      <3> QED BY <3>2, <3>9
    <2> QED BY <2>1
  <1>3. ByteBits \in T
    <2> HIDE DEF T
    <2> QED BY <1>1, <1>2, Induction, ValuesAssumption
  <1>4. ByteBits \in 0 .. ByteBits /\ ByteBits \in Nat BY ValuesAssumption
  <1>5. 2 ^ ByteBits \in Nat BY <1>4, Powers
  <1> QED BY <1>3, <1>4, <1>5 DEF Byte

\* Binary up to n.
BinaryUpTo(h, n) ==
    /\ h \in [0 .. n -> Seq({0, 1})]
    /\ \A k \in 0 .. n : h[k] = IF k < 2 THEN <<k>> ELSE Append(h[k \div 2], k % 2)

\* Two of its solutions agree where both are defined.
LEMMA BinaryAgree ==
    ASSUME NEW m \in Nat, NEW n \in Nat, NEW g, NEW h, BinaryUpTo(g, m), BinaryUpTo(h, n),
           NEW k \in Nat, k <= m, k <= n
    PROVE  g[k] = h[k]
  <1> DEFINE T == {j \in Nat : j <= m /\ j <= n /\ g[j] # h[j]}
  <1> SUFFICES ASSUME T # {} PROVE FALSE OBVIOUS
  <1>1. PICK j \in T : \A i \in T : j <= i BY LeastNatural
  <1>2. j \in Nat /\ j <= m /\ j <= n /\ g[j] # h[j] BY <1>1
  <1>3. j \in 0 .. m /\ j \in 0 .. n BY <1>2
  <1>4. ~(j < 2) BY <1>2, <1>3 DEF BinaryUpTo
  <1>5. j \div 2 \in Nat /\ j \div 2 < j BY <1>2, <1>4
  <1>6. g[j \div 2] = h[j \div 2]
    <2>1. j \div 2 <= m /\ j \div 2 <= n BY <1>2, <1>5
    <2>2. j \div 2 \notin T BY <1>1, <1>2, <1>5
    <2> QED BY <1>5, <2>1, <2>2
  <1>7. g[j] = Append(g[j \div 2], j % 2) /\ h[j] = Append(h[j \div 2], j % 2)
    BY <1>3, <1>4 DEF BinaryUpTo
  <1> QED BY <1>2, <1>6, <1>7

\* The recursive definition of the binary digits has a solution.
LEMMA BinaryExists ==
    ASSUME NEW n \in Nat
    PROVE  \E h : BinaryUpTo(h, n)
  <1> DEFINE T == {m \in Nat : \E h : BinaryUpTo(h, m)}
  <1>1. 0 \in T
    <2> DEFINE h == [k \in 0 .. 0 |-> <<0>>]
    <2>1. BinaryUpTo(h, 0) BY DEF BinaryUpTo
    <2> QED BY <2>1
  <1>2. ASSUME NEW m \in Nat, m \in T PROVE m + 1 \in T
    <2>1. PICK h : BinaryUpTo(h, m) BY <1>2
    <2> DEFINE new == IF m + 1 < 2 THEN <<m + 1>> ELSE Append(h[(m + 1) \div 2], (m + 1) % 2)
               g == [k \in 0 .. (m + 1) |-> IF k = m + 1 THEN new ELSE h[k]]
    <2>2. new \in Seq({0, 1})
      <3>1. CASE m + 1 < 2
        <4>1. m + 1 = 1 BY <3>1
        <4>2. new = <<m + 1>> BY <3>1
        <4>3. <<1>> \in Seq({0, 1}) OBVIOUS
        <4> HIDE DEF new
        <4> QED BY <4>1, <4>2, <4>3
      <3>2. CASE ~(m + 1 < 2)
        <4>1. (m + 1) \div 2 \in 0 .. m /\ (m + 1) % 2 \in {0, 1} BY <3>2
        <4>2. h[(m + 1) \div 2] \in Seq({0, 1}) BY <4>1, <2>1 DEF BinaryUpTo
        <4> QED BY <3>2, <4>1, <4>2
      <3> QED BY <3>1, <3>2
    <2>3. ASSUME NEW k \in 0 .. m PROVE g[k] = h[k] /\ h[k] \in Seq({0, 1}) /\ k \in 0 .. (m + 1)
      <3>1. k # m + 1 /\ k \in 0 .. (m + 1) OBVIOUS
      <3>2. g[k] = h[k] BY <3>1
      <3> QED BY <3>1, <3>2, <2>1 DEF BinaryUpTo
    <2>4. g[m + 1] = new /\ m + 1 \in 0 .. (m + 1) OBVIOUS
    <2>5. DOMAIN g = 0 .. (m + 1) /\ g = [k \in 0 .. (m + 1) |-> g[k]] OBVIOUS
    <2>6. \A k \in 0 .. (m + 1) : k \in 0 .. m \/ k = m + 1 OBVIOUS
    <2> HIDE DEF g
    <2>7. g \in [0 .. (m + 1) -> Seq({0, 1})]
      <3>1. \A k \in 0 .. (m + 1) : g[k] \in Seq({0, 1})
        <4> HIDE DEF new
        <4> QED BY <2>2, <2>3, <2>4, <2>6
      <3> QED BY <3>1, <2>5
    <2>8. ASSUME NEW k \in 0 .. (m + 1)
          PROVE  g[k] = IF k < 2 THEN <<k>> ELSE Append(g[k \div 2], k % 2)
      <3>1. CASE k \in 0 .. m
        <4>1. g[k] = h[k] BY <3>1, <2>3
        <4>2. CASE k < 2 BY <3>1, <4>1, <4>2, <2>1 DEF BinaryUpTo
        <4>3. CASE ~(k < 2)
          <5>1. k \div 2 \in 0 .. m BY <3>1, <4>3
          <5>2. g[k \div 2] = h[k \div 2] BY <5>1, <2>3
          <5>3. h[k] = Append(h[k \div 2], k % 2) BY <3>1, <4>3, <2>1 DEF BinaryUpTo
          <5> QED BY <4>1, <4>3, <5>2, <5>3
        <4> QED BY <4>2, <4>3
      <3>2. CASE k = m + 1
        <4>1. CASE k < 2 BY <3>2, <4>1, <2>4
        <4>2. CASE ~(k < 2)
          <5>1. (m + 1) \div 2 \in 0 .. m BY <3>2, <4>2
          <5>2. g[(m + 1) \div 2] = h[(m + 1) \div 2] BY <5>1, <2>3
          <5> QED BY <3>2, <4>2, <5>2, <2>4
        <4> QED BY <4>1, <4>2
      <3> QED BY <3>1, <3>2, <2>6
    <2>9. BinaryUpTo(g, m + 1) BY <2>7, <2>8 DEF BinaryUpTo
    <2> QED BY <2>9
  <1>3. n \in T
    <2> HIDE DEF T
    <2> QED BY <1>1, <1>2, Induction
  <1> QED BY <1>3

\* The recursive definition of Binary has a solution, and it gives digits.
LEMMA BinaryDigits == \A n \in Nat : Binary[n] \in Seq({0, 1})
  <1> DEFINE upto(n) == CHOOSE h : BinaryUpTo(h, n)
             g == [n \in Nat |-> upto(n)[n]]
             Solves(b) == b = [n \in Nat |-> IF n < 2 THEN <<n>> ELSE Append(b[n \div 2], n % 2)]
  <1>1. ASSUME NEW n \in Nat PROVE BinaryUpTo(upto(n), n)
    BY BinaryExists
  <1> HIDE DEF upto
  <1>2. ASSUME NEW n \in Nat
        PROVE  g[n] = IF n < 2 THEN <<n>> ELSE Append(g[n \div 2], n % 2)
    <2>1. n \in 0 .. n /\ g[n] = upto(n)[n] OBVIOUS
    <2>2. CASE n < 2 BY <2>1, <2>2, <1>1 DEF BinaryUpTo
    <2>3. CASE ~(n < 2)
      <3>1. n \div 2 \in Nat /\ n \div 2 <= n BY <2>3
      <3>2. g[n \div 2] = upto(n \div 2)[n \div 2] BY <3>1
      <3>3. upto(n)[n] = Append(upto(n)[n \div 2], n % 2) BY <2>1, <2>3, <1>1 DEF BinaryUpTo
      <3>4. BinaryUpTo(upto(n), n) /\ BinaryUpTo(upto(n \div 2), n \div 2) BY <1>1, <3>1
      <3>5. upto(n)[n \div 2] = upto(n \div 2)[n \div 2] BY <3>1, <3>4, BinaryAgree
      <3> QED BY <2>1, <2>3, <3>2, <3>3, <3>5
    <2> QED BY <2>2, <2>3
  <1>3. Solves(g)
    <2>1. DOMAIN g = Nat /\ g = [n \in Nat |-> g[n]] OBVIOUS
    <2> HIDE DEF g
    <2> QED BY <1>2, <2>1
  <1>4. Solves(Binary)
    <2>1. Binary = CHOOSE b : Solves(b) BY DEF Binary
    <2> HIDE DEF Solves, g
    <2> QED BY <1>3, <2>1
  <1>5. ASSUME NEW n \in Nat
        PROVE  Binary[n] = IF n < 2 THEN <<n>> ELSE Append(Binary[n \div 2], n % 2)
    BY <1>4
  <1> DEFINE T == {n \in Nat : Binary[n] \notin Seq({0, 1})}
  <1> SUFFICES ASSUME T # {} PROVE FALSE OBVIOUS
  <1>6. PICK n \in T : \A m \in T : n <= m BY LeastNatural
  <1>7. n \in Nat /\ Binary[n] \notin Seq({0, 1}) BY <1>6
  <1>8. CASE n < 2
    <2>1. n \in {0, 1} BY <1>7, <1>8
    <2>2. Binary[n] = <<n>> BY <1>5, <1>7, <1>8
    <2>3. <<n>> \in Seq({0, 1}) BY <2>1
    <2> QED BY <1>7, <2>2, <2>3
  <1>9. CASE ~(n < 2)
    <2>1. n \div 2 \in Nat /\ n \div 2 < n /\ n % 2 \in {0, 1} BY <1>7, <1>9
    <2>2. n \div 2 \notin T BY <1>6, <1>7, <2>1
    <2>3. Binary[n \div 2] \in Seq({0, 1}) BY <2>1, <2>2
    <2>4. Append(Binary[n \div 2], n % 2) \in Seq({0, 1}) BY <2>1, <2>3
    <2> QED BY <1>5, <1>7, <1>9, <2>4
  <1> QED BY <1>8, <1>9

\* The text of an integer is a string of bytes.
LEMMA TextBytes ==
    ASSUME NEW n \in Int
    PROVE  Text(n) \in ByteString
  <1>1. {0, 1} \subseteq Byte /\ 2 \in Byte BY SmallBytes
  <1>2. ASSUME NEW m \in Nat PROVE Binary[m] \in Seq(Byte)
    BY <1>1, BinaryDigits, SeqMono
  <1>3. CASE n < 0
    <2>1. -n \in Nat BY <1>3
    <2>2. Binary[-n] \in Seq(Byte) BY <1>2, <2>1
    <2>3. <<2>> \o Binary[-n] \in Seq(Byte) BY <1>1, <2>2
    <2> QED BY <1>3, <2>3 DEF Text, ByteString, Byte
  <1>4. CASE ~(n < 0)
    <2>1. n \in Nat BY <1>4
    <2> QED BY <1>2, <1>4, <2>1 DEF Text, ByteString, Byte
  <1> QED BY <1>3, <1>4

LEMMA DigitsSolved ==
    ASSUME NEW N \in Nat, NEW f \in [1 .. N -> {0, 1}]
    PROVE  \E g : DigitsFold(g, N, f) /\ OfDigits(f) = g[1 .. N]
  <1> DEFINE it == CHOOSE g : DigitsFold(g, N, f)
  <1>1. DigitsFold(it, N, f) BY DigitsExist
  <1>2. OfDigits(f) = it[1 .. N]
    <2>1. DOMAIN f = 1 .. N OBVIOUS
    <2> QED BY <2>1 DEF OfDigits, FoldLeft, MapThenFoldSet, DigitsFold
  <1> HIDE DEF it
  <1> QED BY <1>1, <1>2

LEMMA OfDigitsNat ==
    ASSUME NEW f \in Seq({0, 1})
    PROVE  OfDigits(f) \in Nat
  <1>1. Len(f) \in Nat /\ f \in [1 .. Len(f) -> {0, 1}] OBVIOUS
  <1>2. PICK g : DigitsFold(g, Len(f), f) /\ OfDigits(f) = g[1 .. Len(f)] BY <1>1, DigitsSolved
  <1> QED BY <1>1, <1>2, DigitsNat

\* ByteBits bits make a byte.
LEMMA OfDigitsByte ==
    ASSUME NEW f \in [1 .. ByteBits -> {0, 1}]
    PROVE  OfDigits(f) \in Byte
  <1>1. ByteBits \in Nat BY ValuesAssumption
  <1>2. PICK g : DigitsFold(g, ByteBits, f) /\ OfDigits(f) = g[1 .. ByteBits]
    BY <1>1, DigitsSolved
  <1> QED BY <1>2, DigitsByte

\* The number a string of digits spells is an integer.
LEMMA NumeralInt ==
    ASSUME NEW s \in ByteString, IsNumeral(s)
    PROVE  Numeral(s) \in Int
  <1>1. Digits(s) \in Seq(Byte)
    <2>1. s \in Seq(Byte) BY DEF ByteString, Byte
    <2>2. CASE s # <<>> /\ s[1] = 2
      <3>1. Tail(s) \in Seq(Byte) BY <2>1, <2>2
      <3> QED BY <2>2, <3>1 DEF Digits
    <2>3. CASE ~(s # <<>> /\ s[1] = 2) BY <2>1, <2>3 DEF Digits
    <2> QED BY <2>2, <2>3
  <1>2. \A i \in 1 .. Len(Digits(s)) : Digits(s)[i] \in {0, 1}
    BY <1>1 DEF IsNumeral, ToSet
  <1>3. Digits(s) \in Seq({0, 1}) BY <1>1, <1>2
  <1>4. OfDigits(Digits(s)) \in Nat BY <1>3, OfDigitsNat
  <1>5. OfDigits(Digits(s)) \in Int /\ -OfDigits(Digits(s)) \in Int BY <1>4
  <1> QED BY <1>5 DEF Numeral

\* A bit that is read is 0 or 1.
LEMMA GetBit ==
    ASSUME NEW s \in ByteString, NEW bit \in Nat
    PROVE  get_bit(s, bit) \in {0, 1}
  <1> DEFINE byte == bit \div ByteBits
             x == s[byte + 1]
             p == 2 ^ (ByteBits - 1 - (bit % ByteBits))
  <1>1. byte \in Nat /\ bit % ByteBits \in 0 .. ByteBits - 1
    <2>1. ByteBits \in Nat /\ ByteBits > 0 BY ValuesAssumption
    <2>2. byte \in Nat BY <2>1
    <2> QED BY <2>1, <2>2
  <1>2. CASE byte >= Len(s) BY <1>2 DEF get_bit
  <1>3. CASE ~(byte >= Len(s))
    <2>1. Len(s) \in Nat /\ byte + 1 \in 1 .. Len(s) BY <1>1, <1>3 DEF ByteString
    <2>2. x \in Nat
      <3>0. s \in Seq(Byte) BY DEF ByteString, Byte
      <3>1. x \in Byte
        <4> HIDE DEF byte
        <4> QED BY <2>1, <3>0
      <3> QED BY <3>1 DEF Byte
    <2>3. ByteBits - 1 - (bit % ByteBits) \in 0 .. ByteBits BY <1>1, ValuesAssumption
    <2>4. p \in Nat /\ p >= 1 BY <2>3, Powers
    <2>5. get_bit(s, bit) = (x \div p) % 2 BY <1>3 DEF get_bit
    <2> HIDE DEF x, p
    <2>6. x \div p \in Nat BY <2>2, <2>4
    <2>7. (x \div p) % 2 \in {0, 1} BY <2>6
    <2> QED BY <2>5, <2>7
  <1> QED BY <1>2, <1>3

-----------------------------------------------------------------------------
(* Strings *)

LEMMA StrSound ==
    ASSUME NEW s \in ByteString
    PROVE  Sound(Str(s)) /\ Str(s).type = "string" /\ ~Hollow(Str(s))
  BY DEF Sound, Str, Hollow

\* What a string that is rewritten was: bytes.
LEMMA OldBytes ==
    ASSUME NEW d, SoundDb(d), NEW k \in Keys, NEW t, NEW old,
           Looked(d, k, t, "string", Found(<<>>), old), old.reply # WrongType
    PROVE  old.reply[2] \in ByteString
  <1>1. CASE old.db[k] = NoEntry
    <2>1. old.reply[2] = <<>> BY <1>1 DEF Looked, Found
    <2> QED BY <2>1 DEF ByteString
  <1>2. CASE old.db[k] # NoEntry
    <2>1. Reaches(old, "string", k) /\ old.db[k] = d[k] BY <1>2 DEF Looked, Reaches
    <2>2. old.reply[2] = d[k].value.data BY <2>1 DEF Looked, Found
    <2>3. d[k].value.data \in ByteString BY <1>2, <2>1 DEF Reaches, SoundDb, Sound
    <2> QED BY <2>2, <2>3
  <1> QED BY <1>1, <1>2

\* A string changed in its entry, or a new one where none was.
LEMMA RewriteEffect ==
    ASSUME NEW d, SoundDb(d), NEW k \in Keys, NEW t, NEW type, NEW absent, NEW old,
           Looked(d, k, t, type, absent, old), NEW s \in ByteString
    PROVE  Effect(d, set_keep_ttl(old.db, k, Str(s)), {k}, t, TRUE, TRUE)
  <1> DEFINE f == set_keep_ttl(old.db, k, Str(s))
             at == IF old.db[k] = NoEntry THEN NoTtl ELSE old.db[k].expire_at
  <1>1. /\ DOMAIN f = Keys /\ f[k] = [value |-> Str(s), expire_at |-> at]
        /\ \A j \in Keys \ {k} : f[j] = old.db[j]
    BY DEF set_keep_ttl, put, Looked
  <1>2. at \in Expiry /\ (LiveEntry(d[k], t) => at = d[k].expire_at)
    BY DEF Looked, SoundDb, Expiry, Lapsed, LiveEntry
  <1> HIDE DEF f, at
  <1>3. f[k].value = Str(s) /\ f[k].expire_at = at BY <1>1
  <1>4. Tame(d[k], f[k], t, TRUE, TRUE) BY <1>2, <1>3, StrSound DEF Tame
  <1>5. ASSUME NEW j \in Keys \ {k} PROVE Lapsed(d[j], f[j], t) BY <1>1 DEF Looked
  <1>6. Effect(d, f, {k}, t, TRUE, TRUE) BY <1>1, <1>4, <1>5, LapsedIsTame DEF Effect
  <1> QED BY <1>6 DEF f

\* Whether it was rewritten or not, and whatever the bytes are.
Rewritten(old, k, f) == f = old.db \/ \E s \in ByteString : f = set_keep_ttl(old.db, k, Str(s))

LEMMA RewrittenFits ==
    ASSUME NEW d, SoundDb(d), NEW c, c.key \in Keys, NEW n \in Nat,
           NEW ts \in Readings(n, MaxTime), NEW out, NEW type, NEW absent, NEW old,
           Looked(d, c.key, ts[4], type, absent, old), Rewritten(old, c.key, out.db)
    PROVE  Fits(d, c, ts, out)
  <1>1. CASE out.db = old.db
    <2>1. Effect(d, out.db, {c.key}, ts[4], TRUE, TRUE) BY <1>1, LookedEffect
    <2> QED BY <2>1, EffectFits, Clock
  <1>2. CASE \E s \in ByteString : out.db = set_keep_ttl(old.db, c.key, Str(s))
    <2>1. PICK s \in ByteString : out.db = set_keep_ttl(old.db, c.key, Str(s)) BY <1>2
    <2>2. Effect(d, set_keep_ttl(old.db, c.key, Str(s)), {c.key}, ts[4], TRUE, TRUE)
      BY RewriteEffect
    <2>3. Effect(d, out.db, {c.key}, ts[4], TRUE, TRUE) BY <2>1, <2>2
    <2> QED BY <2>3, EffectFits, Clock
  <1> QED BY <1>1, <1>2 DEF Rewritten

LEMMA AppendFits ==
    ASSUME NEW d, SoundDb(d), NEW c, Parsed(c), c.op = "APPEND",
           NEW n \in Nat, NEW ts \in Readings(n, MaxTime)
    PROVE  Fits(d, c, ts, append(d, c, ts))
  <1> DEFINE old == typed_get(d, c.key, ts[1], "string", Found(<<>>))
             out == append(d, c, ts)
             s == old.reply[2]
  <1>0. c.key \in Keys /\ c.val \in ByteString BY ParsedKey DEF Parsed, SeveralKeys
  <1>1. Looked(d, c.key, ts[4], "string", Found(<<>>), old) BY <1>0, Look, Clock
  <1>2. CASE old.reply = WrongType
    <2>1. out.db = old.db BY <1>2 DEF append, Rewriting
    <2> HIDE DEF old, out
    <2> QED BY <1>0, <1>1, <2>1, RewrittenFits DEF Rewritten, out
  <1>3. CASE old.reply # WrongType
    <2>1. out.db \in {old.db, set_keep_ttl(old.db, c.key, Str(s \o c.val))}
      BY <1>3 DEF append, Rewriting, Change, Answer
    <2> HIDE DEF old, out
    <2>2. s \in ByteString BY <1>0, <1>1, <1>3, OldBytes
    <2> HIDE DEF s
    <2>3. s \o c.val \in ByteString
      <3>1. s \in Seq(Byte) /\ c.val \in Seq(Byte) BY <1>0, <2>2 DEF ByteString, Byte
      <3>2. s \o c.val \in Seq(Byte) BY <3>1
      <3> QED BY <3>2 DEF ByteString, Byte
    <2>4. Rewritten(old, c.key, out.db) BY <2>1, <2>3 DEF Rewritten
    <2>5. Fits(d, c, ts, out) BY <1>0, <1>1, <2>4, RewrittenFits
    <2> QED BY <2>5 DEF out
  <1> QED BY <1>2, <1>3

\* INCR, DECR, INCRBY and DECRBY.
LEMMA IncrFits ==
    ASSUME NEW d, SoundDb(d), NEW c, Parsed(c), c.op = "INCR",
           NEW n \in Nat, NEW ts \in Readings(n, MaxTime)
    PROVE  Fits(d, c, ts, do_incr(d, c, ts))
  <1> DEFINE delta == IF c.negate THEN -c.incr ELSE c.incr
             old == typed_get(d, c.key, ts[1], "string", Found(<<>>))
             out == do_incr(d, c, ts)
             s == old.reply[2]
             cur == IF contains(d, c.key, ts[1]) THEN s ELSE <<0>>
             next == checked_add(Numeral(cur), delta)
  <1>0. c.key \in Keys /\ c.incr \in Int BY ParsedKey DEF Parsed, SeveralKeys
  <1>1. Looked(d, c.key, ts[4], "string", Found(<<>>), old) BY <1>0, Look, Clock
  <1>2. CASE delta \notin I64
    <2>1. out.db = d BY <1>2 DEF do_incr, Answer
    <2>2. Fits(d, c, ts, out)
      <3> HIDE DEF out
      <3> QED BY <1>0, <2>1, ReadFits
    <2> QED BY <2>2
  <1>3. CASE delta \in I64 /\ (old.reply = WrongType \/ ~IsInt(cur) \/ next \notin I64)
    <2>1. out.db = old.db BY <1>3 DEF do_incr, Rewriting, Change, Answer, IsError, Err
    <2> HIDE DEF old, out
    <2> QED BY <1>0, <1>1, <2>1, RewrittenFits DEF Rewritten, out
  <1>4. CASE delta \in I64 /\ old.reply # WrongType /\ IsInt(cur) /\ next \in I64
    <2>1. out.db \in {old.db, set_keep_ttl(old.db, c.key, Str(Text(next)))}
      BY <1>4 DEF do_incr, Rewriting, Change, Answer
    <2> HIDE DEF old, out
    <2>2. next \in Int BY <1>4, ValuesAssumption DEF I64
    <2> HIDE DEF next
    <2>3. Text(next) \in ByteString BY <2>2, TextBytes
    <2>4. Rewritten(old, c.key, out.db) BY <2>1, <2>3 DEF Rewritten
    <2>5. Fits(d, c, ts, out) BY <1>0, <1>1, <2>4, RewrittenFits
    <2> QED BY <2>5 DEF out
  <1> QED BY <1>2, <1>3, <1>4

LEMMA IncrbyfloatFits ==
    ASSUME NEW d, SoundDb(d), NEW c, Parsed(c), c.op = "INCRBYFLOAT",
           NEW n \in Nat, NEW ts \in Readings(n, MaxTime)
    PROVE  Fits(d, c, ts, incrbyfloat(d, c, ts))
  <1> DEFINE old == typed_get(d, c.key, ts[1], "string", Found(<<>>))
             out == incrbyfloat(d, c, ts)
             s == old.reply[2]
             cur == IF contains(d, c.key, ts[1]) THEN s ELSE <<0>>
             next == FloatSum(Numeral(cur), c.incr)
  <1>0. c.key \in Keys /\ c.incr \in Int BY ParsedKey DEF Parsed, SeveralKeys
  <1>1. Looked(d, c.key, ts[4], "string", Found(<<>>), old) BY <1>0, Look, Clock
  <1>2. CASE old.reply = WrongType \/ ~IsNumeral(cur) \/ Abs(next) = Inf
    <2>1. out.db = old.db BY <1>2 DEF incrbyfloat, Rewriting, Change, Answer, IsError, Err
    <2> HIDE DEF old, out
    <2> QED BY <1>0, <1>1, <2>1, RewrittenFits DEF Rewritten, out
  <1>3. CASE old.reply # WrongType /\ IsNumeral(cur) /\ Abs(next) # Inf
    <2>1. out.db \in {old.db, set_keep_ttl(old.db, c.key, Str(Text(next)))}
      BY <1>3 DEF incrbyfloat, Rewriting, Change, Answer
    <2> HIDE DEF old, out
    <2>2. s \in ByteString BY <1>0, <1>1, <1>3, OldBytes
    <2> HIDE DEF s
    <2>3. <<0>> \in ByteString
      <3>1. <<0>> \in Seq(Byte) BY SmallBytes
      <3> QED BY <3>1 DEF ByteString, Byte
    <2>4. cur \in ByteString BY <2>2, <2>3
    <2> HIDE DEF cur
    <2>5. Numeral(cur) \in Int BY <1>3, <2>4, NumeralInt
    <2>6. next \in Int BY <1>0, <2>5, FloatSumInt
    <2> HIDE DEF next
    <2>7. Text(next) \in ByteString BY <2>6, TextBytes
    <2>8. Rewritten(old, c.key, out.db) BY <2>1, <2>7 DEF Rewritten
    <2>9. Fits(d, c, ts, out) BY <1>0, <1>1, <2>8, RewrittenFits
    <2> QED BY <2>9 DEF out
  <1> QED BY <1>2, <1>3

\* A sequence given by what its positions hold.
LEMMA BytesByPosition ==
    ASSUME NEW n \in Nat, NEW s, s \in [1 .. n -> Byte]
    PROVE  s \in ByteString /\ Len(s) = n
  <1>1. s \in Seq(Byte) /\ Len(s) = n OBVIOUS
  <1> QED BY <1>1 DEF ByteString, Byte

LEMMA PaddedBytes ==
    ASSUME NEW s \in ByteString, NEW n \in Nat
    PROVE  /\ Padded(s, n) \in ByteString
           /\ Len(Padded(s, n)) >= n /\ Len(Padded(s, n)) \in Nat
           /\ DOMAIN Padded(s, n) = 1 .. Len(Padded(s, n))
  <1> DEFINE m == Max({n, Len(s)})
             p == Padded(s, n)
  <1>1. s \in Seq(Byte) /\ Len(s) \in Nat BY DEF ByteString, Byte
  <1>2. m \in Nat /\ m >= n BY <1>1, MaxTwo
  <1>3. p = [i \in 1 .. m |-> IF i <= Len(s) THEN s[i] ELSE 0] BY DEF Padded
  <1> HIDE DEF p, m
  <1>4. 0 \in Byte BY SmallBytes
  <1>5. ASSUME NEW i \in 1 .. m PROVE (IF i <= Len(s) THEN s[i] ELSE 0) \in Byte
    <2>1. CASE i <= Len(s)
      <3>1. i \in 1 .. Len(s) BY <2>1, <1>1, <1>2
      <3>2. s[i] \in Byte BY <3>1, <1>1
      <3> QED BY <2>1, <3>2
    <2>2. CASE ~(i <= Len(s)) BY <2>2, <1>4
    <2> QED BY <2>1, <2>2
  <1>6. p \in [1 .. m -> Byte] BY <1>3, <1>5
  <1>7. p \in ByteString /\ Len(p) = m BY <1>2, <1>6, BytesByPosition
  <1>8. DOMAIN p = 1 .. m BY <1>3
  <1> QED BY <1>2, <1>7, <1>8 DEF p

\* Some positions of a string overwritten with bytes.
LEMMA OverwrittenBytes ==
    ASSUME NEW s \in ByteString, NEW r, DOMAIN r = DOMAIN s, r = [i \in DOMAIN s |-> r[i]],
           \A i \in DOMAIN s : r[i] = s[i] \/ r[i] \in Byte
    PROVE  r \in ByteString
  <1>1. s \in Seq(Byte) /\ Len(s) \in Nat /\ DOMAIN s = 1 .. Len(s) BY DEF ByteString, Byte
  <1>2. \A i \in 1 .. Len(s) : s[i] \in Byte BY <1>1
  <1>3. \A i \in 1 .. Len(s) : r[i] \in Byte BY <1>1, <1>2
  <1>4. r \in [1 .. Len(s) -> Byte] BY <1>1, <1>3
  <1> QED BY <1>1, <1>4, BytesByPosition

\* SETRANGE, which pads the string with zeros.
LEMMA SetrangeFits ==
    ASSUME NEW d, SoundDb(d), NEW c, Parsed(c), c.op = "SETRANGE",
           NEW n \in Nat, NEW ts \in Readings(n, MaxTime)
    PROVE  Fits(d, c, ts, setrange(d, c, ts))
  <1> DEFINE old == typed_get(d, c.key, ts[1], "string", Found(<<>>))
             out == setrange(d, c, ts)
             s == old.reply[2]
             buf == Padded(s, c.offset + Len(c.val))
             new == [i \in DOMAIN buf |-> IF i - c.offset \in DOMAIN c.val
                                          THEN c.val[i - c.offset] ELSE buf[i]]
  <1>0. c.key \in Keys /\ c.val \in ByteString /\ c.offset \in Int
    BY ParsedKey DEF Parsed, SeveralKeys
  <1>1. Looked(d, c.key, ts[4], "string", Found(<<>>), old) BY <1>0, Look, Clock
  <1>2. CASE c.offset < 0 \/ c.val = <<>>
    <2>1. out.db \in {d, purge_if_expired(d, c.key, ts[1])}
      BY <1>2 DEF setrange, strlen, Reading, AndThen, typed_get, Answer
    <2>2. Fits(d, c, ts, out)
      <3> HIDE DEF out
      <3> QED BY <1>0, <2>1, ReadFits
    <2> QED BY <2>2
  <1>3. CASE ~(c.offset < 0) /\ c.val # <<>> /\ old.reply = WrongType
    <2>1. out.db = old.db BY <1>3 DEF setrange, Rewriting
    <2> HIDE DEF old, out
    <2> QED BY <1>0, <1>1, <2>1, RewrittenFits DEF Rewritten, out
  <1>4. CASE ~(c.offset < 0) /\ c.val # <<>> /\ old.reply # WrongType
    <2>1. out.db \in {old.db, set_keep_ttl(old.db, c.key, Str(new))}
      BY <1>4 DEF setrange, Rewriting, Change, Answer
    <2> HIDE DEF old, out
    <2>2. s \in ByteString BY <1>0, <1>1, <1>4, OldBytes
    <2> HIDE DEF s
    <2>3. c.offset + Len(c.val) \in Nat BY <1>0, <1>4 DEF ByteString
    <2>4. buf \in ByteString BY <2>2, <2>3, PaddedBytes
    <2> HIDE DEF buf
    <2>5. DOMAIN new = DOMAIN buf /\ new = [i \in DOMAIN buf |-> new[i]] OBVIOUS
    <2>6. ASSUME NEW i \in DOMAIN buf PROVE new[i] = buf[i] \/ new[i] \in Byte
      <3>1. c.val \in Seq(Byte) BY <1>0 DEF ByteString, Byte
      <3>2. \A j \in DOMAIN c.val : c.val[j] \in Byte BY <3>1
      <3> QED BY <3>2
    <2> HIDE DEF new
    <2>7. new \in ByteString BY <2>4, <2>5, <2>6, OverwrittenBytes
    <2>8. Rewritten(old, c.key, out.db) BY <2>1, <2>7 DEF Rewritten
    <2>9. Fits(d, c, ts, out) BY <1>0, <1>1, <2>8, RewrittenFits
    <2> QED BY <2>9 DEF out
  <1> QED BY <1>2, <1>3, <1>4

\* SETBIT, which puts the byte together from its bits.
LEMMA SetbitFits ==
    ASSUME NEW d, SoundDb(d), NEW c, Parsed(c), c.op = "SETBIT",
           NEW n \in Nat, NEW ts \in Readings(n, MaxTime)
    PROVE  Fits(d, c, ts, setbit(d, c, ts))
  <1> DEFINE old == typed_get(d, c.key, ts[1], "string", Found(<<>>))
             out == setbit(d, c, ts)
             s == old.reply[2]
             byte == c.offset \div ByteBits
             buf == Padded(s, byte + 1)
             bit(b) == IF b = c.offset % ByteBits THEN c.bit
                       ELSE get_bit(buf, byte * ByteBits + b)
             made == OfDigits([b \in 1 .. ByteBits |-> bit(b - 1)])
             new == [i \in DOMAIN buf |-> IF i = byte + 1 THEN made ELSE buf[i]]
  <1>0. c.key \in Keys /\ c.offset \in Int /\ c.bit \in {0, 1}
    BY ParsedKey DEF Parsed, SeveralKeys
  <1>1. Looked(d, c.key, ts[4], "string", Found(<<>>), old) BY <1>0, Look, Clock
  <1>2. CASE c.offset \notin 0 .. MAX_BIT_OFFSET - 1
    <2>1. out.db = d BY <1>2 DEF setbit, Answer
    <2>2. Fits(d, c, ts, out)
      <3> HIDE DEF out
      <3> QED BY <1>0, <2>1, ReadFits
    <2> QED BY <2>2
  <1>3. CASE c.offset \in 0 .. MAX_BIT_OFFSET - 1 /\ old.reply = WrongType
    <2>1. out.db = old.db BY <1>3 DEF setbit, Rewriting
    <2> HIDE DEF old, out
    <2> QED BY <1>0, <1>1, <2>1, RewrittenFits DEF Rewritten, out
  <1>4. CASE c.offset \in 0 .. MAX_BIT_OFFSET - 1 /\ old.reply # WrongType
    <2>1. out.db \in {old.db, set_keep_ttl(old.db, c.key, Str(new))}
      BY <1>4 DEF setbit, Rewriting, Change, Answer, ByteOf
    <2> HIDE DEF old, out
    <2>2. s \in ByteString BY <1>0, <1>1, <1>4, OldBytes
    <2> HIDE DEF s
    <2>3. ByteBits \in Nat /\ ByteBits > 0 BY ValuesAssumption
    <2>4. byte \in Nat /\ byte + 1 \in Nat BY <1>0, <1>4, <2>3
    <2> HIDE DEF byte
    <2>5. buf \in ByteString BY <2>2, <2>4, PaddedBytes
    <2> HIDE DEF buf
    <2>6. ASSUME NEW b \in 1 .. ByteBits PROVE bit(b - 1) \in {0, 1}
      <3>1. byte * ByteBits + (b - 1) \in Nat
        <4>1. byte * ByteBits \in Nat BY <2>3, <2>4
        <4> QED BY <4>1, <2>3
      <3>2. get_bit(buf, byte * ByteBits + (b - 1)) \in {0, 1} BY <2>5, <3>1, GetBit
      <3> QED BY <1>0, <3>2
    <2>7. made \in Byte
      <3> DEFINE f == [b \in 1 .. ByteBits |-> bit(b - 1)]
      <3> HIDE DEF bit
      <3>1. f \in [1 .. ByteBits -> {0, 1}] BY <2>6
      <3> HIDE DEF f
      <3>2. OfDigits(f) \in Byte BY <3>1, OfDigitsByte
      <3> QED BY <3>2 DEF f
    <2> HIDE DEF made
    <2>8. /\ DOMAIN new = DOMAIN buf /\ new = [i \in DOMAIN buf |-> new[i]]
          /\ \A i \in DOMAIN buf : new[i] = buf[i] \/ new[i] \in Byte
      BY <2>7
    <2> HIDE DEF new
    <2>9. new \in ByteString BY <2>5, <2>8, OverwrittenBytes
    <2>10. Rewritten(old, c.key, out.db) BY <2>1, <2>9 DEF Rewritten
    <2>11. Fits(d, c, ts, out) BY <1>0, <1>1, <2>10, RewrittenFits
    <2> QED BY <2>11 DEF out
  <1> QED BY <1>2, <1>3, <1>4

LEMMA StrPutEffect ==
    ASSUME NEW d, SoundDb(d), NEW k \in Keys, NEW s \in ByteString, NEW at \in Expiry, NEW t
    PROVE  Effect(d, put(d, k, Str(s), at), {k}, t, FALSE, TRUE)
  BY StrSound, PutEffect

LEMMA NoTtlExpiry == NoTtl \in Expiry
  BY DEF Expiry

LEMMA SetnxFits ==
    ASSUME NEW d, SoundDb(d), NEW c, Parsed(c), c.op = "SETNX",
           NEW n \in Nat, NEW ts \in Readings(n, MaxTime)
    PROVE  Fits(d, c, ts, setnx(d, c, ts))
  <1> DEFINE out == setnx(d, c, ts)
  <1>0. c.key \in Keys /\ c.val \in ByteString BY ParsedKey DEF Parsed, SeveralKeys
  <1>1. out.db \in {d, put(d, c.key, Str(c.val), NoTtl)} BY DEF setnx, set, Answer
  <1>2. ~Keeps(c) BY DEF Keeps, Replacing
  <1> HIDE DEF out
  <1>3. Effect(d, out.db, {c.key}, ts[4], FALSE, TRUE)
    BY <1>0, <1>1, StrPutEffect, NoTtlExpiry, NoEffect
  <1>4. Fits(d, c, ts, out) BY <1>2, <1>3, EffectFits, Clock
  <1> QED BY <1>4 DEF out

\* A write, then its expiry.
LEMMA SetexFits ==
    ASSUME NEW d, SoundDb(d), NEW c, Parsed(c), c.op = "SETEX",
           NEW n \in Nat, NEW ts \in Readings(n, MaxTime)
    PROVE  Fits(d, c, ts, setex(d, c, ts))
  <1> DEFINE out == setex(d, c, ts)
             w == put(d, c.key, Str(c.val), NoTtl)
             f == set_expire(w, c.key, ts[1] + c.n, ts[2])
  <1>0. c.key \in Keys /\ c.val \in ByteString /\ c.n \in Int
    BY ParsedKey DEF Parsed, SeveralKeys
  <1>1. ~Keeps(c) BY DEF Keeps, Replacing
  <1>2. CASE c.n <= 0
    <2>1. out.db = d BY <1>2 DEF setex, Answer
    <2>2. Fits(d, c, ts, out)
      <3> HIDE DEF out
      <3> QED BY <1>0, <2>1, ReadFits
    <2> QED BY <2>2
  <1>3. CASE ~(c.n <= 0)
    <2>1. out.db = f BY <1>3 DEF setex, set, Answer
    <2>2. f \in {put(d, c.key, Str(c.val), ts[1] + c.n), put(d, c.key, Str(c.val), NoTtl)}
      <3>1. w[c.key] = [value |-> Str(c.val), expire_at |-> NoTtl] BY <1>0 DEF put, SoundDb
      <3>2. f \in {put(w, c.key, Str(c.val), ts[1] + c.n), w}
        BY <3>1 DEF set_expire, purge_if_expired, Expired
      <3>3. put(w, c.key, Str(c.val), ts[1] + c.n) = put(d, c.key, Str(c.val), ts[1] + c.n)
        BY <1>0 DEF put, SoundDb
      <3> HIDE DEF f
      <3> QED BY <3>2, <3>3
    <2>3. ts[1] + c.n \in Expiry BY <1>0, <1>3, Clock DEF Expiry
    <2> HIDE DEF out, f
    <2>4. Effect(d, out.db, {c.key}, ts[4], FALSE, TRUE)
      BY <1>0, <2>1, <2>2, <2>3, StrPutEffect, NoTtlExpiry
    <2>5. Fits(d, c, ts, out) BY <1>1, <2>4, EffectFits, Clock
    <2> QED BY <2>5 DEF out
  <1> QED BY <1>2, <1>3

LEMMA GetdelFits ==
    ASSUME NEW d, SoundDb(d), NEW c, Parsed(c), c.op = "GETDEL",
           NEW n \in Nat, NEW ts \in Readings(n, MaxTime)
    PROVE  Fits(d, c, ts, getdel(d, c, ts))
  <1> DEFINE out == getdel(d, c, ts)
             old == typed_get(d, c.key, ts[1], "string", Null)
  <1>0. c.key \in Keys BY ParsedKey DEF SeveralKeys
  <1>1. Looked(d, c.key, ts[4], "string", Null, old) BY <1>0, Look, Clock
  <1>2. get(d, c, ts).db = old.db BY DEF get, Reading, AndThen, Answer
  <1>3. out.db \in {old.db, remove(old.db, c.key)} BY <1>2 DEF getdel, Answer
  <1> HIDE DEF out, old
  <1>4. SoundDb(old.db) /\ \A j \in Keys : Lapsed(d[j], old.db[j], ts[4])
    BY <1>0, <1>1, LookedSound DEF Looked
  <1>5. Effect(old.db, out.db, {c.key}, ts[4], TRUE, TRUE)
    BY <1>0, <1>3, <1>4, NoEffect, RemoveEffect
  <1>6. Effect(d, out.db, {c.key}, ts[4], TRUE, TRUE) BY <1>4, <1>5, LookThenEffect
  <1>7. Fits(d, c, ts, out) BY <1>6, EffectFits, Clock
  <1> QED BY <1>7 DEF out

LEMMA GetsetFits ==
    ASSUME NEW d, SoundDb(d), NEW c, Parsed(c), c.op = "GETSET",
           NEW n \in Nat, NEW ts \in Readings(n, MaxTime)
    PROVE  Fits(d, c, ts, getset(d, c, ts))
  <1> DEFINE out == getset(d, c, ts)
             old == typed_get(d, c.key, ts[1], "string", Null)
  <1>0. c.key \in Keys /\ c.val \in ByteString BY ParsedKey DEF Parsed, SeveralKeys
  <1>1. Looked(d, c.key, ts[4], "string", Null, old) BY <1>0, Look, Clock
  <1>2. get(d, c, ts).db = old.db BY DEF get, Reading, AndThen, Answer
  <1>3. out.db \in {old.db, put(old.db, c.key, Str(c.val), NoTtl)} BY <1>2 DEF getset, set, Answer
  <1>4. ~Keeps(c) BY DEF Keeps, Replacing
  <1> HIDE DEF out, old
  <1>5. SoundDb(old.db) /\ \A j \in Keys : Lapsed(d[j], old.db[j], ts[4])
    BY <1>0, <1>1, LookedSound DEF Looked
  <1>6. Effect(old.db, out.db, {c.key}, ts[4], FALSE, TRUE)
    BY <1>0, <1>3, <1>5, NoEffect, StrPutEffect, NoTtlExpiry
  <1>7. Effect(d, out.db, {c.key}, ts[4], FALSE, TRUE) BY <1>5, <1>6, LookThenEffect
  <1>8. Fits(d, c, ts, out) BY <1>4, <1>7, EffectFits, Clock
  <1> QED BY <1>8 DEF out

LEMMA MgetFits ==
    ASSUME NEW d, SoundDb(d), NEW c, Parsed(c), c.op = "MGET",
           NEW n \in Nat, NEW ts \in Readings(n, MaxTime)
    PROVE  Fits(d, c, ts, mget(d, c, ts))
  <1> DEFINE out == mget(d, c, ts)
             f == PurgedAlong(d, c.keys, ts, Len(c.keys))
  <1>0. c.keys \in Seq(Keys) /\ Len(c.keys) <= Reads BY DEF Parsed, SeveralKeys
  <1>1. out.db = f BY DEF mget, Answer
  <1>2. DOMAIN f = Keys /\ \A j \in Keys : Lapsed(d[j], f[j], ts[4])
    <2>1. Len(c.keys) \in Int BY <1>0
    <2> QED BY <1>0, <2>1, PurgedAlongLapses
  <1> HIDE DEF f, out
  <1>3. Effect(d, out.db, {}, ts[4], TRUE, TRUE) BY <1>1, <1>2, LapsesEffect
  <1>4. Fits(d, c, ts, out) BY <1>3, EffectFits, Clock
  <1> QED BY <1>4 DEF out

\* The pairs of MSET and MSETNX, written in order.
LEMMA MsetEffect ==
    ASSUME NEW d, SoundDb(d), NEW c, c.pairs \in Seq(Keys \X ByteString), NEW t, NEW ts
    PROVE  Effect(d, mset(d, c, ts).db, Keys, t, FALSE, TRUE)
  <1> DEFINE places(k) == {i \in DOMAIN c.pairs : c.pairs[i][1] = k}
             f == mset(d, c, ts).db
  <1>1. f = [k \in Keys |->
                IF places(k) = {} THEN d[k]
                ELSE [value |-> Str(c.pairs[Max(places(k))][2]), expire_at |-> NoTtl]]
    BY DEF mset, Answer
  <1>2. DOMAIN c.pairs = 1 .. Len(c.pairs) /\ Len(c.pairs) \in Nat OBVIOUS
  <1> HIDE DEF f
  <1>3. ASSUME NEW j \in Keys PROVE Tame(d[j], f[j], t, FALSE, TRUE)
    <2>1. CASE places(j) = {} BY <1>1, <2>1 DEF Tame
    <2>2. CASE places(j) # {}
      <3> DEFINE P == places(j)
                 m == Max(P)
                 s == c.pairs[m][2]
      <3>1. m \in P
        <4>1. P \in SUBSET Int /\ \A x \in P : x <= Len(c.pairs) BY <1>2
        <4>2. P # {} /\ Len(c.pairs) \in Int BY <2>2, <1>2
        <4> HIDE DEF P
        <4> QED BY <4>1, <4>2, BoundedMax
      <3>2. m \in 1 .. Len(c.pairs)
        <4> HIDE DEF m
        <4> QED BY <3>1, <1>2
      <3> HIDE DEF m
      <3>3. c.pairs[m] \in Keys \X ByteString BY <3>2
      <3>4. s \in ByteString BY <3>3
      <3>5. f[j] = [value |-> Str(s), expire_at |-> NoTtl] BY <1>1, <2>2 DEF m
      <3> HIDE DEF s
      <3>6. f[j].value = Str(s) /\ f[j].expire_at = NoTtl BY <3>5
      <3> QED BY <3>4, <3>6, StrSound, NoTtlExpiry DEF Tame
    <2> QED BY <2>1, <2>2
  <1>4. DOMAIN f = Keys BY <1>1
  <1>5. Effect(d, f, Keys, t, FALSE, TRUE) BY <1>3, <1>4 DEF Effect
  <1> QED BY <1>5 DEF f

\* MSET and MSETNX.
LEMMA MsetFits ==
    ASSUME NEW d, SoundDb(d), NEW c, Parsed(c), c.op \in {"MSET", "MSETNX"},
           NEW n \in Nat, NEW ts \in Readings(n, MaxTime),
           NEW out, out = IF c.op = "MSET" THEN mset(d, c, ts) ELSE msetnx(d, c, ts)
    PROVE  Fits(d, c, ts, out)
  <1> DEFINE keys == [i \in DOMAIN c.pairs |-> c.pairs[i][1]]
             taken == {i \in DOMAIN keys : contains(d, keys[i], ts[i])}
             f == PurgedAlong(d, keys, ts, Min(taken))
  <1>0. c.pairs \in Seq(Keys \X ByteString) /\ Len(c.pairs) <= Reads BY DEF Parsed
  <1>1. ~Keeps(c) BY DEF Keeps, Replacing
  <1>2. CASE c.op = "MSETNX" /\ taken # {}
    <2>1. out.db = f BY <1>2 DEF msetnx, Answer
    <2>2. taken \in SUBSET (1 .. Len(c.pairs)) /\ Len(c.pairs) \in Nat BY <1>0
    <2> HIDE DEF taken
    <2>3. Min(taken) \in taken
      <3>1. taken \in SUBSET Nat BY <2>2
      <3> QED BY <3>1, <1>2, NatMin
    <2>4. Min(taken) \in Int /\ Min(taken) <= Reads
      <3> DEFINE m == Min(taken)
                 N == Len(c.pairs)
      <3>1. m \in 1 .. N /\ N \in Nat /\ N <= Reads BY <1>0, <2>2, <2>3
      <3> HIDE DEF m, N
      <3>2. m \in Int /\ m <= Reads BY <3>1 DEF Reads
      <3> QED BY <3>2 DEF m
    <2>5. DOMAIN f = Keys /\ \A j \in Keys : Lapsed(d[j], f[j], ts[4])
      <3> HIDE DEF keys
      <3> QED BY <2>4, PurgedAlongLapses
    <2> HIDE DEF f
    <2>6. Effect(d, out.db, {}, ts[4], TRUE, TRUE) BY <2>1, <2>5, LapsesEffect
    <2> QED BY <2>6, EffectFits, Clock
  <1>3. CASE ~(c.op = "MSETNX" /\ taken # {})
    <2>1. out.db = mset(d, c, ts).db BY <1>3 DEF msetnx, Answer
    <2>2. Effect(d, mset(d, c, ts).db, Keys, ts[4], FALSE, TRUE) BY <1>0, MsetEffect
    <2>3. Effect(d, out.db, Keys, ts[4], FALSE, TRUE) BY <2>1, <2>2
    <2> QED BY <1>1, <2>3, EffectFits, Clock
  <1> QED BY <1>2, <1>3

\* What the options of GETEX can make of a database: the key with another
\* expiry, or without its entry.
GetExDbs(g, k) ==
    {g, remove(g, k)} \cup {put(g, k, g[k].value, at) : at \in Expiry}

GetExOptions == [kind : {"PX", "PXAT"}, n : Int] \cup [kind : {"PERSIST", "UNKNOWN"}]

LEMMA SetExpireCloses ==
    ASSUME NEW g, DOMAIN g = Keys, NEW k \in Keys, g[k] # NoEntry, NEW f \in GetExDbs(g, k),
           NEW at \in Expiry, NEW t
    PROVE  set_expire(f, k, at, t) \in GetExDbs(g, k)
  <1>1. CASE f = g
    BY <1>1 DEF set_expire, purge_if_expired, GetExDbs, remove
  <1>2. CASE f = remove(g, k)
    <2>1. f[k] = NoEntry BY <1>2 DEF remove
    <2>2. set_expire(f, k, at, t) = f
      BY <2>1 DEF set_expire, contains, LiveEntry, purge_if_expired, Expired
    <2> QED BY <2>2
  <1>3. CASE \E u \in Expiry : f = put(g, k, g[k].value, u)
    <2>1. PICK u \in Expiry : f = put(g, k, g[k].value, u) BY <1>3
    <2>2. f[k].value = g[k].value BY <2>1 DEF put
    <2>3. put(f, k, f[k].value, at) = put(g, k, g[k].value, at)
      BY <2>1, <2>2 DEF put
    <2>4. [f EXCEPT ![k] = NoEntry] = remove(g, k) BY <2>1 DEF put, remove
    <2>5. set_expire(f, k, at, t) \in {f, put(g, k, g[k].value, at), remove(g, k)}
      BY <2>3, <2>4 DEF set_expire, purge_if_expired
    <2> QED BY <2>5 DEF GetExDbs
  <1> QED BY <1>1, <1>2, <1>3 DEF GetExDbs

\* One option of GETEX.
LEMMA GetExStep ==
    ASSUME NEW g, DOMAIN g = Keys, NEW k \in Keys, g[k] # NoEntry, NEW f \in GetExDbs(g, k),
           NEW opt \in GetExOptions, NEW u \in Nat, NEW t
    PROVE  GetExOption(f, k, opt, u, t) \in GetExDbs(g, k)
  <1>0. U64 \in Nat /\ U64 > 0 BY ValuesAssumption DEF U64
  <1>1. CASE opt.kind = "PERSIST"
    BY <1>1, SetExpireCloses, NoTtlExpiry DEF GetExOption, persist
  <1>2. CASE opt.kind = "UNKNOWN" BY <1>2 DEF GetExOption
  <1>3. CASE opt.kind = "PX"
    <2>1. opt.n \in Int BY <1>3 DEF GetExOptions
    <2>2. opt.n % U64 \in Nat BY <1>0, <2>1
    <2>3. u + (opt.n % U64) \in Nat BY <2>2
    <2>4. (u + (opt.n % U64)) % U64 \in Expiry BY <1>0, <2>3 DEF Expiry
    <2>5. set_expire(f, k, (u + (opt.n % U64)) % U64, t) \in GetExDbs(g, k)
      BY <2>4, SetExpireCloses
    <2> QED BY <1>3, <2>5 DEF GetExOption
  <1>4. CASE opt.kind = "PXAT"
    <2>1. opt.n \in Int BY <1>4 DEF GetExOptions
    <2>2. opt.n % U64 \in Expiry BY <1>0, <2>1 DEF Expiry
    <2>3. set_expire(f, k, opt.n % U64, t) \in GetExDbs(g, k) BY <2>2, SetExpireCloses
    <2> QED BY <1>4, <2>3 DEF GetExOption
  <1> QED BY <1>1, <1>2, <1>3, <1>4 DEF GetExOptions

GetExAll(base, opts, k, u, t) ==
    FoldLeft(LAMBDA d, opt : GetExOption(d, k, opt, u, t), base, opts)

\* All options of GETEX.
LEMMA GetExFold ==
    ASSUME NEW g, DOMAIN g = Keys, NEW k \in Keys, g[k] # NoEntry,
           NEW opts \in Seq(GetExOptions), NEW u \in Nat, NEW t
    PROVE  GetExAll(g, opts, k, u, t) \in GetExDbs(g, k)
  <1> DEFINE N == Len(opts)
             A == GetExDbs(g, k)
             Def(h) == h = [s \in SUBSET (1 .. N) |->
                               IF s = {} THEN g
                               ELSE GetExOption(h[s \ {Max(s)}], k, opts[Max(s)], u, t)]
             it == CHOOSE h : Def(h)
             st == [p \in A \X (1 .. N) |-> GetExOption(p[1], k, opts[p[2]], u, t)]
  <1>1. DOMAIN opts = 1 .. N /\ N \in Nat /\ \A i \in 1 .. N : opts[i] \in GetExOptions OBVIOUS
  <1>2. GetExAll(g, opts, k, u, t) = it[1 .. N]
    BY <1>1 DEF GetExAll, FoldLeft, MapThenFoldSet
  <1>3. st \in [A \X (1 .. N) -> A]
    <2> SUFFICES ASSUME NEW p \in A \X (1 .. N) PROVE GetExOption(p[1], k, opts[p[2]], u, t) \in A
      OBVIOUS
    <2>1. p[1] \in A /\ opts[p[2]] \in GetExOptions BY <1>1
    <2> QED BY <2>1, GetExStep
  <1>4. \E h : Def(h)
    <2>0. PICK h : IsFold(h, A, g, N, st)
      <3>1. g \in A BY DEF GetExDbs
      <3> HIDE DEF st, A, N
      <3> QED BY <1>1, <1>3, <3>1, FoldExists
    <2>1. /\ h \in [SUBSET (1 .. N) -> A]
          /\ \A s \in SUBSET (1 .. N) :
                 h[s] = IF s = {} THEN g ELSE st[<<h[s \ {Max(s)}], Max(s)>>]
      <3> HIDE DEF st
      <3> QED BY <2>0 DEF IsFold
    <2>2. ASSUME NEW s \in SUBSET (1 .. N), s # {}
          PROVE  st[<<h[s \ {Max(s)}], Max(s)>>]
                     = GetExOption(h[s \ {Max(s)}], k, opts[Max(s)], u, t)
      <3>1. Max(s) \in 1 .. N /\ s \ {Max(s)} \in SUBSET (1 .. N) BY <1>1, <2>2, Positions
      <3>2. <<h[s \ {Max(s)}], Max(s)>> \in A \X (1 .. N) BY <2>1, <3>1
      <3> QED BY <3>2
    <2>3. Def(h)
      <3> HIDE DEF st
      <3> QED BY <2>1, <2>2
    <2> QED BY <2>3
  <1>5. Def(it)
    <2> HIDE DEF Def
    <2> QED BY <1>4
  <1> HIDE DEF it, st
  <1>6. it[{}] \in A
    <2>1. {} \in SUBSET (1 .. N) OBVIOUS
    <2>2. it[{}] = g BY <1>5, <2>1
    <2> QED BY <2>2 DEF GetExDbs
  <1>7. ASSUME NEW s \in SUBSET (1 .. N), s # {}, it[s \ {Max(s)}] \in A PROVE it[s] \in A
    <2>1. Max(s) \in 1 .. N BY <1>1, <1>7, Positions
    <2>2. it[s] = GetExOption(it[s \ {Max(s)}], k, opts[Max(s)], u, t) BY <1>5, <1>7
    <2>3. opts[Max(s)] \in GetExOptions BY <1>1, <2>1
    <2> QED BY <1>7, <2>2, <2>3, GetExStep
  <1>8. it[1 .. N] \in A
    <2> HIDE DEF A, N, Def
    <2> QED BY <1>1, <1>6, <1>7, FoldClosed
  <1> QED BY <1>2, <1>8

LEMMA GetExEffect ==
    ASSUME NEW g, SoundDb(g), NEW k \in Keys, g[k] # NoEntry, NEW f \in GetExDbs(g, k), NEW t
    PROVE  Effect(g, f, {k}, t, FALSE, TRUE)
  <1>1. CASE f = g BY <1>1, NoEffect
  <1>2. CASE f = remove(g, k)
    <2>1. Effect(g, f, {k}, t, TRUE, TRUE) BY <1>2, RemoveEffect
    <2> QED BY <2>1 DEF Effect, Tame
  <1>3. CASE \E at \in Expiry : f = put(g, k, g[k].value, at)
    <2>1. PICK at \in Expiry : f = put(g, k, g[k].value, at) BY <1>3
    <2>2. /\ DOMAIN f = Keys /\ f[k].value = g[k].value /\ f[k].expire_at = at
          /\ \A j \in Keys \ {k} : f[j] = g[j]
      BY <2>1 DEF put, SoundDb
    <2>3. Sound(g[k].value) BY DEF SoundDb
    <2>4. Tame(g[k], f[k], t, FALSE, TRUE) BY <2>2, <2>3 DEF Tame
    <2>5. ASSUME NEW j \in Keys \ {k} PROVE Lapsed(g[j], f[j], t) BY <2>2 DEF Lapsed
    <2> QED BY <2>2, <2>4, <2>5, LapsedIsTame DEF Effect
  <1> QED BY <1>1, <1>2, <1>3 DEF GetExDbs

LEMMA GetexFits ==
    ASSUME NEW d, SoundDb(d), NEW c, Parsed(c), c.op = "GETEX",
           NEW n \in Nat, NEW ts \in Readings(n, MaxTime)
    PROVE  Fits(d, c, ts, getex(d, c, ts))
  <1> DEFINE out == getex(d, c, ts)
             got == typed_get(d, c.key, ts[1], "string", Null)
             old == get(d, c, ts)
             I == {i \in 1 .. Len(c.opts) : c.opts[i].kind = "UNKNOWN"}
             unknown == IF I # {} THEN Min(I) ELSE 0
             parsed == IF unknown = 0 THEN c.opts ELSE SubSeq(c.opts, 1, unknown)
             applied == GetExAll(old.db, parsed, c.key, ts[2], ts[3])
  <1>0. c.key \in Keys /\ c.opts \in Seq(GetExOptions)
    BY ParsedKey DEF Parsed, SeveralKeys, GetExOptions
  <1>1. Looked(d, c.key, ts[4], "string", Null, got) BY <1>0, Look, Clock
  <1>2. old.db = got.db BY DEF get, Reading, AndThen, Answer
  <1>3. old.reply[1] = "bulk" => got.db[c.key] # NoEntry
    <2> SUFFICES ASSUME got.db[c.key] = NoEntry PROVE old.reply[1] # "bulk" OBVIOUS
    <2>1. got.reply = Null BY <1>1 DEF Looked
    <2>2. old = got BY DEF get, Reading, AndThen
    <2> QED BY <2>1, <2>2 DEF Null
  <1>4. out.db = IF old.reply[1] # "bulk" THEN old.db ELSE applied
    BY DEF getex, SelectInSeq, GetExAll, Answer
  <1>5. parsed \in Seq(GetExOptions)
    <2>1. Len(c.opts) \in Nat BY <1>0
    <2>2. I # {} => Min(I) \in 1 .. Len(c.opts)
      <3>1. I \in SUBSET (1 .. Len(c.opts)) /\ I \in SUBSET Nat OBVIOUS
      <3> HIDE DEF I
      <3>2. I # {} => Min(I) \in I BY <3>1, NatMin
      <3> QED BY <3>1, <3>2
    <2> HIDE DEF I
    <2>3. unknown = 0 \/ unknown \in 1 .. Len(c.opts) BY <2>2
    <2> HIDE DEF unknown
    <2>4. unknown \in 1 .. Len(c.opts) => SubSeq(c.opts, 1, unknown) \in Seq(GetExOptions)
      BY <1>0, <2>1
    <2> QED BY <1>0, <2>3, <2>4
  <1>6. ~Keeps(c) BY DEF Keeps, Replacing
  <1> HIDE DEF out, got, old, parsed
  <1>7. /\ SoundDb(got.db) /\ DOMAIN got.db = Keys
        /\ \A j \in Keys : Lapsed(d[j], got.db[j], ts[4])
    BY <1>0, <1>1, LookedSound DEF Looked
  <1>8. Effect(got.db, out.db, {c.key}, ts[4], FALSE, TRUE)
    <2>1. CASE old.reply[1] # "bulk" BY <1>2, <1>4, <1>7, <2>1, NoEffect
    <2>2. CASE old.reply[1] = "bulk"
      <3>0. got.db[c.key] # NoEntry BY <1>3, <2>2
      <3>1. ts[2] \in Nat BY Clock
      <3>2. GetExAll(got.db, parsed, c.key, ts[2], ts[3]) \in GetExDbs(got.db, c.key)
        BY <1>0, <1>5, <1>7, <3>0, <3>1, GetExFold
      <3>3. out.db \in GetExDbs(got.db, c.key) BY <1>2, <1>4, <2>2, <3>2
      <3> QED BY <1>0, <1>7, <3>0, <3>3, GetExEffect
    <2> QED BY <2>1, <2>2
  <1>9. Effect(d, out.db, {c.key}, ts[4], FALSE, TRUE) BY <1>7, <1>8, LookThenEffect
  <1>10. Fits(d, c, ts, out) BY <1>6, <1>9, EffectFits, Clock
  <1> QED BY <1>10 DEF out

LEMMA RangeBounded ==
    ASSUME NEW N \in Nat, NEW f, \A i \in 1 .. N : f[i] \in Nat
    PROVE  \E b \in Nat : \A i \in 1 .. N : f[i] <= b
  <1> DEFINE T == {n \in Nat : n <= N => \E b \in Nat : \A i \in 1 .. n : f[i] <= b}
  <1>1. 0 \in T
    <2>1. \A i \in 1 .. 0 : f[i] <= 0 OBVIOUS
    <2> QED BY <2>1
  <1>2. ASSUME NEW n \in Nat, n \in T PROVE n + 1 \in T
    <2>1. CASE n + 1 <= N
      <3>1. PICK b \in Nat : \A i \in 1 .. n : f[i] <= b BY <1>2, <2>1
      <3>2. f[n + 1] \in Nat BY <2>1
      <3>3. \A i \in 1 .. n : f[i] \in Nat BY <2>1
      <3>4. b + f[n + 1] \in Nat /\ \A i \in 1 .. (n + 1) : f[i] <= b + f[n + 1]
        BY <3>1, <3>2, <3>3
      <3> QED BY <3>4
    <2> QED BY <2>1
  <1>3. N \in T
    <2> HIDE DEF T
    <2> QED BY <1>1, <1>2, Induction
  <1> QED BY <1>3

\* The strings that BITOP combines.
LEMMA GatheredBytes ==
    ASSUME NEW d, SoundDb(d), NEW keys \in Seq(Keys), keys # <<>>, Len(keys) <= Reads,
           NEW n \in Nat, NEW ts \in Readings(n, MaxTime), NEW found,
           found = Gathered(d, keys, ts, "string", Found(<<>>)), found.reply # WrongType
    PROVE  /\ DOMAIN found.reply[2] = 1 .. Len(keys)
           /\ \A i \in 1 .. Len(keys) : found.reply[2][i] \in ByteString
  <1> DEFINE look(i) == typed_get(d, keys[i], ts[i], "string", Found(<<>>)).reply
             failed == {i \in DOMAIN keys : look(i)[1] # "found"}
             last == IF failed = {} THEN Len(keys) ELSE Min(failed)
  <1>0. DOMAIN keys = 1 .. Len(keys) /\ Len(keys) \in Nat OBVIOUS
  <1>1. ASSUME NEW i \in 1 .. Len(keys)
        PROVE  look(i) = WrongType \/ (look(i)[1] = "found" /\ look(i)[2] \in ByteString)
    <2> DEFINE got == typed_get(d, keys[i], ts[i], "string", Found(<<>>))
    <2>1. ts[i] \in Nat /\ keys[i] \in Keys
      <3>1. i \in {1, 2, 3, 4} BY <1>0 DEF Reads
      <3>2. \A j \in {1, 2, 3, 4} : ts[j] \in Nat BY Clock
      <3> QED BY <3>1, <3>2
    <2>2. Looked(d, keys[i], ts[i], "string", Found(<<>>), got) BY <2>1, Look
    <2> HIDE DEF got
    <2>3. got.reply = WrongType \/ got.reply[2] \in ByteString BY <2>1, <2>2, OldBytes
    <2>4. got.reply = WrongType \/ got.reply[1] = "found"
      BY <2>2 DEF Looked, Reaches, Found
    <2> QED BY <2>3, <2>4 DEF got
  <1>2. failed = {}
    <2> SUFFICES ASSUME failed # {} PROVE FALSE OBVIOUS
    <2>1. failed \in SUBSET (1 .. Len(keys)) /\ failed \in SUBSET Nat BY <1>0
    <2>2. Min(failed) \in failed
      <3> HIDE DEF failed
      <3> QED BY <2>1, NatMin
    <2>3. found.reply = look(Min(failed)) BY DEF Gathered, Answer
    <2>4. Min(failed) \in 1 .. Len(keys) /\ look(Min(failed))[1] # "found" BY <2>1, <2>2
    <2> HIDE DEF look, failed
    <2> QED BY <1>1, <2>3, <2>4
  <1>3. found.reply[2] = [i \in DOMAIN keys |-> look(i)[2]]
    BY <1>2 DEF Gathered, Answer, Found
  <1>4. ASSUME NEW i \in 1 .. Len(keys) PROVE look(i)[2] \in ByteString
    <2>1. i \notin failed BY <1>2
    <2>2. look(i)[1] = "found" BY <2>1, <1>0
    <2>3. WrongType[1] = "err" BY DEF WrongType, Err
    <2> HIDE DEF look, failed
    <2> QED BY <1>1, <2>2, <2>3
  <1> HIDE DEF look, failed
  <1> QED BY <1>0, <1>3, <1>4

LEMMA CombinedBit ==
    ASSUME NEW N \in Nat, N >= 1, NEW sources, DOMAIN sources = 1 .. N,
           \A i \in 1 .. N : sources[i] \in ByteString, NEW b \in Nat
    PROVE  LET bits == {get_bit(sources[i], b) : i \in DOMAIN sources}
               odd == Cardinality({i \in DOMAIN sources : get_bit(sources[i], b) = 1}) % 2
           IN  /\ Min(bits) \in {0, 1} /\ Max(bits) \in {0, 1} /\ odd \in {0, 1}
               /\ 1 - get_bit(sources[1], b) \in {0, 1}
  <1> DEFINE bits == {get_bit(sources[i], b) : i \in DOMAIN sources}
             ones == {i \in DOMAIN sources : get_bit(sources[i], b) = 1}
  <1>0. 1 \in 1 .. N OBVIOUS
  <1>1. \A i \in 1 .. N : get_bit(sources[i], b) \in {0, 1} BY GetBit
  <1>2. bits \in SUBSET {0, 1} BY <1>1
  <1>3. bits # {} BY <1>0
  <1>4. Min(bits) \in {0, 1}
    <2> HIDE DEF bits
    <2>1. bits \in SUBSET Nat BY <1>2
    <2>2. Min(bits) \in bits BY <1>3, <2>1, NatMin
    <2> QED BY <1>2, <2>2
  <1>5. Max(bits) \in {0, 1}
    <2> HIDE DEF bits
    <2>1. bits \in SUBSET Int /\ \A x \in bits : x <= 1 BY <1>2
    <2>2. Max(bits) \in bits BY <1>3, <2>1, BoundedMax
    <2> QED BY <1>2, <2>2
  <1>6. Cardinality(ones) % 2 \in {0, 1}
    <2>1. IsFiniteSet(1 .. N) BY FS_Interval
    <2>2. ones \subseteq 1 .. N OBVIOUS
    <2> HIDE DEF ones
    <2>3. IsFiniteSet(ones) BY <2>1, <2>2, FS_Subset
    <2>4. Cardinality(ones) \in Nat BY <2>3, FS_CardinalityType
    <2> QED BY <2>4
  <1>7. 1 - get_bit(sources[1], b) \in {0, 1}
    <2>1. get_bit(sources[1], b) \in {0, 1} BY <1>0, <1>1
    <2> QED BY <2>1
  <1> QED BY <1>4, <1>5, <1>6, <1>7

\* BITOP.
LEMMA BitopFits ==
    ASSUME NEW d, SoundDb(d), NEW c, Parsed(c), c.op = "BITOP",
           NEW n \in Nat, NEW ts \in Readings(n, MaxTime)
    PROVE  Fits(d, c, ts, bitop(d, c, ts))
  <1> DEFINE out == bitop(d, c, ts)
             found == Gathered(d, c.keys, ts, "string", Found(<<>>))
             sources == found.reply[2]
             len == Max({Len(sources[i]) : i \in DOMAIN sources})
             bits(b) == {get_bit(sources[i], b) : i \in DOMAIN sources}
             odd(b) == Cardinality({i \in DOMAIN sources : get_bit(sources[i], b) = 1}) % 2
             bit(b) == CASE c.kind = "AND" -> Min(bits(b))
                         [] c.kind = "OR"  -> Max(bits(b))
                         [] c.kind = "XOR" -> odd(b)
                         [] c.kind = "NOT" -> 1 - get_bit(sources[1], b)
             byte(i) == OfDigits([b \in 1 .. ByteBits |-> bit((i - 1) * ByteBits + (b - 1))])
             result == [i \in 1 .. len |-> byte(i)]
  <1>0. /\ c.keys \in Seq(Keys) /\ c.keys # <<>> /\ Len(c.keys) <= Reads /\ c.dst \in Keys
        /\ c.kind \in {"AND", "OR", "XOR", "NOT"}
    BY DEF Parsed, SeveralKeys
  <1>1. ~Keeps(c) BY DEF Keeps, Replacing
  <1>2. DOMAIN found.db = Keys /\ \A j \in Keys : Lapsed(d[j], found.db[j], ts[4])
    BY <1>0, GatheredLapses
  <1>3. CASE c.kind = "NOT" /\ Len(c.keys) # 1
    <2>1. out.db = d BY <1>3 DEF bitop, Answer
    <2> HIDE DEF out
    <2>2. Effect(d, out.db, {}, ts[4], TRUE, TRUE) BY <2>1, NoEffect
    <2>3. Fits(d, c, ts, out) BY <2>2, EffectFits, Clock
    <2> QED BY <2>3 DEF out
  <1>4. CASE ~(c.kind = "NOT" /\ Len(c.keys) # 1) /\ found.reply = WrongType
    <2>1. out = found BY <1>4 DEF bitop
    <2> HIDE DEF out, found
    <2>2. Effect(d, out.db, {}, ts[4], TRUE, TRUE) BY <1>2, <2>1, LapsesEffect
    <2>3. Fits(d, c, ts, out) BY <2>2, EffectFits, Clock
    <2> QED BY <2>3 DEF out
  <1>5. CASE ~(c.kind = "NOT" /\ Len(c.keys) # 1) /\ found.reply # WrongType
    <2> DEFINE N == Len(c.keys)
    <2>1. out.db = IF len = 0 THEN remove(found.db, c.dst)
                   ELSE put(found.db, c.dst, Str(result), NoTtl)
      BY <1>5 DEF bitop, Answer, ByteOf, set
    <2>2. DOMAIN sources = 1 .. N /\ \A i \in 1 .. N : sources[i] \in ByteString
      <3> HIDE DEF sources
      <3>1. found = Gathered(d, c.keys, ts, "string", Found(<<>>)) OBVIOUS
      <3> HIDE DEF found
      <3> QED BY <1>0, <1>5, <3>1, GatheredBytes DEF sources
    <2>3. N \in Nat /\ N >= 1 BY <1>0
    <2> HIDE DEF out, found, sources, N
    <2>4. len \in Nat
      <3> DEFINE f == [i \in 1 .. N |-> Len(sources[i])]
                 L == {Len(sources[i]) : i \in DOMAIN sources}
      <3>1. \A i \in 1 .. N : f[i] = Len(sources[i]) /\ Len(sources[i]) \in Nat
        BY <2>2 DEF ByteString
      <3>2. PICK b \in Nat : \A i \in 1 .. N : f[i] <= b
        <4> HIDE DEF f
        <4> QED BY <2>3, <3>1, RangeBounded
      <3>3. L \in SUBSET Nat /\ L \in SUBSET Int /\ \A x \in L : x <= b BY <2>2, <3>1, <3>2
      <3>4. L # {}
        <4>1. 1 \in DOMAIN sources BY <2>2, <2>3
        <4> QED BY <4>1
      <3> HIDE DEF L
      <3>5. Max(L) \in L BY <3>3, <3>4, BoundedMax
      <3>6. Max(L) \in Nat BY <3>3, <3>5
      <3> QED BY <3>6 DEF L
    <2> HIDE DEF len
    <2>5. ASSUME NEW i \in 1 .. len PROVE byte(i) \in Byte
      <3> DEFINE f == [b \in 1 .. ByteBits |-> bit((i - 1) * ByteBits + (b - 1))]
      <3>1. ByteBits \in Nat BY ValuesAssumption
      <3>2. ASSUME NEW b \in 1 .. ByteBits PROVE bit((i - 1) * ByteBits + (b - 1)) \in {0, 1}
        <4> DEFINE p == (i - 1) * ByteBits + (b - 1)
        <4>1. p \in Nat
          <5>1. i - 1 \in Nat BY <2>4
          <5>2. (i - 1) * ByteBits \in Nat BY <3>1, <5>1
          <5> QED BY <3>1, <5>2
        <4> HIDE DEF p
        <4>2. /\ Min(bits(p)) \in {0, 1} /\ Max(bits(p)) \in {0, 1} /\ odd(p) \in {0, 1}
              /\ 1 - get_bit(sources[1], p) \in {0, 1}
          BY <2>2, <2>3, <4>1, CombinedBit
        <4>3. bit(p) \in {0, 1}
          <5> HIDE DEF bits, odd
          <5> QED BY <1>0, <4>2
        <4> QED BY <4>3 DEF p
      <3> HIDE DEF bit
      <3>3. f \in [1 .. ByteBits -> {0, 1}] BY <3>2
      <3> HIDE DEF f
      <3>4. OfDigits(f) \in Byte BY <3>3, OfDigitsByte
      <3> QED BY <3>4 DEF f
    <2> HIDE DEF byte
    <2>6. result \in [1 .. len -> Byte] BY <2>5
    <2> HIDE DEF result
    <2>7. result \in ByteString BY <2>4, <2>6, BytesByPosition
    <2>8. SoundDb(found.db) BY <1>2, LapsesEffect
    <2>9. Effect(found.db, out.db, {c.dst}, ts[4], FALSE, TRUE)
      <3>1. CASE len = 0
        <4>1. Effect(found.db, out.db, {c.dst}, ts[4], TRUE, TRUE)
          BY <1>0, <2>1, <2>8, <3>1, RemoveEffect
        <4> QED BY <4>1 DEF Effect, Tame
      <3>2. CASE len # 0 BY <1>0, <2>1, <2>7, <2>8, <3>2, StrPutEffect, NoTtlExpiry
      <3> QED BY <3>1, <3>2
    <2>10. Effect(d, out.db, {c.dst}, ts[4], FALSE, TRUE) BY <1>2, <2>9, LookThenEffect
    <2>11. Fits(d, c, ts, out) BY <1>1, <2>10, EffectFits, Clock
    <2> QED BY <2>11 DEF out
  <1> QED BY <1>3, <1>4, <1>5

LEMMA StringReads ==
    ASSUME NEW d, SoundDb(d), NEW c, Parsed(c),
           c.op \in {"GET", "STRLEN", "GETRANGE", "GETBIT", "BITCOUNT", "BITPOS"},
           NEW n \in Nat, NEW ts \in Readings(n, MaxTime), NEW out \in string_command(d, c, ts)
    PROVE  Fits(d, c, ts, out)
  <1>0. c.key \in Keys BY ParsedKey DEF SeveralKeys
  <1>1. CASE c.op = "GET"
    <2>1. out = get(d, c, ts) BY <1>1 DEF string_command
    <2>2. out.db = purge_if_expired(d, c.key, ts[1])
      BY <2>1 DEF get, Reading, AndThen, typed_get, Answer
    <2> QED BY <2>2, <1>0, ReadFits
  <1>2. CASE c.op = "STRLEN"
    <2>1. out = strlen(d, c, ts) BY <1>2 DEF string_command
    <2>2. out.db = purge_if_expired(d, c.key, ts[1])
      BY <2>1 DEF strlen, Reading, AndThen, typed_get, Answer
    <2> QED BY <2>2, <1>0, ReadFits
  <1>3. CASE c.op = "GETRANGE"
    <2>1. out = getrange(d, c, ts) BY <1>3 DEF string_command
    <2>2. out.db = purge_if_expired(d, c.key, ts[1])
      BY <2>1 DEF getrange, Reading, AndThen, typed_get, Answer
    <2> QED BY <2>2, <1>0, ReadFits
  <1>4. CASE c.op = "GETBIT"
    <2>1. out = getbit(d, c, ts) BY <1>4 DEF string_command
    <2>2. out.db \in {d, purge_if_expired(d, c.key, ts[1])}
      BY <2>1 DEF getbit, Reading, AndThen, typed_get, Answer
    <2> QED BY <2>2, <1>0, ReadFits
  <1>5. CASE c.op = "BITCOUNT"
    <2>1. out = bitcount(d, c, ts) BY <1>5 DEF string_command
    <2>2. out.db = purge_if_expired(d, c.key, ts[1])
      BY <2>1 DEF bitcount, Reading, AndThen, typed_get, Answer
    <2> QED BY <2>2, <1>0, ReadFits
  <1>6. CASE c.op = "BITPOS"
    <2>1. out = bitpos(d, c, ts) BY <1>6 DEF string_command
    <2>2. out.db = purge_if_expired(d, c.key, ts[1])
      BY <2>1 DEF bitpos, Reading, AndThen, typed_get, Answer
    <2> QED BY <2>2, <1>0, ReadFits
  <1> QED BY <1>1, <1>2, <1>3, <1>4, <1>5, <1>6

\* Every string and bit command.
LEMMA StringCommandFits ==
    ASSUME NEW d, SoundDb(d), NEW c, Parsed(c), c.op \in StringHandlers,
           NEW n \in Nat, NEW ts \in Readings(n, MaxTime), NEW out \in string_command(d, c, ts)
    PROVE  Fits(d, c, ts, out)
  <1>1. CASE c.op = "SETNX" BY <1>1, SetnxFits DEF string_command
  <1>2. CASE c.op = "SETEX" BY <1>2, SetexFits DEF string_command
  <1>3. CASE c.op = "GETSET" BY <1>3, GetsetFits DEF string_command
  <1>4. CASE c.op = "GETDEL" BY <1>4, GetdelFits DEF string_command
  <1>5. CASE c.op = "GETEX" BY <1>5, GetexFits DEF string_command
  <1>6. CASE c.op = "APPEND" BY <1>6, AppendFits DEF string_command
  <1>7. CASE c.op = "INCR" BY <1>7, IncrFits DEF string_command
  <1>8. CASE c.op = "INCRBYFLOAT" BY <1>8, IncrbyfloatFits DEF string_command
  <1>9. CASE c.op = "MGET" BY <1>9, MgetFits DEF string_command
  <1>10. CASE c.op \in {"MSET", "MSETNX"}
    <2>1. out = IF c.op = "MSET" THEN mset(d, c, ts) ELSE msetnx(d, c, ts)
      BY <1>10 DEF string_command
    <2> QED BY <1>10, <2>1, MsetFits
  <1>11. CASE c.op = "SETRANGE" BY <1>11, SetrangeFits DEF string_command
  <1>12. CASE c.op = "SETBIT" BY <1>12, SetbitFits DEF string_command
  <1>13. CASE c.op = "BITOP" BY <1>13, BitopFits DEF string_command
  <1>14. CASE c.op \in {"GET", "STRLEN", "GETRANGE", "GETBIT", "BITCOUNT", "BITPOS"}
    BY <1>14, StringReads
  <1> QED BY <1>1, <1>2, <1>3, <1>4, <1>5, <1>6, <1>7, <1>8, <1>9, <1>10, <1>11, <1>12, <1>13, <1>14
          DEF StringHandlers

-----------------------------------------------------------------------------
(* SET, DEL and EXPIRE *)

\* What a purge of key k leaves.
Purged(d, k, t, p) ==
    /\ SoundDb(p) /\ DOMAIN p = Keys
    /\ \A j \in Keys : Lapsed(d[j], p[j], t)
    /\ \E old : old.db = p /\ Looked(d, k, t, "string", Null, old)

\* purge_if_expired.
LEMMA Purge ==
    ASSUME NEW d, SoundDb(d), NEW k \in Keys, NEW u \in Nat, NEW t \in Nat, u <= t
    PROVE  Purged(d, k, t, purge_if_expired(d, k, u))
  <1> DEFINE old == typed_get(d, k, u, "string", Null)
             p == purge_if_expired(d, k, u)
  <1>1. old.db = p BY DEF typed_get, Answer
  <1>2. Looked(d, k, t, "string", Null, old) BY Look
  <1> HIDE DEF old, p
  <1>3. SoundDb(old.db) /\ DOMAIN old.db = Keys /\ \A j \in Keys : Lapsed(d[j], old.db[j], t)
    BY <1>2, LookedSound DEF Looked
  <1>4. Purged(d, k, t, p) BY <1>1, <1>2, <1>3 DEF Purged
  <1> QED BY <1>4 DEF p

\* SET, which replaces value and expiry.
LEMMA SetFits ==
    ASSUME NEW d, SoundDb(d), NEW c, Parsed(c), c.op = "SET",
           NEW n \in Nat, NEW ts \in Readings(n, MaxTime), NEW out, out.db = Set(d, c, ts)
    PROVE  Fits(d, c, ts, out)
  <1> DEFINE p == purge_if_expired(d, c.key, ts[3])
             at == SetDeadline(c, ts[1])
  <1>0. c.key \in Keys /\ c.val \in ByteString /\ c.px \in Nat \cup {NoTtl}
    BY ParsedKey DEF Parsed, SeveralKeys
  <1>1. ~Keeps(c) BY DEF Keeps, Replacing
  <1>2. out.db \in {d, p, set_keep_ttl(p, c.key, Str(c.val)), put(p, c.key, Str(c.val), at)}
    BY DEF Set
  <1>3. at \in Expiry BY <1>0, Clock DEF Expiry, SetDeadline
  <1>4. /\ SoundDb(p) /\ DOMAIN p = Keys /\ \A j \in Keys : Lapsed(d[j], p[j], ts[4])
        /\ \E old : old.db = p /\ Looked(d, c.key, ts[4], "string", Null, old)
    <2>1. Purged(d, c.key, ts[4], p) BY <1>0, Purge, Clock
    <2> HIDE DEF p
    <2> QED BY <2>1 DEF Purged
  <1> HIDE DEF p, at
  <1>5. CASE out.db \in {d, p}
    <2>1. Effect(d, out.db, {}, ts[4], TRUE, TRUE) BY <1>4, <1>5, NoEffect, LapsesEffect
    <2> QED BY <2>1, EffectFits, Clock
  <1>6. CASE out.db = set_keep_ttl(p, c.key, Str(c.val))
    <2>1. PICK old : old.db = p /\ Looked(d, c.key, ts[4], "string", Null, old) BY <1>4
    <2>2. Rewritten(old, c.key, out.db) BY <1>0, <1>6, <2>1 DEF Rewritten
    <2> QED BY <1>0, <2>1, <2>2, RewrittenFits
  <1>7. CASE out.db = put(p, c.key, Str(c.val), at)
    <2>1. Effect(p, out.db, {c.key}, ts[4], FALSE, TRUE) BY <1>0, <1>3, <1>4, <1>7, StrPutEffect
    <2>2. Effect(d, out.db, {c.key}, ts[4], FALSE, TRUE) BY <1>4, <2>1, LookThenEffect
    <2> QED BY <1>1, <2>2, EffectFits, Clock
  <1> QED BY <1>2, <1>5, <1>6, <1>7

\* DEL.
LEMMA DelFits ==
    ASSUME NEW d, SoundDb(d), NEW c, NEW ts, NEW out, out.db = Del(d, c)
    PROVE  Fits(d, c, ts, out)
  BY DEF Fits, Del, Tame

\* EXPIRE, which removes the key where the time is not in the future.
LEMMA ExpireFits ==
    ASSUME NEW d, SoundDb(d), NEW c, Parsed(c), c.op = "EXPIRE",
           NEW n \in Nat, NEW ts \in Readings(n, MaxTime), NEW out, out.db = Expire(d, c, ts)
    PROVE  Fits(d, c, ts, out)
  <1> DEFINE p == purge_if_expired(d, c.key, ts[1])
             q == purge_if_expired(d, c.key, ts[3])
             at == IF c.relative THEN ts[2] + c.n ELSE c.n
             opts == c.opts
             clash == \/ "NX" \in opts /\ opts # {"NX"}
                      \/ {"GT", "LT"} \subseteq opts
             current == expire_at(d, c.key, ts[3])
             ok == CASE "NX" \in opts -> current = NoTtl
                     [] "NX" \notin opts /\ "XX" \in opts -> current # NoTtl
                     [] opts = {"GT"} -> current # NoTtl /\ at > current
                     [] opts = {"LT"} -> current = NoTtl \/ at < current
                     [] OTHER -> TRUE
  <1>0. c.key \in Keys /\ c.n \in Int BY ParsedKey DEF Parsed, SeveralKeys
  <1>1. ~Keeps(c) BY DEF Keeps, Replacing
  <1>2. out.db \in {d, p, q, remove(d, c.key)}
        \/ (~(at <= ts[2]) /\ out.db = set_expire(q, c.key, at, ts[4]))
    <2>1. out.db = IF clash \/ ~contains(d, c.key, ts[1]) THEN IF clash THEN d ELSE p
                   ELSE IF ~ok THEN q
                   ELSE IF at <= ts[2] THEN remove(d, c.key)
                   ELSE set_expire(q, c.key, at, ts[4])
      BY Zenon DEF Expire
    <2> HIDE DEF p, q, at, clash, ok
    <2> QED BY <2>1
  <1>3. /\ SoundDb(p) /\ DOMAIN p = Keys /\ \A j \in Keys : Lapsed(d[j], p[j], ts[4])
    <2>1. Purged(d, c.key, ts[4], p) BY <1>0, Purge, Clock
    <2> HIDE DEF p
    <2> QED BY <2>1 DEF Purged
  <1>4. /\ SoundDb(q) /\ DOMAIN q = Keys /\ \A j \in Keys : Lapsed(d[j], q[j], ts[4])
    <2>1. Purged(d, c.key, ts[4], q) BY <1>0, Purge, Clock
    <2> HIDE DEF q
    <2> QED BY <2>1 DEF Purged
  <1>5. ~(at <= ts[2]) => at \in Expiry
    <2>1. at \in Int /\ ts[2] \in Nat BY <1>0, Clock
    <2> HIDE DEF at
    <2> QED BY <2>1 DEF Expiry
  <1> HIDE DEF p, q, at
  <1>6. CASE out.db \in {d, p, q, remove(d, c.key)}
    <2>1. Effect(d, out.db, {c.key}, ts[4], TRUE, TRUE)
      BY <1>0, <1>3, <1>4, <1>6, NoEffect, LapsesEffect, RemoveEffect
    <2> QED BY <2>1, EffectFits, Clock
  <1>7. CASE ~(at <= ts[2]) /\ out.db = set_expire(q, c.key, at, ts[4])
    <2>1. Effect(q, out.db, {c.key}, ts[4], FALSE, TRUE)
      <3>1. CASE q[c.key] = NoEntry
        <4>1. out.db = q
          BY <1>7, <3>1 DEF set_expire, contains, LiveEntry, purge_if_expired, Expired
        <4> QED BY <4>1, <1>4, NoEffect
      <3>2. CASE q[c.key] # NoEntry
        <4>1. q \in GetExDbs(q, c.key) BY DEF GetExDbs
        <4>2. at \in Expiry BY <1>5, <1>7
        <4>3. out.db \in GetExDbs(q, c.key)
          BY <1>0, <1>4, <1>7, <3>2, <4>1, <4>2, SetExpireCloses
        <4> QED BY <1>0, <1>4, <3>2, <4>3, GetExEffect
      <3> QED BY <3>1, <3>2
    <2>2. Effect(d, out.db, {c.key}, ts[4], FALSE, TRUE) BY <1>4, <2>1, LookThenEffect
    <2> QED BY <1>1, <2>2, EffectFits, Clock
  <1> QED BY <1>2, <1>6, <1>7

-----------------------------------------------------------------------------
(* Streams *)

\* From one state of a stream to a later one.
Grows(old, new) ==
    /\ new.last_id >= old.last_id
    /\ \A id \in DOMAIN new.entries :
          IF id \in DOMAIN old.entries THEN new.entries[id] = old.entries[id]
          ELSE id > old.last_id

StreamTame(e, f, t) ==
    /\ f.expire_at \in Expiry /\ Sound(f.value) /\ f.value.type = "stream"
    /\ LiveEntry(e, t) => f.expire_at = e.expire_at
    /\ IsStream(e) /\ LiveEntry(e, t) => Grows(e.value.data, f.value.data)

\* What every outcome of a command is shown to be.
Suits(d, c, ts, out) ==
    /\ DOMAIN out.db = Keys
    /\ \A j \in Keys : \/ Tame(d[j], out.db[j], ts[Reads], Keeps(c), ~IsError(out.reply))
                       \/ StreamTame(d[j], out.db[j], ts[Reads])

\* Key k of database d with a stream changed in place, the others lapsed at most.
StreamEffect(d, f, k, t) ==
    /\ DOMAIN f = Keys
    /\ \A j \in Keys \ {k} : Lapsed(d[j], f[j], t)
    /\ Tame(d[k], f[k], t, TRUE, TRUE) \/ StreamTame(d[k], f[k], t)

\* What fits suits: the change of a stream in place is one possibility more.
LEMMA FitsSuits ==
    ASSUME NEW d, NEW c, NEW ts, NEW out, Fits(d, c, ts, out)
    PROVE  Suits(d, c, ts, out)
  BY DEF Fits, Suits

LEMMA StreamEffectSuits ==
    ASSUME NEW d, NEW k \in Keys, NEW c, NEW ts, NEW out, StreamEffect(d, out.db, k, ts[Reads])
    PROVE  Suits(d, c, ts, out)
  <1>1. ASSUME NEW j \in Keys
        PROVE  \/ Tame(d[j], out.db[j], ts[Reads], Keeps(c), ~IsError(out.reply))
               \/ StreamTame(d[j], out.db[j], ts[Reads])
    <2>1. CASE j # k
      <3>1. Lapsed(d[j], out.db[j], ts[Reads]) BY <2>1 DEF StreamEffect
      <3> QED BY <3>1 DEF Lapsed, Tame
    <2>2. CASE j = k
      <3>1. CASE Tame(d[k], out.db[k], ts[Reads], TRUE, TRUE) BY <2>2, <3>1 DEF Tame
      <3>2. CASE StreamTame(d[k], out.db[k], ts[Reads]) BY <2>2, <3>2
      <3> QED BY <3>1, <3>2 DEF StreamEffect
    <2> QED BY <2>1, <2>2
  <1> QED BY <1>1 DEF Suits, StreamEffect

LEMMA LapseThenStream ==
    ASSUME NEW d, SoundDb(d), NEW k \in Keys, NEW g, NEW f, NEW t,
           \A j \in Keys : Lapsed(d[j], g[j], t), StreamEffect(g, f, k, t)
    PROVE  StreamEffect(d, f, k, t)
  <1>1. ASSUME NEW j \in Keys \ {k} PROVE Lapsed(d[j], f[j], t)
    BY DEF StreamEffect, Lapsed, Expired
  <1>2. CASE Tame(g[k], f[k], t, TRUE, TRUE)
    <2>1. Tame(d[k], f[k], t, TRUE, TRUE) BY <1>2, LapseThenTame DEF SoundDb
    <2> QED BY <1>1, <2>1 DEF StreamEffect
  <1>3. CASE StreamTame(g[k], f[k], t)
    <2>1. Lapsed(d[k], g[k], t) OBVIOUS
    <2>2. LiveEntry(d[k], t) => g[k] = d[k] BY <2>1 DEF Lapsed, LiveEntry
    <2>3. StreamTame(d[k], f[k], t) BY <1>3, <2>2 DEF StreamTame
    <2> QED BY <1>1, <2>3 DEF StreamEffect
  <1> QED BY <1>2, <1>3 DEF StreamEffect

LEMMA FreshStream ==
    /\ StreamOK(Fresh["stream"]) /\ Sound(Held("stream", Fresh["stream"]))
  <1>1. Fresh["stream"] = [entries |-> [i \in {} |-> 0], last_id |-> 0, max_deleted_id |-> 0]
    BY DEF Fresh
  <1>2. StreamOK([entries |-> [i \in {} |-> 0], last_id |-> 0, max_deleted_id |-> 0])
    BY DEF StreamOK
  <1> QED BY <1>1, <1>2 DEF Sound, Held

\* The stream that get_or_create gives.
LEMMA MadeStream ==
    ASSUME NEW d, SoundDb(d), NEW k \in Keys, NEW t, NEW got, Made(d, k, t, "stream", got),
           Reaches(got, "stream", k)
    PROVE  StreamOK(got.db[k].value.data) /\ got.db[k].expire_at \in Expiry
  <1>1. CASE got.db[k] # NoEntry /\ got.db[k] = d[k]
    BY <1>1 DEF SoundDb, Sound, Reaches
  <1>2. CASE got.db[k] = [value |-> Held("stream", Fresh["stream"]), expire_at |-> NoTtl]
    <2>1. got.db[k].value.data = Fresh["stream"] /\ got.db[k].expire_at = NoTtl
      BY <1>2 DEF Held
    <2> QED BY <2>1, FreshStream, NoTtlExpiry
  <1> QED BY <1>1, <1>2 DEF Made

LEMMA MadeStreamEffect ==
    ASSUME NEW d, SoundDb(d), NEW k \in Keys, NEW t, NEW got, Made(d, k, t, "stream", got), NEW ch,
           Reaches(got, "stream", k) =>
               StreamOK(ch.data) /\ Grows(got.db[k].value.data, ch.data)
    PROVE  StreamEffect(d, After(got, "stream", k, Stored(got.db, k, "stream", ch)).db, k, t)
  <1> DEFINE e == [value |-> Held("stream", ch.data), expire_at |-> got.db[k].expire_at]
             f == After(got, "stream", k, Stored(got.db, k, "stream", ch)).db
  <1>1. CASE ~Reaches(got, "stream", k)
    <2>1. f = got.db BY <1>1 DEF After, Reaches
    <2>2. Tame(d[k], got.db[k], t, TRUE, TRUE)
      BY <1>1 DEF Made, Reaches, Held, Tame
    <2> QED BY <2>1, <2>2 DEF StreamEffect, Made
  <1>2. CASE Reaches(got, "stream", k)
    <2>1. DOMAIN f = Keys /\ f[k] = e /\ \A j \in Keys \ {k} : f[j] = got.db[j]
      BY <1>2 DEF After, Reaches, Stored, Answer, put, Made
    <2>2. /\ e.expire_at \in Expiry
          /\ LiveEntry(d[k], t) => e.expire_at = d[k].expire_at /\ got.db[k] = d[k]
      BY <1>2, MadeStream DEF Made
    <2>3. e.value = Held("stream", ch.data) /\ e.value.type = "stream" /\ e.value.data = ch.data
      BY DEF Held
    <2>4. Sound(e.value) BY <1>2, <2>3 DEF Sound
    <2> HIDE DEF e, f
    <2>5. StreamTame(d[k], f[k], t) BY <1>2, <2>1, <2>2, <2>3, <2>4 DEF StreamTame
    <2>6. StreamEffect(d, f, k, t) BY <2>1, <2>5 DEF StreamEffect, Made
    <2> QED BY <2>6 DEF f
  <1> QED BY <1>1, <1>2

LEMMA LookedMade ==
    ASSUME NEW d, SoundDb(d), NEW k \in Keys, NEW t, NEW absent, NEW got,
           Looked(d, k, t, "stream", absent, got), NEW ch,
           Reaches(got, "stream", k) =>
               StreamOK(ch.data) /\ Grows(got.db[k].value.data, ch.data)
    PROVE  StreamEffect(d, After(got, "stream", k, Stored(got.db, k, "stream", ch)).db, k, t)
  <1>1. CASE Reaches(got, "stream", k)
    <2>1. Made(d, k, t, "stream", got) BY <1>1 DEF Looked, Made, Reaches
    <2> QED BY <1>1, <2>1, MadeStreamEffect
  <1>2. CASE ~Reaches(got, "stream", k)
    <2>1. After(got, "stream", k, Stored(got.db, k, "stream", ch)) = got
      BY <1>2 DEF After, Reaches
    <2>2. Tame(d[k], got.db[k], t, TRUE, TRUE) BY LapsedIsTame DEF Looked
    <2> QED BY <2>1, <2>2 DEF StreamEffect, Looked
  <1> QED BY <1>1, <1>2

\* An id that XADD accepts is newer than all before it.
LEMMA AddId ==
    ASSUME NEW s, StreamOK(s), NEW arg, NEW now_ \in Nat,
           arg.kind \in {"auto", "msauto", "full"},
           arg.kind = "msauto" => arg.ms \in Nat,
           arg.kind = "full" => arg.id \in Nat,
           NEW id, id = resolve_add_id(arg, s, now_), id # <<>>
    PROVE  id[1] \in Nat /\ id[1] > s.last_id
  <1> DEFINE a == s.last_id
  <1>1. a \in Nat BY DEF StreamOK
  <1>2. CASE id = <<a + 1>> BY <1>1, <1>2
  <1>3. CASE arg.kind = "auto" /\ now_ > Millis(a) /\ id = <<now_ * Seqs>>
    <2>1. Seqs \in Nat /\ Seqs > 0 BY StreamsAssumption
    <2>2. now_ * Seqs > a
      <3>1. now_ > a \div Seqs BY <1>3 DEF Millis
      <3> HIDE DEF a
      <3> QED BY <1>1, <2>1, <3>1
    <2>3. now_ * Seqs \in Nat BY <2>1
    <2> QED BY <1>3, <2>2, <2>3
  <1>4. CASE arg.kind = "msauto" /\ arg.ms * Seqs > a /\ id = <<arg.ms * Seqs>>
    <2>1. arg.ms * Seqs \in Nat BY <1>4, StreamsAssumption
    <2> QED BY <1>4, <2>1
  <1>5. CASE arg.kind = "full" /\ arg.id > a /\ id = <<arg.id>> BY <1>5
  <1> QED BY <1>2, <1>3, <1>4, <1>5 DEF resolve_add_id

\* XDEL: the last id stays, the newest deleted id never passes it.
LEMMA DeletedStream ==
    ASSUME NEW s, StreamOK(s), NEW ids
    PROVE  StreamOK(Deleted(s, ids)) /\ \A old : Grows(old, s) => Grows(old, Deleted(s, ids))
  <1> DEFINE M == {s.max_deleted_id} \cup (ids \cap DOMAIN s.entries)
             m == Max(M)
             x == Deleted(s, ids)
             E == [i \in DOMAIN s.entries \ ids |-> s.entries[i]]
  <1>1. s.last_id \in Nat /\ s.max_deleted_id \in Nat BY DEF StreamOK
  <1>2. M \in SUBSET Int /\ M \in SUBSET Nat /\ (\A y \in M : y <= s.last_id) /\ M # {}
    BY DEF StreamOK
  <1>3. m \in Nat /\ m <= s.last_id
    <2> DEFINE b == s.last_id
    <2>1. b \in Int /\ M \in SUBSET Int /\ (\A y \in M : y <= b) /\ M # {} BY <1>1, <1>2
    <2> HIDE DEF M, b
    <2>2. m \in M BY <2>1, BoundedMax
    <2> QED BY <1>2, <2>2
  <1>4. s = [entries |-> s.entries, last_id |-> s.last_id, max_deleted_id |-> s.max_deleted_id]
    BY DEF StreamOK
  <1>5. x = [entries |-> E, last_id |-> s.last_id, max_deleted_id |-> m]
    <2>1. x = [s EXCEPT !.entries = E, !.max_deleted_id = m]
      BY DEF Deleted, Without, Restrict
    <2> HIDE DEF E, m, x
    <2> QED BY <1>4, <2>1
  <1> HIDE DEF x, m
  <1>6. x.entries = E /\ x.last_id = s.last_id /\ x.max_deleted_id = m BY <1>5
  <1>7. DOMAIN E = DOMAIN s.entries \ ids /\ \A i \in DOMAIN E : E[i] = s.entries[i] OBVIOUS
  <1> HIDE DEF E
  <1>8. StreamOK(x) BY <1>1, <1>3, <1>5, <1>6, <1>7 DEF StreamOK
  <1>9. ASSUME NEW old, Grows(old, s) PROVE Grows(old, x)
    BY <1>6, <1>7, <1>9 DEF Grows
  <1> QED BY <1>8, <1>9 DEF x

\* apply_trim: the last id stays and no entry is added.
LEMMA TrimmedStream ==
    ASSUME NEW s, StreamOK(s), NEW trim
    PROVE  /\ StreamOK(apply_trim(s, trim))
           /\ \A old : Grows(old, s) => Grows(old, apply_trim(s, trim))
  <1>1. CASE trim = <<>> BY <1>1 DEF apply_trim
  <1>2. CASE trim # <<>>
    <2> DEFINE ids == TrimVictims(s, trim[1])
    <2>1. apply_trim(s, trim) = Deleted(s, ids) BY <1>2 DEF apply_trim
    <2> HIDE DEF ids
    <2> QED BY <2>1, DeletedStream
  <1> QED BY <1>1, <1>2

LEMMA GrowsSelf ==
    ASSUME NEW s, StreamOK(s)
    PROVE  Grows(s, s)
  BY DEF Grows, StreamOK

\* XADD: the new entry is newer than the last id and becomes it.
LEMMA AddedStream ==
    ASSUME NEW s, StreamOK(s), NEW id \in Nat, id > s.last_id, NEW fields
    PROVE  LET x == [s EXCEPT !.entries = Merged(@, [i \in {id} |-> fields]), !.last_id = id]
           IN  StreamOK(x) /\ Grows(s, x)
  <1> DEFINE E == Merged(s.entries, [i \in {id} |-> fields])
             x == [s EXCEPT !.entries = Merged(@, [i \in {id} |-> fields]), !.last_id = id]
  <1>1. s = [entries |-> s.entries, last_id |-> s.last_id, max_deleted_id |-> s.max_deleted_id]
    BY DEF StreamOK
  <1>2. x = [s EXCEPT !.entries = E, !.last_id = id] OBVIOUS
  <1>3. /\ DOMAIN E = DOMAIN s.entries \cup {id}
        /\ \A i \in DOMAIN s.entries : i # id => E[i] = s.entries[i]
    BY DEF Merged
  <1> HIDE DEF E, x
  <1>4. x = [entries |-> E, last_id |-> id, max_deleted_id |-> s.max_deleted_id] BY <1>1, <1>2
  <1>5. x.entries = E /\ x.last_id = id /\ x.max_deleted_id = s.max_deleted_id BY <1>4
  <1>6. /\ s.last_id \in Nat /\ s.max_deleted_id \in Nat /\ s.max_deleted_id <= s.last_id
        /\ \A i \in DOMAIN s.entries : i \in Nat /\ i <= s.last_id
    BY DEF StreamOK
  <1>7. StreamOK(x) BY <1>3, <1>4, <1>5, <1>6 DEF StreamOK
  <1>8. Grows(s, x)
    <2>1. id \notin DOMAIN s.entries BY <1>6
    <2> QED BY <1>3, <1>5, <1>6, <2>1 DEF Grows
  <1> QED BY <1>7, <1>8 DEF x

\* XADD with its trimming, NOMKSTREAM and refused ids.
LEMMA XaddSuits ==
    ASSUME NEW d, SoundDb(d), NEW c, Parsed(c), c.op = "XADD",
           NEW n \in Nat, NEW ts \in Readings(n, MaxTime)
    PROVE  Suits(d, c, ts, xadd(d, c, ts))
  <1> DEFINE out == xadd(d, c, ts)
             probe == typed_get(d, c.key, ts[1], "stream", Null)
             base == IF c.nomkstream THEN probe.db ELSE d
             got == get_or_create(base, c.key, ts[2], "stream")
             s == got.db[c.key].value.data
             id == resolve_add_id(c.id, s, ts[3])
             refused == id = <<>> \/ id = <<MinStreamId>>
             new == [s EXCEPT !.entries = Merged(@, [i \in {id[1]} |-> c.fields]),
                              !.last_id = id[1]]
             ch == IF refused THEN Change(s, Err("id"))
                   ELSE Change(apply_trim(new, c.trim), Bulk(id[1]))
             end == After(got, "stream", c.key, Stored(got.db, c.key, "stream", ch))
  <1>0. /\ c.key \in Keys /\ c.id.kind \in {"auto", "msauto", "full"}
        /\ c.id.kind = "msauto" => c.id.ms \in Nat
        /\ c.id.kind = "full" => c.id.id \in Nat
    <2>1. 0 .. MaxMs \subseteq Nat /\ 0 .. MaxStreamId \subseteq Nat OBVIOUS
    <2> QED BY <2>1, ParsedKey DEF Parsed, SeveralKeys
  <1>1. Looked(d, c.key, ts[4], "stream", Null, probe) BY <1>0, Look, Clock
  <1>2. out = IF c.nomkstream /\ probe.reply[1] # "found" THEN probe ELSE end
    BY DEF xadd, Creating, AndThen, After
  <1>3. ch.data = IF refused THEN s ELSE apply_trim(new, c.trim) BY DEF Change
  <1> HIDE DEF ch, end, out, probe
  <1>4. /\ SoundDb(probe.db) /\ \A j \in Keys : Lapsed(d[j], probe.db[j], ts[4])
        /\ DOMAIN probe.db = Keys
    BY <1>0, <1>1, LookedSound DEF Looked
  <1>5. SoundDb(base) /\ \A j \in Keys : Lapsed(d[j], base[j], ts[4]) BY <1>4 DEF Lapsed
  <1> HIDE DEF base
  <1>6. Made(base, c.key, ts[4], "stream", got) BY <1>0, <1>5, Make, Clock
  <1> HIDE DEF got
  <1>7. Reaches(got, "stream", c.key) => StreamOK(ch.data) /\ Grows(s, ch.data)
    <2> SUFFICES ASSUME Reaches(got, "stream", c.key)
                 PROVE  StreamOK(ch.data) /\ Grows(s, ch.data)
      OBVIOUS
    <2>1. StreamOK(s) BY <1>0, <1>5, <1>6, MadeStream
    <2> HIDE DEF s
    <2>2. CASE refused
      <3>1. ch.data = s BY <1>3, <2>2
      <3> QED BY <2>1, <3>1, GrowsSelf
    <2>3. CASE ~refused
      <3>1. id # <<>> BY <2>3
      <3>2. ts[3] \in Nat BY Clock
      <3>3. id[1] \in Nat /\ id[1] > s.last_id BY <1>0, <2>1, <3>1, <3>2, AddId
      <3> DEFINE i1 == id[1]
      <3>4. StreamOK(new) /\ Grows(s, new)
        <4> HIDE DEF id
        <4> QED BY <2>1, <3>3, AddedStream
      <3>5. ch.data = apply_trim(new, c.trim) BY <1>3, <2>3
      <3> HIDE DEF new
      <3> QED BY <3>4, <3>5, TrimmedStream
    <2> QED BY <2>2, <2>3
  <1>8. StreamEffect(base, end.db, c.key, ts[4])
    <2>1. Reaches(got, "stream", c.key) =>
              StreamOK(ch.data) /\ Grows(got.db[c.key].value.data, ch.data)
      BY <1>7
    <2> QED BY <1>0, <1>5, <1>6, <2>1, MadeStreamEffect DEF end
  <1>9. CASE out = end
    <2>1. StreamEffect(d, out.db, c.key, ts[4]) BY <1>0, <1>5, <1>8, <1>9, LapseThenStream
    <2>2. Suits(d, c, ts, out) BY <1>0, <2>1, StreamEffectSuits, Clock
    <2> QED BY <2>2 DEF out
  <1>10. CASE out = probe
    <2>1. Effect(d, out.db, {}, ts[4], TRUE, TRUE) BY <1>4, <1>10, LapsesEffect
    <2>2. Fits(d, c, ts, out) BY <2>1, EffectFits, Clock
    <2>3. Suits(d, c, ts, out) BY <2>2, FitsSuits
    <2> QED BY <2>3 DEF out
  <1> QED BY <1>2, <1>9, <1>10

\* XDEL and XTRIM.
LEMMA XremoveSuits ==
    ASSUME NEW d, SoundDb(d), NEW c, Parsed(c), c.op \in {"XDEL", "XTRIM"},
           NEW n \in Nat, NEW ts \in Readings(n, MaxTime),
           NEW out, out = IF c.op = "XDEL" THEN xdel(d, c, ts) ELSE xtrim(d, c, ts)
    PROVE  Suits(d, c, ts, out)
  <1> DEFINE got == typed_get(d, c.key, ts[1], "stream", Integer(0))
             s == got.db[c.key].value.data
             ch == IF c.op = "XDEL"
                   THEN Change(Deleted(s, c.ids), Integer(Cardinality(c.ids \cap DOMAIN s.entries)))
                   ELSE Change(apply_trim(s, <<c.trim>>), Integer(Cardinality(TrimVictims(s, c.trim))))
             end == After(got, "stream", c.key, Stored(got.db, c.key, "stream", ch))
  <1>0. c.key \in Keys BY ParsedKey DEF SeveralKeys
  <1>1. Looked(d, c.key, ts[4], "stream", Integer(0), got) BY <1>0, Look, Clock
  <1>2. out = end BY DEF xdel, xtrim, Updating, AndThen, After
  <1>3. ch.data = IF c.op = "XDEL" THEN Deleted(s, c.ids) ELSE apply_trim(s, <<c.trim>>)
    BY DEF Change
  <1> HIDE DEF ch, end, got
  <1>4. Reaches(got, "stream", c.key) => StreamOK(ch.data) /\ Grows(s, ch.data)
    <2> SUFFICES ASSUME Reaches(got, "stream", c.key)
                 PROVE  StreamOK(ch.data) /\ Grows(s, ch.data)
      OBVIOUS
    <2>1. StreamOK(s) BY <1>0, <1>1, LookedSound DEF Sound, Reaches
    <2> HIDE DEF s
    <2>2. Grows(s, s) BY <2>1, GrowsSelf
    <2>3. CASE c.op = "XDEL"
      <3>1. ch.data = Deleted(s, c.ids) BY <1>3, <2>3
      <3> QED BY <2>1, <2>2, <3>1, DeletedStream
    <2>4. CASE c.op # "XDEL"
      <3>1. ch.data = apply_trim(s, <<c.trim>>) BY <1>3, <2>4
      <3> QED BY <2>1, <2>2, <3>1, TrimmedStream
    <2> QED BY <2>3, <2>4
  <1>5. StreamEffect(d, end.db, c.key, ts[4])
    <2>1. Reaches(got, "stream", c.key) =>
              StreamOK(ch.data) /\ Grows(got.db[c.key].value.data, ch.data)
      BY <1>4
    <2> QED BY <1>0, <1>1, <2>1, LookedMade DEF end
  <1>6. StreamEffect(d, out.db, c.key, ts[Reads]) BY <1>2, <1>5, Clock
  <1> QED BY <1>0, <1>6, StreamEffectSuits

LEMMA XreadFits ==
    ASSUME NEW d, SoundDb(d), NEW c, Parsed(c), c.op = "XREAD",
           NEW n \in Nat, NEW ts \in Readings(n, MaxTime)
    PROVE  Fits(d, c, ts, xread(d, c, ts))
  <1> DEFINE out == xread(d, c, ts)
             found == Gathered(d, c.keys, ts, "stream", Found(Fresh.stream))
  <1>0. c.keys \in Seq(Keys) /\ Len(c.keys) <= Reads BY DEF Parsed, SeveralKeys
  <1>1. out.db = found.db BY DEF xread, Answer
  <1>2. DOMAIN found.db = Keys /\ \A j \in Keys : Lapsed(d[j], found.db[j], ts[4])
    BY <1>0, GatheredLapses
  <1> HIDE DEF found, out
  <1>3. Effect(d, out.db, {}, ts[4], TRUE, TRUE) BY <1>1, <1>2, LapsesEffect
  <1>4. Fits(d, c, ts, out) BY <1>3, EffectFits, Clock
  <1> QED BY <1>4 DEF out

LEMMA StreamReads ==
    ASSUME NEW d, SoundDb(d), NEW c, Parsed(c),
           c.op \in {"XLEN", "XRANGE"},
           NEW n \in Nat, NEW ts \in Readings(n, MaxTime), NEW out \in stream_command(d, c, ts)
    PROVE  Fits(d, c, ts, out)
  <1>0. c.key \in Keys BY ParsedKey DEF SeveralKeys
  <1>1. CASE c.op = "XLEN"
    <2>1. out = xlen(d, c, ts) BY <1>1 DEF stream_command
    <2>2. out.db = purge_if_expired(d, c.key, ts[1])
      BY <2>1 DEF xlen, Reading, AndThen, typed_get, Answer
    <2> QED BY <2>2, <1>0, ReadFits
  <1>2. CASE c.op = "XRANGE"
    <2>1. out \in xrange(d, c, ts) BY <1>2 DEF stream_command
    <2>2. out.db = typed_get(d, c.key, ts[1], "stream", Array(<<>>)).db
      BY <2>1 DEF xrange, Answer
    <2>3. out.db = purge_if_expired(d, c.key, ts[1]) BY <2>2 DEF typed_get, Answer
    <2> QED BY <2>3, <1>0, ReadFits
  <1> QED BY <1>1, <1>2

\* Every stream command.
LEMMA StreamCommandSuits ==
    ASSUME NEW d, SoundDb(d), NEW c, Parsed(c), c.op \in StreamHandlers,
           NEW n \in Nat, NEW ts \in Readings(n, MaxTime), NEW out \in stream_command(d, c, ts)
    PROVE  Suits(d, c, ts, out)
  <1>1. CASE c.op = "XADD" BY <1>1, XaddSuits DEF stream_command
  <1>2. CASE c.op \in {"XDEL", "XTRIM"}
    <2>1. out = IF c.op = "XDEL" THEN xdel(d, c, ts) ELSE xtrim(d, c, ts)
      BY <1>2 DEF stream_command
    <2> QED BY <1>2, <2>1, XremoveSuits
  <1>3. CASE c.op = "XREAD"
    <2>1. out = xread(d, c, ts) BY <1>3 DEF stream_command
    <2> QED BY <1>3, <2>1, XreadFits, FitsSuits
  <1>4. CASE c.op \in {"XLEN", "XRANGE"} BY <1>4, StreamReads, FitsSuits
  <1> QED BY <1>1, <1>2, <1>3, <1>4 DEF StreamHandlers

-----------------------------------------------------------------------------
(* Every command *)

\* DEBUG RELOAD of database d, for all readings from n on, as ReloadExact has it.
Reloads(d, n) ==
    \A t \in n .. MaxTime : \A clock \in [Keys -> t .. MaxTime] :
        reload(d, t, clock) = Answer(Outlived(d, clock), Ok)

\* Whenever its turn comes, a key at most lapses.
LEMMA OutlivedEffect ==
    ASSUME NEW d, SoundDb(d), NEW s \in Nat, NEW t \in Nat, NEW clock \in [Keys -> s .. t]
    PROVE  /\ DOMAIN Outlived(d, clock) = Keys
           /\ \A j \in Keys : Lapsed(d[j], Outlived(d, clock)[j], t)
  BY DEF Outlived, Lapsed, Expired, SoundDb, Expiry

\* sweep_expired: keys at most lapse.
LEMMA SweptEffect ==
    ASSUME NEW d, SoundDb(d), NEW u \in Nat, NEW t \in Nat, u <= t
    PROVE  /\ DOMAIN sweep_expired(d, u) = Keys
           /\ \A j \in Keys : Lapsed(d[j], sweep_expired(d, u)[j], t)
  BY DEF sweep_expired, Lapsed, Expired, SoundDb, Expiry

\* DEBUG RELOAD, as far as Reloads knows it.
LEMMA ReloadFits ==
    ASSUME NEW d, SoundDb(d), NEW c, NEW n \in Nat, NEW ts \in Readings(n, MaxTime),
           Reloads(d, n), NEW clock \in [Keys -> ts[1] .. ts[Reads]],
           NEW out, out = reload(d, ts[1], clock)
    PROVE  Fits(d, c, ts, out)
  <1> DEFINE t == ts[1]
             w == ts[4]
             f == Outlived(d, clock)
  <1>1. t \in n .. MaxTime /\ t \in Nat /\ w \in Nat /\ w <= MaxTime
    BY DataTypesAssumption DEF Readings, Reads
  <1>2. out = reload(d, t, clock) /\ clock \in [Keys -> t .. w] BY DEF Reads
  <1> HIDE DEF t, w
  <1>3. clock \in [Keys -> t .. MaxTime] BY <1>1, <1>2, DataTypesAssumption
  <1>4. DOMAIN f = Keys /\ \A j \in Keys : Lapsed(d[j], f[j], w) BY <1>1, <1>2, OutlivedEffect
  <1>5. out.db = f BY <1>1, <1>2, <1>3 DEF Reloads, Answer
  <1> HIDE DEF f
  <1>6. Effect(d, out.db, {}, w, TRUE, TRUE) BY <1>1, <1>4, <1>5, LapsesEffect
  <1> QED BY <1>6, EffectFits, Clock DEF w

\* Every outcome of every command.
LEMMA CommandSuits ==
    ASSUME NEW d, SoundDb(d), NEW c, Parsed(c), NEW n \in Nat, NEW ts \in Readings(n, MaxTime),
           c.op = "RELOAD" => Reloads(d, n), NEW out \in dispatch(d, c, ts)
    PROVE  Suits(d, c, ts, out)
  <1>1. CASE c.op \in ListHandlers
    <2>0. c.op \notin SetHandlers \cup HashHandlers \cup ZsetHandlers \cup StringHandlers
                      \cup StreamHandlers \cup {"SET", "DEL", "EXPIRE", "RELOAD", "MALFORMED"}
      BY <1>1 DEF ListHandlers, SetHandlers, HashHandlers, ZsetHandlers, StringHandlers,
                  StreamHandlers
    <2>1. out = list_command(d, c, ts) BY <1>1, <2>0 DEF dispatch
    <2> QED BY <1>1, <2>1, ListCommandFits, FitsSuits
  <1>2. CASE c.op \in SetHandlers
    <2>0. c.op \notin ListHandlers \cup HashHandlers \cup ZsetHandlers \cup StringHandlers
                      \cup StreamHandlers \cup {"SET", "DEL", "EXPIRE", "RELOAD", "MALFORMED"}
      BY <1>2 DEF ListHandlers, SetHandlers, HashHandlers, ZsetHandlers, StringHandlers,
                  StreamHandlers
    <2>1. out \in set_command(d, c, ts) BY <1>2, <2>0 DEF dispatch
    <2> QED BY <1>2, <2>1, SetCommandFits, FitsSuits
  <1>3. CASE c.op \in HashHandlers
    <2>0. c.op \notin ListHandlers \cup SetHandlers \cup ZsetHandlers \cup StringHandlers
                      \cup StreamHandlers \cup {"SET", "DEL", "EXPIRE", "RELOAD", "MALFORMED"}
      BY <1>3 DEF ListHandlers, SetHandlers, HashHandlers, ZsetHandlers, StringHandlers,
                  StreamHandlers
    <2>1. out \in hash_command(d, c, ts) BY <1>3, <2>0 DEF dispatch
    <2> QED BY <1>3, <2>1, HashCommandFits, FitsSuits
  <1>4. CASE c.op \in ZsetHandlers
    <2>0. c.op \notin ListHandlers \cup SetHandlers \cup HashHandlers \cup StringHandlers
                      \cup StreamHandlers \cup {"SET", "DEL", "EXPIRE", "RELOAD", "MALFORMED"}
      BY <1>4 DEF ListHandlers, SetHandlers, HashHandlers, ZsetHandlers, StringHandlers,
                  StreamHandlers
    <2>1. out \in zset_command(d, c, ts) BY <1>4, <2>0 DEF dispatch
    <2> QED BY <1>4, <2>1, ZsetCommandFits, FitsSuits
  <1>5. CASE c.op \in StringHandlers
    <2>0. c.op \notin ListHandlers \cup SetHandlers \cup HashHandlers \cup ZsetHandlers
                      \cup StreamHandlers \cup {"SET", "DEL", "EXPIRE", "RELOAD", "MALFORMED"}
      BY <1>5 DEF ListHandlers, SetHandlers, HashHandlers, ZsetHandlers, StringHandlers,
                  StreamHandlers
    <2>1. out \in string_command(d, c, ts) BY <1>5, <2>0 DEF dispatch
    <2> QED BY <1>5, <2>1, StringCommandFits, FitsSuits
  <1>6. CASE c.op \in StreamHandlers
    <2>1. out \in stream_command(d, c, ts)
      BY <1>6 DEF dispatch, ListHandlers, SetHandlers, HashHandlers, ZsetHandlers, StringHandlers,
                  StreamHandlers
    <2> QED BY <1>6, <2>1, StreamCommandSuits
  <1>7. CASE c.op \in {"SET", "DEL", "EXPIRE", "RELOAD", "MALFORMED"}
    <2>0. c.op \notin ListHandlers \cup SetHandlers \cup HashHandlers \cup ZsetHandlers
                      \cup StringHandlers \cup StreamHandlers
      BY <1>7 DEF ListHandlers, SetHandlers, HashHandlers, ZsetHandlers, StringHandlers,
                  StreamHandlers
    <2>1. CASE c.op = "SET"
      <3>1. out = Answer(Set(d, c, ts), Ok) BY <2>0, <2>1 DEF dispatch
      <3>2. out.db = Set(d, c, ts) BY <3>1 DEF Answer
      <3> QED BY <2>1, <3>2, SetFits, FitsSuits
    <2>2. CASE c.op = "DEL"
      <3>1. out = Answer(Del(d, c), Ok) BY <2>0, <2>2 DEF dispatch
      <3>2. out.db = Del(d, c) BY <3>1 DEF Answer
      <3> QED BY <3>2, DelFits, FitsSuits
    <2>3. CASE c.op = "EXPIRE"
      <3>1. out = Answer(Expire(d, c, ts), Ok) BY <2>0, <2>3 DEF dispatch
      <3>2. out.db = Expire(d, c, ts) BY <3>1 DEF Answer
      <3> QED BY <2>3, <3>2, ExpireFits, FitsSuits
    <2>4. CASE c.op = "RELOAD"
      <3>1. PICK clock \in [Keys -> ts[1] .. ts[Reads]] : out = reload(d, ts[1], clock)
        BY <2>0, <2>4 DEF dispatch
      <3> QED BY <2>4, <3>1, ReloadFits, FitsSuits
    <2>5. CASE c.op = "MALFORMED"
      <3>1. out = malformed(d, c, ts) BY <2>0, <2>5 DEF dispatch
      <3>2. out.db = d BY <3>1 DEF malformed, Answer
      <3>3. Effect(d, out.db, {}, ts[4], TRUE, TRUE) BY <3>2, NoEffect
      <3>4. Fits(d, c, ts, out) BY <3>3, EffectFits, Clock
      <3> QED BY <3>4, FitsSuits
    <2> QED BY <1>7, <2>1, <2>2, <2>3, <2>4, <2>5
  <1> QED BY <1>1, <1>2, <1>3, <1>4, <1>5, <1>6, <1>7 DEF Parsed, Operations

-----------------------------------------------------------------------------
(* The theorems.  DEBUG RELOAD is known to them by its conjunct of           *)
(* ReloadExact alone.                                                       *)

\* TypeOK with all that the handlers count on: the keys of the database, lists
\* that are sequences, scores and ids that are numbers.
IInv ==
    /\ now \in 0 .. MaxTime /\ family \in DOMAIN Inputs /\ poisoned \in BOOLEAN
    /\ SoundDb(db)

\* What DEBUG RELOAD does, for the families that have it.
ReloadKnown == \A c \in Inputs[family] : c.op = "RELOAD" => Reloads(db, now)

\* ReloadExact says what DEBUG RELOAD does.
LEMMA ExactReloads == ReloadExact => ReloadKnown
  BY DEF ReloadExact, ReloadKnown, Reloads

\* The empty database is sound.
LEMMA InitSound == Init => IInv
  <1> SUFFICES ASSUME Init PROVE IInv OBVIOUS
  <1>1. now \in 0 .. MaxTime BY DataTypesAssumption DEF Init
  <1>2. family \in DOMAIN Inputs /\ poisoned \in BOOLEAN BY Zenon DEF Init
  <1>3. SoundDb(db) BY DEF Init, SoundDb, EmptyDb
  <1> QED BY <1>1, <1>2, <1>3 DEF IInv

\* Every outcome of every command that may come next.
LEMMA NextSuits ==
    ASSUME IInv, ReloadKnown, NEW c \in Inputs[family], NEW ts \in Readings(now, MaxTime),
           NEW out \in dispatch(db, c, ts)
    PROVE  Suits(db, c, ts, out)
  <1>1. now \in Nat /\ SoundDb(db) /\ family \in DOMAIN Inputs
    BY DataTypesAssumption DEF IInv
  <1>2. Parsed(c) BY <1>1, InputsAssumption
  <1>3. c.op = "RELOAD" => Reloads(db, now) BY DEF ReloadKnown
  <1> QED BY <1>1, <1>2, <1>3, CommandSuits

\* A step takes every key to one that a command, or the passing of time, may
\* make of it.
StepTame(e, f, t) ==
    \/ \E keep, ok \in BOOLEAN : Tame(e, f, t, keep, ok)
    \/ StreamTame(e, f, t)

\* Every step: a command, a sweep, the clock set anew.
LEMMA StepsTame ==
    ASSUME IInv, ReloadKnown, [Next]_vars
    PROVE  /\ DOMAIN db' = Keys
           /\ \A k \in Keys : StepTame(db[k], db'[k], now')
           /\ now' \in 0 .. MaxTime /\ family' = family /\ poisoned' \in BOOLEAN
  <1>0. now \in Nat /\ SoundDb(db) /\ DOMAIN db = Keys BY DataTypesAssumption DEF IInv, SoundDb
  <1>1. ASSUME NEW c \in Inputs[family], Execute(c)
        PROVE  /\ DOMAIN db' = Keys
               /\ \A k \in Keys : StepTame(db[k], db'[k], now')
               /\ now' \in 0 .. MaxTime /\ family' = family /\ poisoned' \in BOOLEAN
    <2>1. PICK ts \in Readings(now, MaxTime) :
              /\ now' = ts[Reads]
              /\ \E out \in dispatch(db, c, ts) :
                  /\ Bounded(out.db)
                  /\ db' = out.db
                  /\ poisoned' = (out.reply = Panic)
      BY <1>1 DEF Execute
    <2>2. PICK out \in dispatch(db, c, ts) : db' = out.db /\ poisoned' = (out.reply = Panic)
      BY <2>1
    <2>3. Suits(db, c, ts, out) BY NextSuits
    <2>4. now' \in 0 .. MaxTime BY <1>0, <2>1, Clock
    <2>5. ASSUME NEW k \in Keys PROVE StepTame(db[k], db'[k], now')
      <3>1. \/ Tame(db[k], db'[k], now', Keeps(c), ~IsError(out.reply))
            \/ StreamTame(db[k], db'[k], now')
        BY <2>1, <2>2, <2>3 DEF Suits
      <3>2. Keeps(c) \in BOOLEAN /\ (~IsError(out.reply)) \in BOOLEAN BY DEF Keeps, IsError
      <3> QED BY <3>1, <3>2, Zenon DEF StepTame
    <2>6. DOMAIN db' = Keys BY <2>2, <2>3 DEF Suits
    <2>7. family' = family BY <1>1 DEF Execute
    <2>8. poisoned' \in BOOLEAN BY <2>2
    <2> QED BY <2>4, <2>5, <2>6, <2>7, <2>8
  <1>2. CASE Sweep
    <2>1. /\ db' = sweep_expired(db, now) /\ now' = now /\ family' = family /\ poisoned' = poisoned
      BY <1>2 DEF Sweep
    <2>2. DOMAIN db' = Keys /\ \A k \in Keys : Lapsed(db[k], db'[k], now)
      BY <1>0, <2>1, SweptEffect
    <2>3. \A k \in Keys : Tame(db[k], db'[k], now', TRUE, TRUE)
      BY <2>1, <2>2 DEF Lapsed, Tame
    <2> QED BY <2>1, <2>2, <2>3 DEF IInv, StepTame
  <1>3. CASE SetClock \/ UNCHANGED vars
    <2>1. /\ db' = db /\ family' = family /\ poisoned' = poisoned /\ now' \in 0 .. MaxTime
      BY <1>3 DEF SetClock, vars, IInv
    <2>2. \A k \in Keys : Tame(db[k], db'[k], now', TRUE, TRUE) BY <2>1 DEF Tame
    <2> QED BY <1>0, <2>1, <2>2 DEF IInv, StepTame
  <1> QED BY <1>1, <1>2, <1>3 DEF Next

\* IInv is inductive.
LEMMA NextSound == IInv /\ ReloadKnown /\ [Next]_vars => IInv'
  <1> SUFFICES ASSUME IInv, ReloadKnown, [Next]_vars PROVE IInv' OBVIOUS
  <1>1. /\ DOMAIN db' = Keys
        /\ \A k \in Keys : StepTame(db[k], db'[k], now')
        /\ now' \in 0 .. MaxTime /\ family' = family /\ poisoned' \in BOOLEAN
    BY StepsTame
  <1>2. ASSUME NEW k \in Keys, db'[k] # NoEntry
        PROVE  db'[k].expire_at \in Expiry /\ Sound(db'[k].value)
    BY <1>1, <1>2 DEF StepTame, Tame, StreamTame, IInv, SoundDb
  <1> QED BY <1>1, <1>2 DEF IInv, SoundDb

\* IInv is stronger than TypeOK.
LEMMA SoundTypeOK == IInv => TypeOK
  <1> SUFFICES ASSUME IInv, NEW k \in Keys, db[k] # NoEntry
               PROVE  db[k].expire_at \in Expiry /\ WellFormed(db[k].value)
    BY DEF IInv, TypeOK
  <1> DEFINE v == db[k].value
  <1>1. db[k].expire_at \in Expiry /\ Sound(v) BY DEF IInv, SoundDb
  <1> HIDE DEF v
  <1>2. v.type \in DOMAIN Fresh BY <1>1 DEF Sound, Fresh
  <1>3. WellFormed(v) BY <1>1, <1>2 DEF Sound, WellFormed, ZsetOK, StreamOK
  <1> QED BY <1>1, <1>3 DEF v

\* Every outcome of every command leaves no container hollow.
LEMMA SoundNoHollowKey == IInv /\ ReloadKnown => NoHollowKey
  <1> SUFFICES ASSUME IInv, ReloadKnown, NEW c \in Inputs[family],
                      NEW ts \in Readings(now, MaxTime), NEW out \in dispatch(db, c, ts),
                      ~IsError(out.reply), NEW k \in Keys, out.db[k] # NoEntry,
                      Hollow(out.db[k].value)
               PROVE  db[k] # NoEntry /\ Hollow(db[k].value)
    BY DEF NoHollowKey, EveryNext, HollowKeys
  <1>1. Suits(db, c, ts, out) BY NextSuits
  <1>2. out.db[k].value.type # "stream" BY DEF Hollow
  <1>3. Tame(db[k], out.db[k], ts[Reads], Keeps(c), ~IsError(out.reply))
    BY <1>1, <1>2 DEF Suits, StreamTame
  <1> QED BY <1>3 DEF Tame

\* Every outcome of every command keeps the expiries it should.
LEMMA SoundExpiryKept == IInv /\ ReloadKnown => ExpiryKept
  <1> SUFFICES ASSUME IInv, ReloadKnown, NEW c \in Inputs[family],
                      NEW ts \in Readings(now, MaxTime), NEW out \in dispatch(db, c, ts),
                      NEW k \in Keys, ~Replacing(c), ~Rotating(c),
                      LiveEntry(db[k], ts[Reads]), out.db[k] # NoEntry
               PROVE  out.db[k].expire_at = db[k].expire_at
    BY DEF ExpiryKept, EveryNext
  <1>1. Suits(db, c, ts, out) BY NextSuits
  <1> QED BY <1>1 DEF Suits, Tame, StreamTame, Keeps

\* Every step lets the streams that stay only grow.
LEMMA StreamsGrow ==
    ASSUME IInv, ReloadKnown, [Next]_vars, NEW k \in Keys,
           IsStream(db[k]), IsStream(db'[k]), LiveEntry(db[k], now')
    PROVE  Grows(db[k].value.data, db'[k].value.data)
  <1>1. StepTame(db[k], db'[k], now') BY StepsTame
  <1>2. db'[k].value = db[k].value => Grows(db[k].value.data, db'[k].value.data)
    <2> DEFINE s == db[k].value.data
    <2>1. StreamOK(s) BY DEF IInv, SoundDb, Sound, IsStream
    <2> HIDE DEF s
    <2>2. Grows(s, s) BY <2>1, GrowsSelf
    <2> QED BY <2>2 DEF s
  <1> QED BY <1>1, <1>2 DEF StepTame, Tame, StreamTame, IsStream

\* Every value the commands ever leave is well formed: bytes in a string, the
\* index of a sorted set equal to its scores after any ZADD, ZINCRBY, ZREM or
\* ZREMRANGEBYRANK (ZSet in value.rs keeps both by hand), and no entry of a
\* stream newer than its last id after any XADD, XDEL or XTRIM; for every set of
\* keys, every clock bound and every set of parsed commands, as long as DEBUG
\* RELOAD is exact.
THEOREM TypeCorrect == Spec /\ []ReloadExact => []TypeOK
  <1>1. Init => IInv BY InitSound
  <1>2. IInv /\ ReloadExact /\ [Next]_vars => IInv' BY NextSound, ExactReloads
  <1>3. IInv => TypeOK BY SoundTypeOK
  <1> QED BY <1>1, <1>2, <1>3, PTL DEF Spec

\* No command that succeeds leaves an empty container behind that was not there
\* (remove_if_empty after every removal, and the containers get_or_create made
\* for a command that then adds nothing).
THEOREM NoHollowKeyHolds == Spec /\ []ReloadExact => []NoHollowKey
  <1>1. Init => IInv BY InitSound
  <1>2. IInv /\ ReloadExact /\ [Next]_vars => IInv' BY NextSound, ExactReloads
  <1>3. IInv /\ ReloadExact => NoHollowKey BY SoundNoHollowKey, ExactReloads
  <1> QED BY <1>1, <1>2, <1>3, PTL DEF Spec

\* A command that is not one to set expiries or to replace values leaves the
\* expiry of every key that is live when it ends as it was (the handlers change
\* the value inside its entry, and only set() makes a new entry).
THEOREM ExpiryKeptHolds == Spec /\ []ReloadExact => []ExpiryKept
  <1>1. Init => IInv BY InitSound
  <1>2. IInv /\ ReloadExact /\ [Next]_vars => IInv' BY NextSound, ExactReloads
  <1>3. IInv /\ ReloadExact => ExpiryKept BY SoundExpiryKept, ExactReloads
  <1> QED BY <1>1, <1>2, <1>3, PTL DEF Spec

\* A live stream's last id only grows, no id at or below it is given out again
\* and entries keep their fields, in every step: XADD with any id
\* (resolve_add_id), the clock set back, XDEL, XTRIM, a sweep, DEBUG RELOAD.
THEOREM StreamIdsNeverReusedHolds == Spec /\ []ReloadExact => StreamIdsNeverReused
  <1> DEFINE Grown == \A k \in Keys :
                 IsStream(db[k]) /\ IsStream(db'[k]) /\ LiveEntry(db[k], now') =>
                     LET old == db[k].value.data
                         new == db'[k].value.data
                     IN  /\ new.last_id >= old.last_id
                         /\ \A id \in DOMAIN new.entries :
                                IF id \in DOMAIN old.entries THEN new.entries[id] = old.entries[id]
                                ELSE id > old.last_id
  <1>1. Init => IInv BY InitSound
  <1>2. IInv /\ ReloadExact /\ [Next]_vars => IInv' BY NextSound, ExactReloads
  <1>3. IInv /\ ReloadExact /\ [Next]_vars => [Grown]_vars
    BY StreamsGrow, ExactReloads DEF Grows
  <1> QED BY <1>1, <1>2, <1>3, PTL DEF Spec, StreamIdsNeverReused

\* Where no client sends DEBUG RELOAD, nothing is presupposed: all four
\* properties hold of the commands alone.
THEOREM CommandsSafe ==
    ASSUME \A f \in DOMAIN Inputs : \A c \in Inputs[f] : c.op # "RELOAD"
    PROVE  Spec => [](TypeOK /\ NoHollowKey /\ ExpiryKept) /\ StreamIdsNeverReused
  <1> DEFINE Grown == \A k \in Keys :
                 IsStream(db[k]) /\ IsStream(db'[k]) /\ LiveEntry(db[k], now') =>
                     LET old == db[k].value.data
                         new == db'[k].value.data
                     IN  /\ new.last_id >= old.last_id
                         /\ \A id \in DOMAIN new.entries :
                                IF id \in DOMAIN old.entries THEN new.entries[id] = old.entries[id]
                                ELSE id > old.last_id
  <1>1. Init => IInv BY InitSound
  <1>2. IInv => ReloadKnown BY DEF IInv, ReloadKnown
  <1>3. IInv /\ [Next]_vars => IInv' BY <1>2, NextSound
  <1>4. IInv => TypeOK /\ NoHollowKey /\ ExpiryKept
    BY <1>2, SoundTypeOK, SoundNoHollowKey, SoundExpiryKept
  <1>5. IInv /\ [Next]_vars => [Grown]_vars BY <1>2, StreamsGrow DEF Grows
  <1> QED BY <1>1, <1>3, <1>4, <1>5, PTL DEF Spec, StreamIdsNeverReused

=============================================================================
