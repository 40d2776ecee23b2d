--------------------------- MODULE BlockingProofs ---------------------------
(***************************************************************************)
(* Blocking commands, for any connections, places, members and timeouts:   *)
(* no wakeup is lost and a member is given to one connection only.         *)
(***************************************************************************)
EXTENDS Blocking, FiniteSetTheorems, SequenceTheorems, TLAPS

-----------------------------------------------------------------------------
(* The lowest and the highest of a finite set.  The induction over finite  *)
(* sets is a smallest counterexample: the library's theorem on it takes no *)
(* operator.                                                               *)

\* Finite nonempty sets of numbers without a lowest or without a highest member.
Endless(S) ==
    {T \in FiniteSubsetsOf(S) :
        /\ T # {}
        /\ \/ \A x \in T : \E y \in T : y < x
           \/ \A x \in T : \E y \in T : y > x}

LEMMA NoneEndless ==
    ASSUME NEW S \in SUBSET Nat
    PROVE  Endless(S) = {}
<1> SUFFICES ASSUME Endless(S) # {} PROVE FALSE
  OBVIOUS
<1>1. IsWellFoundedOn(StrictSubsetOrdering(S), FiniteSubsetsOf(S))
  BY FS_StrictSubsetOrderingWellFounded
<1>2. Endless(S) \subseteq FiniteSubsetsOf(S)
  BY DEF Endless
<1>3. PICK T \in Endless(S) : \A U \in Endless(S) : <<U, T>> \notin StrictSubsetOrdering(S)
  BY <1>1, <1>2, WFMin
<1>4. T \in SUBSET S /\ IsFiniteSet(T) /\ T # {}
  BY DEF Endless, FiniteSubsetsOf
<1>5. PICK x \in T : TRUE
  BY <1>4
<1> DEFINE U == T \ {x}
<1>6. U \in FiniteSubsetsOf(S)
  BY <1>4, FS_RemoveElement DEF FiniteSubsetsOf
<1>7. <<U, T>> \in StrictSubsetOrdering(S)
  BY <1>4, <1>5 DEF StrictSubsetOrdering
<1>8. U \notin Endless(S)
  BY <1>3, <1>7
<1>9. CASE U = {}
  BY <1>4, <1>5, <1>9 DEF Endless
<1>10. CASE U # {}
  <2>1. PICK lo \in U : \A y \in U : ~(y < lo)
    BY <1>6, <1>8, <1>10 DEF Endless
  <2>2. PICK hi \in U : \A y \in U : ~(y > hi)
    BY <1>6, <1>8, <1>10 DEF Endless
  <2>3. \A y \in T : y \in Nat
    BY <1>4
  <2>4. \E z \in T : \A y \in T : ~(y < z)
    BY <1>5, <2>1, <2>3
  <2>5. \E z \in T : \A y \in T : ~(y > z)
    BY <1>5, <2>2, <2>3
  <2> QED
    BY <2>4, <2>5 DEF Endless
<1> QED
  BY <1>9, <1>10

LEMMA MinMaxMember ==
    ASSUME NEW T \in SUBSET Nat, IsFiniteSet(T), T # {}
    PROVE  Min(T) \in T /\ Max(T) \in T
<1>1. T \notin Endless(Nat) /\ T \in FiniteSubsetsOf(Nat)
  BY NoneEndless DEF FiniteSubsetsOf
<1>2. PICK lo \in T : \A y \in T : ~(y < lo)
  BY <1>1 DEF Endless
<1>3. PICK hi \in T : \A y \in T : ~(y > hi)
  BY <1>1 DEF Endless
<1>4. \A y \in T : lo =< y /\ hi >= y
  BY <1>2, <1>3
<1>5. \E z \in T : \A y \in T : z =< y
  BY <1>4
<1>6. \E z \in T : \A y \in T : z >= y
  BY <1>4
<1> QED
  BY <1>5, <1>6 DEF Min, Max

-----------------------------------------------------------------------------
(* One attempt *)

\* What an attempt takes is there: the first key with members has one, and the
\* lowest or highest of them is among them.
LEMMA PopTakesMember ==
    ASSUME TypeOK, NEW pop \in Pops, NEW deadline \in Deadlines,
           Available([kind |-> "bzpop", pop |-> pop, deadline |-> deadline])
    PROVE  LET r == [kind |-> "bzpop", pop |-> pop, deadline |-> deadline]
           IN  PopPlace(r) \in Places /\ PopItem(r) \in zsets[PopPlace(r)] /\ PopItem(r) \in Items
<1> DEFINE r == [kind |-> "bzpop", pop |-> pop, deadline |-> deadline]
           full == {i \in DOMAIN pop.keys : zsets[pop.keys[i]] # {}}
<1>1. pop.keys \in Seq(Places)
  BY BlockingAssumption
<1>2. full # {}
  BY DEF Available
<1>3. DOMAIN pop.keys = 1 .. Len(pop.keys) /\ Len(pop.keys) \in Nat
  BY <1>1
<1>4. full \in SUBSET Nat /\ IsFiniteSet(full)
  <2>1. IsFiniteSet(1 .. Len(pop.keys))
    BY <1>3, FS_Interval
  <2> QED
    BY <1>3, <2>1, FS_Subset
<1>5. Min(full) \in full
  BY <1>2, <1>4, MinMaxMember
<1>6. PopPlace(r) = pop.keys[Min(full)]
  <2>1. r.pop = pop
    OBVIOUS
  <2> HIDE DEF r
  <2> QED
    BY <2>1 DEF PopPlace
<1>7. PopPlace(r) \in Places /\ zsets[PopPlace(r)] # {}
  <2>1. PICK i \in full : i = Min(full)
    BY <1>5
  <2>2. i \in DOMAIN pop.keys /\ zsets[pop.keys[i]] # {}
    OBVIOUS
  <2>3. pop.keys[i] \in Places
    BY <1>1, <2>2, ElementOfSeq
  <2> HIDE DEF full, r
  <2> QED
    BY <1>6, <2>1, <2>2, <2>3
<1>8. zsets[PopPlace(r)] \in SUBSET Items
  BY <1>7 DEF TypeOK
<1>9. IsFiniteSet(zsets[PopPlace(r)]) /\ zsets[PopPlace(r)] \in SUBSET Nat
  BY <1>8, BlockingAssumption, FS_Subset
<1>10. PopItem(r) \in zsets[PopPlace(r)]
  BY <1>7, <1>9, MinMaxMember DEF PopItem
<1> QED
  BY <1>7, <1>8, <1>10

\* The same for a request a connection holds.
LEMMA RequestTakesMember ==
    ASSUME TypeOK, NEW c \in Clients, request[c].kind = "bzpop", Available(request[c])
    PROVE  /\ PopPlace(request[c]) \in Places
           /\ PopItem(request[c]) \in zsets[PopPlace(request[c])]
           /\ PopItem(request[c]) \in Items
<1>1. PICK pop \in Pops, deadline \in Deadlines :
        request[c] = [kind |-> "bzpop", pop |-> pop, deadline |-> deadline]
  BY DEF TypeOK, Request, NoRequest
<1> QED
  BY <1>1, PopTakesMember

\* A successful attempt takes one member from its place and gives it to c: the
\* others stay, and no member that was given to anyone is given again.
LEMMA TakeEffect ==
    ASSUME TypeOK, PoppedOnce, NEW c \in Clients, NEW r,
           r.kind = "bzpop" =>
              PopPlace(r) \in Places /\ PopItem(r) \in zsets[PopPlace(r)] /\ PopItem(r) \in Items,
           Take(c, r)
    PROVE  /\ zsets' \in [Places -> SUBSET Items]
           /\ owner' \in [Items -> {"unused", "stored", "removed"} \cup Clients]
           /\ \A p \in Places : zsets'[p] \subseteq zsets[p]
           /\ PoppedOnce'
<1>1. CASE r.kind # "bzpop"
  BY <1>1 DEF Take, TypeOK, PoppedOnce
<1>2. CASE r.kind = "bzpop"
  <2> DEFINE place == PopPlace(r)
             item == PopItem(r)
  <2>1. place \in Places /\ item \in zsets[place] /\ item \in Items
    BY <1>2
  <2>2. /\ zsets' = [zsets EXCEPT ![place] = @ \ {item}]
        /\ owner' = [owner EXCEPT ![item] = c]
    BY <1>2 DEF Take
  <2> HIDE DEF place, item
  <2>3. owner[item] = "stored" /\ "stored" \notin Clients
    BY <2>1, BlockingAssumption DEF PoppedOnce
  <2>4. \A p \in Places : zsets'[p] = zsets[p] \ {item}
    BY <2>1, <2>2 DEF TypeOK, PoppedOnce
  <2>5. zsets' \in [Places -> SUBSET Items]
    BY <2>2 DEF TypeOK
  <2>6. owner' \in [Items -> {"unused", "stored", "removed"} \cup Clients]
    BY <2>2 DEF TypeOK
  <2>7. \A i \in Items : owner'[i] = IF i = item THEN c ELSE owner[i]
    BY <2>1, <2>2 DEF TypeOK
  <2>8. PoppedOnce'
    BY <2>3, <2>4, <2>7 DEF PoppedOnce
  <2> QED
    BY <2>3, <2>4, <2>5, <2>6, <2>7, <2>8
<1> QED
  BY <1>1, <1>2

\* Taking away never makes a request satisfiable.
LEMMA AvailableShrinks ==
    ASSUME TypeOK, NEW c \in Clients, request'[c] = request[c],
           \A p \in Places : zsets'[p] \subseteq zsets[p],
           stream' \subseteq stream,
           Available(request[c])'
    PROVE  Available(request[c])
<1>1. CASE request[c].kind = "bzpop"
  <2>1. request[c].pop.keys \in Seq(Places)
    BY <1>1, BlockingAssumption DEF TypeOK, Request, NoRequest
  <2>2. PICK i \in DOMAIN request[c].pop.keys : zsets'[request[c].pop.keys[i]] # {}
    BY <1>1 DEF Available
  <2>3. request[c].pop.keys[i] \in Places
    BY <2>1, <2>2, ElementOfSeq
  <2> QED
    BY <1>1, <2>2, <2>3 DEF Available
<1>2. CASE request[c].kind = "xread"
  BY <1>2 DEF Available
<1>3. CASE request[c].kind \notin {"bzpop", "xread"}
  BY <1>3 DEF Available
<1> QED
  BY <1>1, <1>2, <1>3

-----------------------------------------------------------------------------
(* The inductive invariant *)

IInv == TypeOK /\ NoLostWakeup /\ PoppedOnce

LEMMA InitIInv == Init => IInv
BY BlockingAssumption DEF Init, IInv, TypeOK, NoLostWakeup, PoppedOnce, Request, NoRequest

\* A command that puts data anywhere wakes every connection that sleeps.
LEMMA NotifiedStep ==
    ASSUME TypeOK, notify_waiters,
           \A c \in Clients : status'[c] = "parked" => status[c] = "parked"
    PROVE  NoLostWakeup' /\ woken' \in [Clients -> BOOLEAN]
BY DEF TypeOK, notify_waiters, NoLostWakeup

\* The request a blocking command makes when it finds nothing.
LEMMA RequestType ==
    ASSUME TypeOK, NEW deadline \in Deadlines
    PROVE  /\ \A pop \in Pops :
                LET r == [kind |-> "bzpop", pop |-> pop, deadline |-> deadline]
                IN  r \in Request /\ r # NoRequest
           /\ \A from \in 0 .. MaxId :
                LET r == [kind |-> "xread", from |-> from, deadline |-> deadline]
                IN  r \in Request /\ r # NoRequest
BY DEF Request, NoRequest

LEMMA CommandKeeps ==
    ASSUME IInv, NEW c \in Clients,
           \/ \E p \in Places, i \in Items : Add(c, p, i) \/ Remove(c, p, i)
           \/ \E p, q \in Places : Exchange(c, p, q)
           \/ XAdd(c)
           \/ \E id \in 1 .. MaxId : XDel(c, id)
    PROVE  IInv'
<1> USE DEF IInv
<1>1. ASSUME NEW p \in Places, NEW i \in Items, Add(c, p, i) PROVE IInv'
  <2>1. NoLostWakeup' /\ woken' \in [Clients -> BOOLEAN]
    BY <1>1, NotifiedStep DEF Add
  <2>2. TypeOK'
    BY <1>1, <2>1 DEF Add, TypeOK, notify_waiters
  <2>3. PoppedOnce'
    BY <1>1 DEF Add, TypeOK, PoppedOnce
  <2> QED BY <2>1, <2>2, <2>3
<1>2. ASSUME NEW p \in Places, NEW i \in Items, Remove(c, p, i) PROVE IInv'
  <2>1. NoLostWakeup' /\ woken' \in [Clients -> BOOLEAN]
    BY <1>2, NotifiedStep DEF Remove
  <2>2. TypeOK'
    BY <1>2, <2>1 DEF Remove, TypeOK, notify_waiters
  <2>3. PoppedOnce'
    BY <1>2 DEF Remove, TypeOK, PoppedOnce
  <2> QED BY <2>1, <2>2, <2>3
<1>3. ASSUME NEW p \in Places, NEW q \in Places, Exchange(c, p, q) PROVE IInv'
  <2>1. NoLostWakeup' /\ woken' \in [Clients -> BOOLEAN]
    BY <1>3, NotifiedStep DEF Exchange
  <2>2. TypeOK'
    BY <1>3, <2>1 DEF Exchange, TypeOK, notify_waiters
  <2>3. PoppedOnce'
    BY <1>3 DEF Exchange, TypeOK, PoppedOnce
  <2> QED BY <1>3, <2>1, <2>2, <2>3 DEF Exchange
<1>4. ASSUME XAdd(c) PROVE IInv'
  <2>1. NoLostWakeup' /\ woken' \in [Clients -> BOOLEAN]
    BY <1>4, NotifiedStep DEF XAdd
  <2>2. TypeOK'
    BY <1>4, <2>1, BlockingAssumption DEF XAdd, TypeOK, notify_waiters
  <2> QED BY <1>4, <2>1, <2>2 DEF XAdd, PoppedOnce
<1>5. ASSUME NEW id \in 1 .. MaxId, XDel(c, id) PROVE IInv'
  <2>1. NoLostWakeup' /\ woken' \in [Clients -> BOOLEAN]
    BY <1>5, NotifiedStep DEF XDel
  <2>2. TypeOK'
    BY <1>5, <2>1, BlockingAssumption DEF XDel, TypeOK, notify_waiters
  <2> QED BY <1>5, <2>1, <2>2 DEF XDel, PoppedOnce
<1> QED
  BY <1>1, <1>2, <1>3, <1>4, <1>5

\* The first attempt of a blocking command, inside handle().
LEMMA BlockingCommandKeeps ==
    ASSUME IInv, NEW c \in Clients, NEW timeout \in Timeouts,
           \/ \E pop \in Pops : BZPop(c, pop, timeout)
           \/ \E id \in {"$", "0"} : XReadBlock(c, id, timeout)
    PROVE  IInv'
<1> USE DEF IInv
<1>1. ASSUME NEW pop \in Pops, BZPop(c, pop, timeout) PROVE IInv'
  <2> DEFINE r == [kind |-> "bzpop", pop |-> pop, deadline |-> DeadlineOf(timeout)]
  <2>1. DeadlineOf(timeout) \in Deadlines /\ Sends(c)
    BY <1>1 DEF BZPop
  <2>2. CASE Available(r)
    <3>1. Take(c, r) /\ UNCHANGED <<status, request, stream, last_id, now, woken>>
      BY <1>1, <2>2 DEF BZPop
    <3>2. PopPlace(r) \in Places /\ PopItem(r) \in zsets[PopPlace(r)] /\ PopItem(r) \in Items
      BY <2>1, <2>2, PopTakesMember
    <3> HIDE DEF r
    <3>3. /\ zsets' \in [Places -> SUBSET Items]
          /\ owner' \in [Items -> {"unused", "stored", "removed"} \cup Clients]
          /\ \A p \in Places : zsets'[p] \subseteq zsets[p]
          /\ PoppedOnce'
      BY <3>1, <3>2, TakeEffect
    <3>4. TypeOK'
      BY <3>1, <3>3 DEF TypeOK
    <3>5. NoLostWakeup'
      BY <3>1, <3>3, AvailableShrinks DEF NoLostWakeup
    <3> QED BY <3>3, <3>4, <3>5
  <2>3. CASE ~Available(r)
    <3>1. /\ status' = [status EXCEPT ![c] = "entering"]
          /\ request' = [request EXCEPT ![c] = r]
          /\ UNCHANGED <<zsets, owner, stream, last_id, now, woken>>
      BY <1>1, <2>3 DEF BZPop
    <3>2. r \in Request /\ r # NoRequest
      BY <2>1, RequestType
    <3> HIDE DEF r
    <3>3. TypeOK'
      BY <2>1, <3>1, <3>2 DEF TypeOK, Sends
    <3>4. NoLostWakeup'
      BY <3>1, AvailableShrinks DEF NoLostWakeup, TypeOK
    <3> QED BY <3>1, <3>3, <3>4 DEF PoppedOnce
  <2> QED BY <2>2, <2>3
<1>2. ASSUME NEW id \in {"$", "0"}, XReadBlock(c, id, timeout) PROVE IInv'
  <2> DEFINE r == [kind |-> "xread", from |-> IF id = "$" THEN last_id ELSE 0,
                   deadline |-> IF timeout = 0 THEN Forever ELSE DeadlineOf(timeout)]
  <2>1. /\ Sends(c)
        /\ \/ UNCHANGED <<status, request>>
           \/ status' = [status EXCEPT ![c] = "entering"] /\ request' = [request EXCEPT ![c] = r]
        /\ notify_waiters
        /\ UNCHANGED <<zsets, stream, last_id, now, owner>>
    BY <1>2 DEF XReadBlock
  <2>2. r \in Request /\ r # NoRequest
    <3>1. r.deadline \in Deadlines
      BY <1>2 DEF XReadBlock
    <3>2. r.from \in 0 .. MaxId
      BY BlockingAssumption DEF TypeOK
    <3> QED BY <3>1, <3>2, RequestType
  <2> HIDE DEF r
  <2>3. NoLostWakeup' /\ woken' \in [Clients -> BOOLEAN]
    BY <2>1, NotifiedStep DEF TypeOK
  <2>4. TypeOK'
    BY <2>1, <2>2, <2>3 DEF TypeOK, Sends, notify_waiters
  <2> QED BY <2>1, <2>3, <2>4 DEF PoppedOnce
<1> QED
  BY <1>1, <1>2

LEMMA TurnKeeps ==
    ASSUME IInv, NEW c \in Clients, Turn(c) \/ TimedOut(c)
    PROVE  IInv'
<1> USE DEF IInv
<1> DEFINE r == request[c]
<1>1. CASE Finish(c) /\ UNCHANGED <<zsets, owner, stream, last_id, now>>
  <2>1. TypeOK'
    BY <1>1 DEF Finish, TypeOK, Request
  <2>2. NoLostWakeup'
    BY <1>1, AvailableShrinks DEF Finish, NoLostWakeup, TypeOK
  <2> QED BY <1>1, <2>1, <2>2 DEF PoppedOnce
<1>2. CASE Available(r) /\ Finish(c) /\ Take(c, r) /\ UNCHANGED <<stream, last_id, now>>
  <2>1. r.kind = "bzpop" =>
            PopPlace(r) \in Places /\ PopItem(r) \in zsets[PopPlace(r)] /\ PopItem(r) \in Items
    BY <1>2, RequestTakesMember
  <2>2. /\ zsets' \in [Places -> SUBSET Items]
        /\ owner' \in [Items -> {"unused", "stored", "removed"} \cup Clients]
        /\ \A p \in Places : zsets'[p] \subseteq zsets[p]
        /\ PoppedOnce'
    BY <1>2, <2>1, TakeEffect
  <2>3. TypeOK'
    BY <1>2, <2>2 DEF Finish, TypeOK, Request
  <2>4. NoLostWakeup'
    BY <1>2, <2>2, AvailableShrinks DEF Finish, NoLostWakeup, TypeOK
  <2> QED BY <2>2, <2>3, <2>4
<1>3. CASE /\ status[c] # "idle" /\ ~Available(r)
           /\ status' = [status EXCEPT ![c] = "parked"]
           /\ woken' = [woken EXCEPT ![c] = FALSE]
           /\ UNCHANGED <<request, zsets, owner, stream, last_id, now>>
  <2>1. TypeOK'
    BY <1>3 DEF TypeOK
  <2>2. NoLostWakeup'
    BY <1>3, AvailableShrinks DEF NoLostWakeup, TypeOK
  <2> QED BY <1>3, <2>1, <2>2 DEF PoppedOnce
<1> QED
  BY <1>1, <1>2, <1>3 DEF Turn, TimedOut

LEMMA UnchangedKeeps ==
    ASSUME IInv, now' \in 0 .. MaxNow,
           UNCHANGED <<zsets, stream, last_id, status, request, woken, owner>>
    PROVE  IInv'
<1>1. TypeOK'
  BY DEF IInv, TypeOK
<1>2. NoLostWakeup'
  BY AvailableShrinks DEF IInv, NoLostWakeup
<1> QED
  BY <1>1, <1>2 DEF IInv, PoppedOnce

\* Every command, every turn of block_until_ready and the clock keep the
\* invariant, and no step takes a member back from the connection that has it.
LEMMA StepKeeps ==
    ASSUME IInv, [Next]_vars
    PROVE  IInv'
<1>1. CASE Tick \/ UNCHANGED vars
  <2>1. UNCHANGED <<zsets, stream, last_id, status, request, woken, owner>> /\ now' \in 0 .. MaxNow
    BY <1>1, BlockingAssumption DEF IInv, TypeOK, Tick, vars
  <2> QED
    BY <2>1, UnchangedKeeps
<1> QED
  BY <1>1, CommandKeeps, BlockingCommandKeeps, TurnKeeps DEF Next

\* A connection holds a request exactly while it is blocked, and is woken only
\* where it waits: connections that block, time out and retry in any order.
THEOREM BlockingTypeCorrect == Spec => []TypeOK
<1>1. IInv => TypeOK
  BY DEF IInv
<1> QED
  BY InitIInv, StepKeeps, <1>1, PTL DEF Spec

\* The await between the first attempt and the wait loses no wakeup: a connection
\* that sleeps and has not been woken has nothing to be given.
THEOREM NoLostWakeupHolds == Spec => []NoLostWakeup
<1>1. IInv => NoLostWakeup
  BY DEF IInv
<1> QED
  BY InitIInv, StepKeeps, <1>1, PTL DEF Spec

\* However many connections one ZADD wakes, a member is popped for one of them.
THEOREM PoppedOnceHolds == Spec => []PoppedOnce
<1>1. IInv => PoppedOnce
  BY DEF IInv
<1> QED
  BY InitIInv, StepKeeps, <1>1, PTL DEF Spec

=============================================================================
