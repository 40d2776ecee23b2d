------------------------------ MODULE Blocking ------------------------------
(***************************************************************************)
(* BZPOPMIN, BZPOPMAX and XREAD BLOCK: try_or_block_* and retry_block of   *)
(* src/src/commands/mod.rs, block_until_ready of src/src/main.rs and the   *)
(* Notify that every other command signals when handle() returns.          *)
(*                                                                         *)
(* A blocking command tries once inside handle().  When it finds nothing,  *)
(* the loop first flushes the replies of earlier pipelined commands, an    *)
(* await during which other connections run ("entering"), and then enters  *)
(* block_until_ready.  One turn of its loop runs without an await up to    *)
(* the wait itself, so a turn is one step; a waiting connection is         *)
(* "parked".  The notified() future is created in the turn, before the     *)
(* retry, and hears every notify_waiters() that follows (external: tokio). *)
(*                                                                         *)
(* Sorted sets are sets of items ordered by score, all distinct; Places    *)
(* are (database, key) pairs.  One stream stands for all.                  *)
(*                                                                         *)
(* A blocked connection does not read its socket: a peer that leaves is    *)
(* noticed after the reply, and until then everything is as if it stayed.  *)
(***************************************************************************)
EXTENDS Integers, Sequences, FiniteSets, FiniteSetsExt

CONSTANTS
    Clients,
    Places,        \* where sorted sets live
    Items,         \* members with their scores: a set of numbers
    MaxId,         \* bound on stream ids
    MaxNow,        \* bound on the clock
    Timeouts,      \* timeouts in ms: Forever is what parse_timeout_ms makes of
                   \* 0, and 0 what it makes of less than half a millisecond
    Pops,          \* the BZPOP commands sent: their keys, and whether MIN or MAX
    Forever        \* deadline_ms: None

ASSUME BlockingAssumption ==
    /\ Items \subseteq Nat /\ IsFiniteSet(Items)
    /\ MaxId \in Nat /\ MaxNow \in Nat
    /\ Timeouts \subseteq Nat \cup {Forever} /\ Forever \notin Nat
    /\ Pops \subseteq [keys : Seq(Places), min : BOOLEAN]
    /\ Clients \cap {"unused", "stored", "removed"} = {}

VARIABLES
    zsets,      \* the members at each place
    stream,     \* ids of the stream's entries
    last_id,
    now,
    status,     \* "idle", "entering" or "parked", by connection
    request,    \* the BlockReq of a connection that is not idle
    woken,      \* the parked connection's notified() has fired
    owner       \* history: what became of each item

vars == <<zsets, stream, last_id, now, status, request, woken, owner>>

NoRequest == [kind |-> "none"]

Deadlines == (0 .. MaxNow) \cup {Forever}

Request ==
    {NoRequest}
    \cup [kind : {"bzpop"}, pop : Pops, deadline : Deadlines]
    \cup [kind : {"xread"}, from : 0 .. MaxId, deadline : Deadlines]

Init ==
    /\ zsets = [p \in Places |-> {}]
    /\ stream = {}
    /\ last_id = 0
    /\ now = 0
    /\ status = [c \in Clients |-> "idle"]
    /\ request = [c \in Clients |-> NoRequest]
    /\ woken = [c \in Clients |-> FALSE]
    /\ owner = [i \in Items |-> "unused"]

-----------------------------------------------------------------------------
(* Waking *)

\* notify_waiters(): every registered waiter, and nobody else.
notify_waiters == woken' = [c \in Clients |-> woken[c] \/ status[c] = "parked"]

\* A command that arrives on an idle connection.
Sends(c) == status[c] = "idle"

\* Fault: ZADD wakes nobody.
AddQuietly(c, p, i) ==
    /\ Sends(c)
    /\ owner[i] = "unused"
    /\ zsets' = [zsets EXCEPT ![p] = @ \cup {i}]
    /\ owner' = [owner EXCEPT ![i] = "stored"]
    /\ UNCHANGED <<stream, last_id, now, status, request, woken>>

\* ZADD of a new member.
Add(c, p, i) ==
    /\ Sends(c)
    /\ owner[i] = "unused"
    /\ zsets' = [zsets EXCEPT ![p] = @ \cup {i}]
    /\ owner' = [owner EXCEPT ![i] = "stored"]
    /\ notify_waiters
    /\ UNCHANGED <<stream, last_id, now, status, request>>

\* ZREM
Remove(c, p, i) ==
    /\ Sends(c)
    /\ i \in zsets[p]
    /\ zsets' = [zsets EXCEPT ![p] = @ \ {i}]
    /\ owner' = [owner EXCEPT ![i] = "removed"]
    /\ notify_waiters
    /\ UNCHANGED <<stream, last_id, now, status, request>>

\* Fault: data that is moved wakes nobody.
ExchangeQuietly(c, p, q) ==
    /\ Sends(c)
    /\ zsets' = [zsets EXCEPT ![p] = zsets[q], ![q] = zsets[p]]
    /\ UNCHANGED <<stream, last_id, now, status, request, woken, owner>>

\* SWAPDB, or RENAME onto a missing key, directly, in an EXEC or in a script:
\* data turns up at a place without a ZADD there.
Exchange(c, p, q) ==
    /\ Sends(c)
    /\ zsets' = [zsets EXCEPT ![p] = zsets[q], ![q] = zsets[p]]
    /\ notify_waiters
    /\ UNCHANGED <<stream, last_id, now, status, request, owner>>

XAdd(c) ==
    /\ Sends(c)
    /\ last_id < MaxId
    /\ last_id' = last_id + 1
    /\ stream' = stream \cup {last_id + 1}
    /\ notify_waiters
    /\ UNCHANGED <<zsets, now, status, request, owner>>

XDel(c, id) ==
    /\ Sends(c)
    /\ id \in stream
    /\ stream' = stream \ {id}
    /\ notify_waiters
    /\ UNCHANGED <<zsets, last_id, now, status, request, owner>>

-----------------------------------------------------------------------------
(* One attempt: bzpop_try and xread *)

Available(r) ==
    CASE r.kind = "bzpop" -> \E i \in DOMAIN r.pop.keys : zsets[r.pop.keys[i]] # {}
      [] r.kind = "xread" -> \E id \in stream : id > r.from
      [] OTHER -> FALSE

\* The first key with members, and its lowest or highest member.
PopPlace(r) ==
    LET keys == r.pop.keys
    IN  keys[Min({i \in DOMAIN keys : zsets[keys[i]] # {}})]

PopItem(r) == IF r.pop.min THEN Min(zsets[PopPlace(r)]) ELSE Max(zsets[PopPlace(r)])

\* Fault: the member is replied but stays.
TakeLeaving(c, r) ==
    /\ owner' = IF r.kind = "bzpop" THEN [owner EXCEPT ![PopItem(r)] = c] ELSE owner
    /\ UNCHANGED zsets

\* The attempt succeeds: BZPOP takes the member out, XREAD only reads.
Take(c, r) ==
    IF r.kind = "bzpop"
    THEN /\ zsets' = [zsets EXCEPT ![PopPlace(r)] = @ \ {PopItem(r)}]
         /\ owner' = [owner EXCEPT ![PopItem(r)] = c]
    ELSE UNCHANGED <<zsets, owner>>

DeadlineOf(timeout) == IF timeout = Forever THEN Forever ELSE now + timeout

\* BZPOPMIN and BZPOPMAX are the commands that do not signal the Notify.
BZPop(c, pop, timeout) ==
    LET r == [kind |-> "bzpop", pop |-> pop, deadline |-> DeadlineOf(timeout)]
    IN  /\ Sends(c)
        /\ r.deadline \in Deadlines
        /\ IF Available(r)
           THEN Take(c, r) /\ UNCHANGED <<status, request>>
           ELSE /\ status' = [status EXCEPT ![c] = "entering"]
                /\ request' = [request EXCEPT ![c] = r]
                /\ UNCHANGED <<zsets, owner>>
        /\ UNCHANGED <<stream, last_id, now, woken>>

\* XREAD BLOCK ms STREAMS s id: `$` is resolved to the last id before the first
\* attempt.  BLOCK 0 waits forever.  The name is not in is_blocking_cmd, so the
\* Notify is signalled whether or not the command goes on to block.
XReadBlock(c, id, timeout) ==
    LET r == [kind |-> "xread", from |-> IF id = "$" THEN last_id ELSE 0,
              deadline |-> IF timeout = 0 THEN Forever ELSE DeadlineOf(timeout)]
    IN  /\ Sends(c)
        /\ r.deadline \in Deadlines
        /\ IF Available(r)
           THEN UNCHANGED <<status, request>>
           ELSE /\ status' = [status EXCEPT ![c] = "entering"]
                /\ request' = [request EXCEPT ![c] = r]
        /\ notify_waiters
        /\ UNCHANGED <<zsets, stream, last_id, now, owner>>

-----------------------------------------------------------------------------
(* block_until_ready *)

Expired(r) == r.deadline # Forever /\ now >= r.deadline

\* Fault: the request outlives its reply.
FinishKeepingRequest(c) ==
    /\ status' = [status EXCEPT ![c] = "idle"]
    /\ woken' = [woken EXCEPT ![c] = FALSE]
    /\ UNCHANGED request

Finish(c) ==
    /\ status' = [status EXCEPT ![c] = "idle"]
    /\ request' = [request EXCEPT ![c] = NoRequest]
    /\ woken' = [woken EXCEPT ![c] = FALSE]

\* One turn of the loop: the deadline is looked at first, then the waiter
\* registers, then the command is retried.
Turn(c) ==
    LET r == request[c]
    IN  /\ status[c] = "entering" \/ (status[c] = "parked" /\ woken[c])
        /\ IF Expired(r)
           THEN Finish(c) /\ UNCHANGED <<zsets, owner>>
           ELSE IF Available(r)
           THEN Finish(c) /\ Take(c, r)
           ELSE /\ status' = [status EXCEPT ![c] = "parked"]
                /\ woken' = [woken EXCEPT ![c] = FALSE]
                /\ UNCHANGED <<request, zsets, owner>>
        /\ UNCHANGED <<stream, last_id, now>>

\* Fault: an XREAD that waits has no timer.
TimedOutBzpop(c) ==
    /\ status[c] = "parked"
    /\ ~woken[c]
    /\ request[c].kind = "bzpop"
    /\ Expired(request[c])
    /\ Finish(c)
    /\ UNCHANGED <<zsets, stream, last_id, now, owner>>

\* tokio::time::timeout fires before a notification does.
TimedOut(c) ==
    /\ status[c] = "parked"
    /\ ~woken[c]
    /\ Expired(request[c])
    /\ Finish(c)
    /\ UNCHANGED <<zsets, stream, last_id, now, owner>>

Tick ==
    /\ now < MaxNow
    /\ now' = now + 1
    /\ UNCHANGED <<zsets, stream, last_id, status, request, woken, owner>>

-----------------------------------------------------------------------------

Next ==
    \/ \E c \in Clients :
        \/ \E p \in Places, i \in Items : Add(c, p, i) \/ Remove(c, p, i)
        \/ \E p, q \in Places : Exchange(c, p, q)
        \/ XAdd(c)
        \/ \E id \in 1 .. MaxId : XDel(c, id)
        \/ \E pop \in Pops, timeout \in Timeouts : BZPop(c, pop, timeout)
        \/ \E id \in {"$", "0"}, timeout \in Timeouts : XReadBlock(c, id, timeout)
        \/ Turn(c) \/ TimedOut(c)
    \/ Tick

\* The runtime polls every task whose future is ready, its timers fire, and
\* time passes.  Clients promise nothing.
Fairness ==
    /\ \A c \in Clients : WF_vars(Turn(c)) /\ WF_vars(TimedOut(c))
    /\ WF_vars(Tick)

Spec == Init /\ [][Next]_vars /\ Fairness

-----------------------------------------------------------------------------
(* Properties *)

Blocked(c) == status[c] # "idle"

\* Shape of the state; a connection holds a request exactly while it is blocked,
\* and only a parked one can be woken.
TypeOK ==
    /\ zsets \in [Places -> SUBSET Items]
    /\ stream \subseteq 1 .. MaxId
    /\ last_id \in 0 .. MaxId
    /\ now \in 0 .. MaxNow
    /\ status \in [Clients -> {"idle", "entering", "parked"}]
    /\ request \in [Clients -> Request]
    /\ woken \in [Clients -> BOOLEAN]
    /\ \A c \in Clients : status[c] = "idle" <=> request[c] = NoRequest
    /\ \A c \in Clients : woken[c] => status[c] = "parked"
    /\ owner \in [Items -> {"unused", "stored", "removed"} \cup Clients]

\* No lost wakeup: a connection that sleeps with no wake on its way has nothing
\* to be given, whatever command of whichever connection put data there and
\* whenever it did.
NoLostWakeup ==
    \A c \in Clients : status[c] = "parked" /\ ~woken[c] => ~Available(request[c])

\* A member popped for one connection is at no place any more and is never
\* given to another: however many waiters one ZADD wakes, one of them gets it.
PoppedOnce ==
    /\ \A i \in Items : owner[i] = "stored" <=> \E p \in Places : i \in zsets[p]
    /\ \A i \in Items, p, q \in Places : i \in zsets[p] \cap zsets[q] => p = q

\* No connection stays blocked beside data it could have.
EventuallyServed ==
    \A c \in Clients : []<>(~Blocked(c) \/ ~Available(request[c]))

\* A connection that blocked with a timeout gets some reply, also when wakes
\* for data it cannot have keep coming.
EventuallyReplies ==
    \A c \in Clients :
        (Blocked(c) /\ request[c].deadline # Forever) ~> ~Blocked(c)

==================================================
