-------------------------- MODULE OptimisticCounter -------------------------
(***************************************************************************)
(* The pattern WATCH exists for, run by every client against Transactions: *)
(* watch a counter, read it, and in a transaction write the value read     *)
(* plus one.  One counter per database, all under the same key.            *)
(***************************************************************************)
EXTENDS Transactions

CONSTANT Counter     \* the key

VARIABLES
    phase,       \* where a client is in the pattern
    seen,        \* what its GET returned, an absent counter reading as 0
    commits      \* per database, how many transactions have written

counterVars == <<vars, phase, seen, commits>>

ASSUME CounterAssumption == Counter \in Keys /\ Strings \subseteq Nat

\* What GET replies: string.rs get().
Reading(d, t) ==
    IF contains(keyspace[d], Counter, t) THEN keyspace[d][Counter].value.data ELSE 0

Increment(c) ==
    [op |-> "SET", key |-> Counter, val |-> seen[c] + 1, opts |-> {},
     keepttl |-> FALSE, px |-> NoTtl, absolute |-> FALSE]

CounterInit ==
    /\ Init
    /\ phase = [c \in Clients |-> "idle"]
    /\ seen = [c \in Clients |-> 0]
    /\ commits = [d \in DbIds |-> 0]

Goto(c, from, to) == phase[c] = from /\ phase' = [phase EXCEPT ![c] = to]

StartWatch(c) ==
    /\ Goto(c, "idle", "watching")
    /\ \E t \in Clock : Watch(c, Counter, t)
    /\ UNCHANGED <<seen, commits>>

Read(c) ==
    /\ Goto(c, "watching", "read")
    /\ \E ts \in Readings(now, MaxNow) :
        /\ Execute(c, [op |-> "GET", key |-> Counter], ts)
        /\ seen' = [seen EXCEPT ![c] = Reading(db_index[c], ts[1])]
    /\ UNCHANGED commits

Begin(c) ==
    /\ Goto(c, "read", "multi")
    /\ Multi(c)
    /\ UNCHANGED <<seen, commits>>

Enqueue(c) ==
    /\ Goto(c, "multi", "queued")
    /\ seen[c] + 1 \in Strings
    /\ QueueCommand(c, Increment(c))
    /\ UNCHANGED <<seen, commits>>

\* EXEC replies with an array once the queue has run, with a nil when dirty.
TryCommit(c) ==
    /\ phase[c] = "queued"
    /\ \E S \in SUBSET Watching(c) : \E readings \in [S -> Clock] :
        \/ ExecRun(c, readings) /\ UNCHANGED phase
        \/ ExecDirty(c, readings) /\ phase' = [phase EXCEPT ![c] = "idle"]
    /\ UNCHANGED <<seen, commits>>

Commit(c) ==
    /\ Goto(c, "queued", "idle")
    /\ \E ts \in Readings(now, MaxNow) : ExecStep(c, ts)
    /\ commits' = [commits EXCEPT ![db_index[c]] = @ + 1]
    /\ UNCHANGED seen

\* Giving up: the watch stays, DISCARD drops it, or the connection goes.
GiveUp(c) ==
    /\ \/ Goto(c, "read", "idle") /\ UNCHANGED vars
       \/ Goto(c, "queued", "idle") /\ Discard(c)
       \/ phase' = [phase EXCEPT ![c] = "idle"] /\ Reconnect(c)
    /\ UNCHANGED <<seen, commits>>

\* Between two rounds a client may change database.
Elsewhere(c) ==
    /\ phase[c] = "idle"
    /\ \E d \in DbIds, ts \in Readings(now, MaxNow) :
        Execute(c, [op |-> "SELECT", db |-> d], ts)
    /\ UNCHANGED <<phase, seen, commits>>

CounterNext ==
    \E c \in Clients :
        \/ StartWatch(c) \/ Read(c) \/ Begin(c) \/ Enqueue(c)
        \/ TryCommit(c) \/ Commit(c) \/ GiveUp(c) \/ Elsewhere(c)

CounterSpec == CounterInit /\ [][CounterNext]_counterVars

-----------------------------------------------------------------------------

\* Optimistic locking works: every committed transaction added one, so each
\* counter equals the number of commits made on it, however watches, reads,
\* queues and EXECs of the clients interleave.
NoLostUpdate == \A d \in DOMAIN commits : Reading(d, now) = commits[d]

=============================================================================
