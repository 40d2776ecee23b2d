----------------------------- MODULE Lifecycle ------------------------------
(***************************************************************************)
(* The life of a value under Transactions, for clients that never write    *)
(* the same string twice: every string is then a token that can be         *)
(* followed through RENAME, MOVE, SWAPDB, DEBUG RELOAD and expiry.  They   *)
(* send their commands outside MULTI: EXEC runs a queued command with the  *)
(* same execute_locked.                                                    *)
(***************************************************************************)
EXTENDS Transactions

CONSTANT FreshRequests     \* the commands these clients send

ASSUME LifecycleAssumption == FreshRequests \subseteq Command

VARIABLES
    sent,     \* the strings clients have put into a command so far
    asked     \* which of COPY and PERSIST they have sent

lifecycleVars == <<vars, sent, asked>>

LifecycleInit == Init /\ sent = {} /\ asked = {}

\* The string a command stores, as a value or as the fields of a stream entry.
Written(cmd) ==
    CASE cmd.op = "SET"  -> {cmd.val}
      [] cmd.op = "XADD" -> {cmd.fields}
      [] OTHER -> {}

\* A client sends a command whose string, if any, is new.
SendFresh(cmd) ==
    /\ Written(cmd) \cap sent = {}
    /\ sent' = sent \cup Written(cmd)
    /\ asked' = asked \cup ({cmd.op} \cap {"COPY", "PERSIST"})

LifecycleNext ==
    \/ \E c \in Clients, cmd \in FreshRequests, ts \in Readings(now, MaxNow) :
        SendFresh(cmd) /\ Execute(c, cmd, ts)
    \/ \E c \in Clients : Reconnect(c) /\ UNCHANGED <<sent, asked>>
    \/ \E t \in Clock : Sweep(t) /\ UNCHANGED <<sent, asked>>

LifecycleSpec == LifecycleInit /\ [][LifecycleNext]_lifecycleVars

-----------------------------------------------------------------------------

Holds(e, v) ==
    /\ e # NoEntry
    /\ \/ e.value.type = "string" /\ e.value.data = v
       \/ e.value.type = "stream" /\ \E i \in DOMAIN e.value.entries : e.value.entries[i] = v

\* The places whose map entry holds the string v, expired or not.
Holders(v) == {p \in Places : Holds(keyspace[p[1]][p[2]], v)}

Live(v) == \E p \in Holders(v) : LiveEntry(keyspace[p[1]][p[2]], now)

\* RENAME, MOVE, SWAPDB and DEBUG RELOAD move a value and never duplicate it:
\* as long as nobody sends COPY, a written value is held in at most one place.
OneHolder == "COPY" \notin asked => \A v \in sent : \A p, q \in Holders(v) : p = q

\* A value that was deleted, overwritten or has expired is never readable
\* again: lazy purges, sweeps and reloads leave no way back to it, although an
\* expired entry may stay in the map for long.
NoResurrection ==
    [][\A v \in sent : ~Live(v) => ~Live(v)']_lifecycleVars

Volatile(v) ==
    \A p \in Holders(v) : keyspace[p[1]][p[2]].expire_at # NoTtl

\* A value that has an expiry keeps one for as long as any place holds it, until
\* somebody sends PERSIST or COPY.
StaysVolatile ==
    [][\A v \in sent : Holders(v) # {} /\ Volatile(v) =>
        Volatile(v)' \/ asked' # {}]_lifecycleVars

=============================================================================
