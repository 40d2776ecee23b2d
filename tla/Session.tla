------------------------------ MODULE Session -------------------------------
(***************************************************************************)
(* The life of a connection: admission under maxclients, authentication,   *)
(* protocol negotiation, subscriptions, the registry CLIENT LIST reads and *)
(* the pub/sub registry.  handle_connection of src/src/main.rs, the gates  *)
(* of handle() in src/src/commands/mod.rs, src/src/commands/clientcmd.rs   *)
(* and src/src/pubsub.rs.                                                  *)
(*                                                                         *)
(* A connection id is used once, as next_client_id() guarantees.  A topic  *)
(* is a channel or a pattern: the code keeps two maps with the same code.  *)
(* subscribe() looks before it pushes, so a subscriber list is a set.      *)
(* inbox counts the messages in the connection's mpsc channel by topic;    *)
(* the receiving branch drains it whole.  Data commands are left out: they *)
(* touch none of this; so are client names and the protocol the registry   *)
(* reports, which nothing here depends on.                                 *)
(***************************************************************************)
EXTENDS Integers, Sequences, FiniteSets

CONSTANTS
    Conns,         \* connection ids, 1..n: bound on connections made
    MaxClients,    \* --maxclients
    RequirePass,   \* whether --requirepass was given
    Channels,
    Patterns,
    Glob,          \* which (pattern, channel) pairs match
    Databases,
    Requests,      \* the commands clients send
    MaxQueue,      \* bound on queued commands
    MaxInbox,      \* bound on waiting messages of a topic
    NoInfo,        \* no registry entry
    Nobody

Topics == Channels \cup Patterns

DbIds == 0 .. Databases - 1

\* HELLO [proto] [options]: the options are handled from left to right.
HelloCommand ==
    [op : {"HELLO"}, proto : {"none", "2", "3", "bad"},
     opts : Seq({"auth", "wrongauth", "setname", "junk"})]

ConnCommand ==
    HelloCommand
    \cup [op : {"AUTH"}, good : BOOLEAN]
    \cup [op : {"SELECT"}, db : Int]
    \cup [op : {"PUBLISH"}, channel : Channels]

ASSUME SessionAssumption ==
    /\ Conns \subseteq Nat /\ IsFiniteSet(Conns)
    /\ MaxClients \in Nat /\ MaxInbox \in Nat
    /\ RequirePass \in BOOLEAN
    /\ Databases \in Nat \ {0}
    /\ Channels \cap Patterns = {}
    /\ Requests \subseteq ConnCommand
    /\ Nobody \notin Conns
    /\ NoInfo \notin DbIds

VARIABLES
    phase,          \* "unused", "open", "closed"
    registry,       \* Shared.clients: the database reported for each client
    pubsub,         \* Shared.pubsub: the subscribers of each topic
    resp3, db_index, authenticated, subscribed, in_multi, multi_queue,
    inbox,          \* how many messages of each topic wait in the mpsc channel
    executing,      \* the connection inside exec()
    queue           \* exec()'s local queue

connState == <<resp3, db_index, authenticated, subscribed, in_multi, multi_queue>>

vars == <<phase, registry, pubsub, connState, inbox, executing, queue>>

NoMessages == [t \in Topics |-> 0]

Registered == {id \in Conns : registry[id] # NoInfo}

Init ==
    /\ phase = [id \in Conns |-> "unused"]
    /\ registry = [id \in Conns |-> NoInfo]
    /\ pubsub = [t \in Topics |-> {}]
    /\ resp3 = [id \in Conns |-> FALSE]
    /\ db_index = [id \in Conns |-> 0]
    /\ authenticated = [id \in Conns |-> FALSE]
    /\ subscribed = [id \in Conns |-> {}]
    /\ in_multi = [id \in Conns |-> FALSE]
    /\ multi_queue = [id \in Conns |-> <<>>]
    /\ inbox = [id \in Conns |-> NoMessages]
    /\ executing = Nobody
    /\ queue = <<>>

-----------------------------------------------------------------------------
(* Connecting and going away *)

Ready(id) == phase[id] = "open" /\ executing = Nobody

\* Fault: off by one at the limit.
ConnectOneOver(id) ==
    /\ executing = Nobody
    /\ phase[id] = "unused"
    /\ \A x \in Conns : x < id => phase[x] # "unused"
    /\ Cardinality(Registered) <= MaxClients
    /\ phase' = [phase EXCEPT ![id] = "open"]
    /\ registry' = [registry EXCEPT ![id] = 0]
    /\ UNCHANGED <<pubsub, connState, inbox, executing, queue>>

\* Ids are handed out in order.  At the limit the connection gets an error and
\* is closed without ever being registered.
Connect(id) ==
    /\ executing = Nobody
    /\ phase[id] = "unused"
    /\ \A x \in Conns : x < id => phase[x] # "unused"
    /\ IF Cardinality(Registered) >= MaxClients
       THEN /\ phase' = [phase EXCEPT ![id] = "closed"]
            /\ UNCHANGED registry
       ELSE /\ phase' = [phase EXCEPT ![id] = "open"]
            /\ registry' = [registry EXCEPT ![id] = 0]
    /\ UNCHANGED <<pubsub, connState, inbox, executing, queue>>

\* The ConnState and both halves of the mpsc channel go with the task.
DropConn(id) ==
    /\ phase' = [phase EXCEPT ![id] = "closed"]
    /\ resp3' = [resp3 EXCEPT ![id] = FALSE]
    /\ db_index' = [db_index EXCEPT ![id] = 0]
    /\ authenticated' = [authenticated EXCEPT ![id] = FALSE]
    /\ subscribed' = [subscribed EXCEPT ![id] = {}]
    /\ in_multi' = [in_multi EXCEPT ![id] = FALSE]
    /\ multi_queue' = [multi_queue EXCEPT ![id] = <<>>]
    /\ inbox' = [inbox EXCEPT ![id] = NoMessages]

remove_client(id) == [t \in Topics |-> pubsub[t] \ {id}]

\* End of file or a protocol error: the loop ends and tears down.
Close(id) ==
    /\ Ready(id)
    /\ DropConn(id)
    /\ pubsub' = remove_client(id)
    /\ registry' = [registry EXCEPT ![id] = NoInfo]
    /\ UNCHANGED <<executing, queue>>

\* A read or a write fails: `?` leaves handle_connection from the loop.
IoError(id) ==
    /\ Ready(id)
    /\ DropConn(id)
    /\ UNCHANGED <<registry, pubsub, executing, queue>>

-----------------------------------------------------------------------------
(* The gates of handle() *)

\* Fault: the first gate is open.
AuthorisedAlways(id) == TRUE

Authorised(id) == RequirePass => authenticated[id]

SubscribeMode(id) == ~resp3[id] /\ subscribed[id] # {}

\* AUTH, HELLO, QUIT and RESET pass the first gate; the subscribe family,
\* PING, QUIT and RESET pass the second.
PassesGates(id, cmd) ==
    /\ cmd.op \in {"AUTH", "HELLO"} \/ Authorised(id)
    /\ ~SubscribeMode(id)

\* QUIT replies and closes; inside MULTI it is queued and the connection stays.
Quit(id) == ~in_multi[id] /\ Close(id)

\* Fault: the shared map still names the connection.
ResetKeepingPubsub(id) ==
    /\ Ready(id)
    /\ ~in_multi[id]
    /\ subscribed' = [subscribed EXCEPT ![id] = {}]
    /\ resp3' = [resp3 EXCEPT ![id] = FALSE]
    /\ authenticated' = [authenticated EXCEPT ![id] = @ /\ ~RequirePass]
    /\ UNCHANGED <<phase, registry, pubsub, db_index, in_multi, multi_queue, inbox,
                   executing, queue>>

\* RESET keeps the selected database and does not touch the registry.
Reset(id) ==
    /\ Ready(id)
    /\ ~in_multi[id]
    /\ pubsub' = [t \in Topics |-> IF t \in subscribed[id] THEN pubsub[t] \ {id} ELSE pubsub[t]]
    /\ subscribed' = [subscribed EXCEPT ![id] = {}]
    /\ multi_queue' = [multi_queue EXCEPT ![id] = <<>>]
    /\ resp3' = [resp3 EXCEPT ![id] = FALSE]
    /\ authenticated' = [authenticated EXCEPT ![id] = @ /\ ~RequirePass]
    /\ UNCHANGED <<phase, registry, db_index, in_multi, inbox, executing, queue>>

-----------------------------------------------------------------------------
(* Subscriptions *)

\* Fault: SUBSCRIBE is let through inside MULTI.
SubscribeInMulti(id, t) ==
    /\ Ready(id)
    /\ Authorised(id)
    /\ subscribed' = [subscribed EXCEPT ![id] = @ \cup {t}]
    /\ pubsub' = [pubsub EXCEPT ![t] = @ \cup {id}]
    /\ UNCHANGED <<phase, registry, resp3, db_index, authenticated, in_multi,
                   multi_queue, inbox, executing, queue>>

Subscribe(id, t) ==
    /\ Ready(id)
    /\ Authorised(id)
    /\ ~in_multi[id]
    /\ subscribed' = [subscribed EXCEPT ![id] = @ \cup {t}]
    /\ pubsub' = [pubsub EXCEPT ![t] = @ \cup {id}]
    /\ UNCHANGED <<phase, registry, resp3, db_index, authenticated, in_multi,
                   multi_queue, inbox, executing, queue>>

\* Only what the connection itself holds is taken out of the shared map.
\* Without arguments UNSUBSCRIBE names every channel, PUNSUBSCRIBE every pattern.
Unsubscribe(id, targets) ==
    /\ Ready(id)
    /\ Authorised(id)
    /\ ~in_multi[id]
    /\ subscribed' = [subscribed EXCEPT ![id] = @ \ targets]
    /\ pubsub' = [t \in Topics |->
                    IF t \in targets \cap subscribed[id] THEN pubsub[t] \ {id} ELSE pubsub[t]]
    /\ UNCHANGED <<phase, registry, resp3, db_index, authenticated, in_multi,
                   multi_queue, inbox, executing, queue>>

\* The receiving branch of the connection's select loop.
Deliver(id) ==
    /\ Ready(id)
    /\ inbox[id] # NoMessages
    /\ inbox' = [inbox EXCEPT ![id] = NoMessages]
    /\ UNCHANGED <<phase, registry, pubsub, connState, executing, queue>>

-----------------------------------------------------------------------------
(* Commands that execute_locked runs, directly or from a queue *)

TopicMatches(t, channel) == t = channel \/ <<t, channel>> \in Glob

\* Fault: patterns are not consulted.
ReachedByChannel(channel) ==
    {sub \in Conns \X Topics :
        sub[2] = channel /\ sub[1] \in pubsub[sub[2]] /\ phase[sub[1]] = "open"}

\* A send succeeds while the receiving half, owned by the connection's task,
\* is alive.  One delivery per subscription that matches.
Reached(channel) ==
    {sub \in Conns \X Topics :
        TopicMatches(sub[2], channel) /\ sub[1] \in pubsub[sub[2]] /\ phase[sub[1]] = "open"}

Publish(cmd) ==
    /\ \A sub \in Reached(cmd.channel) : inbox[sub[1]][sub[2]] < MaxInbox
    /\ inbox' = [id \in Conns |-> [t \in Topics |->
                    inbox[id][t] + IF <<id, t>> \in Reached(cmd.channel) THEN 1 ELSE 0]]
    /\ UNCHANGED <<registry, resp3, db_index, authenticated>>

\* Fault: the index is not checked.
SelectUnchecked(id, cmd) ==
    /\ db_index' = [db_index EXCEPT ![id] = cmd.db]
    /\ registry' = [registry EXCEPT ![id] = cmd.db]
    /\ UNCHANGED <<resp3, authenticated, inbox>>

Select(id, cmd) ==
    /\ IF cmd.db \in DbIds
       THEN /\ db_index' = [db_index EXCEPT ![id] = cmd.db]
            /\ registry' = [registry EXCEPT ![id] = cmd.db]
       ELSE UNCHANGED <<db_index, registry>>
    /\ UNCHANGED <<resp3, authenticated, inbox>>

Auth(id, cmd) ==
    /\ authenticated' = [authenticated EXCEPT ![id] = @ \/ (RequirePass /\ cmd.good)]
    /\ UNCHANGED <<registry, resp3, db_index, inbox>>

\* An option that ends HELLO with an error.
BadOption(opt) == opt \in {"junk", "wrongauth"} \/ (opt = "auth" /\ ~RequirePass)

\* The protocol switches first and stays switched, and an AUTH that precedes
\* the failing option counts, although HELLO then replies with an error.
Hello(id, cmd) ==
    LET opts == cmd.opts
        authed == \E i \in DOMAIN opts :
                    /\ opts[i] = "auth" /\ RequirePass
                    /\ \A j \in 1 .. i : ~BadOption(opts[j])
    IN  /\ IF cmd.proto = "bad"
           THEN UNCHANGED <<resp3, authenticated>>
           ELSE /\ resp3' = [resp3 EXCEPT ![id] =
                                cmd.proto = "3" \/ (cmd.proto = "none" /\ @)]
                /\ authenticated' = [authenticated EXCEPT ![id] = @ \/ authed]
        /\ UNCHANGED <<registry, db_index, inbox>>

RunCommand(id, cmd) ==
    \/ cmd.op = "PUBLISH" /\ Publish(cmd)
    \/ cmd.op = "SELECT"  /\ Select(id, cmd)
    \/ cmd.op = "AUTH"    /\ Auth(id, cmd)
    \/ cmd.op = "HELLO"   /\ Hello(id, cmd)

Execute(id, cmd) ==
    /\ Ready(id)
    /\ PassesGates(id, cmd)
    /\ ~in_multi[id]
    /\ RunCommand(id, cmd)
    /\ UNCHANGED <<phase, pubsub, subscribed, in_multi, multi_queue, executing, queue>>

-----------------------------------------------------------------------------
(* MULTI: what it does to the gates.  Watches are in Transactions. *)

Multi(id) ==
    /\ Ready(id)
    /\ Authorised(id) /\ ~SubscribeMode(id)
    /\ ~in_multi[id]
    /\ in_multi' = [in_multi EXCEPT ![id] = TRUE]
    /\ UNCHANGED <<phase, registry, pubsub, resp3, db_index, authenticated,
                   subscribed, multi_queue, inbox, executing, queue>>

QueueCommand(id, cmd) ==
    /\ Ready(id)
    /\ PassesGates(id, cmd)
    /\ in_multi[id]
    /\ Len(multi_queue[id]) < MaxQueue
    /\ multi_queue' = [multi_queue EXCEPT ![id] = Append(@, cmd)]
    /\ UNCHANGED <<phase, registry, pubsub, resp3, db_index, authenticated,
                   subscribed, in_multi, inbox, executing, queue>>

\* DISCARD, or an EXEC that aborts: the queue is dropped.
EndMulti(id) ==
    /\ Ready(id)
    /\ Authorised(id) /\ ~SubscribeMode(id)
    /\ in_multi[id]
    /\ in_multi' = [in_multi EXCEPT ![id] = FALSE]
    /\ multi_queue' = [multi_queue EXCEPT ![id] = <<>>]

Discard(id) ==
    /\ EndMulti(id)
    /\ UNCHANGED <<phase, registry, pubsub, resp3, db_index, authenticated,
                   subscribed, inbox, executing, queue>>

Exec(id) ==
    /\ EndMulti(id)
    /\ multi_queue[id] # <<>>
    /\ executing' = id
    /\ queue' = multi_queue[id]
    /\ UNCHANGED <<phase, registry, pubsub, resp3, db_index, authenticated,
                   subscribed, inbox>>

\* The queued commands pass no gate.
ExecStep(id) ==
    /\ executing = id
    /\ RunCommand(id, Head(queue))
    /\ queue' = Tail(queue)
    /\ executing' = IF Tail(queue) = <<>> THEN Nobody ELSE id
    /\ UNCHANGED <<phase, pubsub, subscribed, in_multi, multi_queue>>

-----------------------------------------------------------------------------

Next ==
    \E id \in Conns :
        \/ Connect(id) \/ Close(id) \/ Quit(id) \/ IoError(id) \/ Reset(id) \/ Deliver(id)
        \/ \E t \in Topics : Subscribe(id, t)
        \/ \E targets \in {{t} : t \in Topics} \cup {Channels, Patterns} :
            Unsubscribe(id, targets)
        \/ \E cmd \in Requests : Execute(id, cmd) \/ QueueCommand(id, cmd)
        \/ Multi(id) \/ Discard(id) \/ Exec(id) \/ ExecStep(id)

Spec == Init /\ [][Next]_vars

-----------------------------------------------------------------------------
(* Properties *)

Open == {id \in Conns : phase[id] = "open"}

\* Shape of the state.
TypeOK ==
    /\ phase \in [Conns -> {"unused", "open", "closed"}]
    /\ registry \in [Conns -> DbIds \cup {NoInfo}]
    /\ pubsub \in [Topics -> SUBSET Conns]
    /\ resp3 \in [Conns -> BOOLEAN]
    /\ db_index \in [Conns -> DbIds]
    /\ authenticated \in [Conns -> BOOLEAN]
    /\ subscribed \in [Conns -> SUBSET Topics]
    /\ in_multi \in [Conns -> BOOLEAN]
    /\ multi_queue \in [Conns -> Seq(ConnCommand)]
    /\ inbox \in [Conns -> [Topics -> Nat]]
    /\ executing \in Conns \cup {Nobody}
    /\ executing = Nobody => queue = <<>>

\* The two halves of a subscription agree: an open connection believes it is
\* subscribed to exactly the topics whose subscriber lists name it.
SubscriptionsAgree ==
    \A id \in Open, t \in Topics : t \in subscribed[id] <=> id \in pubsub[t]

\* With a password set, a connection that is not authenticated (never was, or
\* was reset) is subscribed to nothing and has no transaction open.
UnauthenticatedHoldsNothing ==
    RequirePass => \A id \in Open : ~authenticated[id] =>
        subscribed[id] = {} /\ ~in_multi[id]

\* A RESP2 connection in subscribe mode is never inside MULTI, where the
\* subscribe gate would refuse both EXEC and DISCARD.
NeverTrappedInMulti == \A id \in Open : SubscribeMode(id) => ~in_multi[id]

\* CLIENT LIST reports the database each open connection really is on.
DbMirrored == \A id \in Open : registry[id] = db_index[id]

\* No more than maxclients connections are ever served at a time.
AdmissionBound == Cardinality(Open) <= MaxClients

\* The subscription of a connection to a topic, as the connection knows it, is
\* one that a message on the channel is for.
Subscribes(id, t, channel) ==
    id \in Open /\ t \in subscribed[id] /\ TopicMatches(t, channel)

\* PUBLISH puts the message before exactly the open connections that, as they
\* themselves know it, subscribe to the channel or to a pattern that matches it,
\* once for each such subscription.
PublishReachesSubscribers ==
    [][(\E id \in Open, t \in Topics : inbox'[id][t] > inbox[id][t]) =>
        \E channel \in Channels : \A id \in Conns, t \in Topics :
            inbox'[id][t] = inbox[id][t] + IF Subscribes(id, t, channel) THEN 1 ELSE 0]_vars

\* Shared.clients is the "registry of live clients", and a disconnected client
\* is out of every subscriber list.
OnlyLiveClients ==
    /\ Registered \subseteq Open
    /\ \A t \in Topics : pubsub[t] \subseteq Open

==================================================
