--------------------------- MODULE SessionProofs ----------------------------
(***************************************************************************)
(* Connections that come, go and fail, subscribe, run transactions and     *)
(* scripts, for any number of them, any topics, requests and scripts.      *)
(***************************************************************************)
EXTENDS Scripting, FiniteSetTheorems, SequenceTheorems, TLAPS

\* The connections' part of the state, without who runs.
ConnTypeOK ==
    /\ phase \in [Conns -> {"unused", "open", "closed"}]
    /\ registry \in [Conns -> DbIds \cup {NoInfo}]
    /\ pubsub \in [Topics -> SUBSET Conns]
    /\ resp3 \in [Conns -> BOOLEAN]
    /\ db_index \in [Conns -> DbIds]
    /\ authenticated \in [Conns -> BOOLEAN]
    /\ subscribed \in [Conns -> SUBSET Topics]
    /\ in_multi \in [Conns -> BOOLEAN]
    /\ multi_queue \in [Conns -> Seq(ConnCommand)]
    /\ inbox \in [Conns -> [Topics -> Nat]]

\* An id that has not been handed out is in no list and has nothing set.
UnusedHoldsNothing ==
    \A id \in Conns : phase[id] = "unused" =>
        /\ subscribed[id] = {} /\ ~in_multi[id] /\ db_index[id] = 0
        /\ \A t \in Topics : id \notin pubsub[t]

ConnInv ==
    /\ ConnTypeOK
    /\ UnusedHoldsNothing
    /\ SubscriptionsAgree
    /\ UnauthenticatedHoldsNothing
    /\ NeverTrappedInMulti
    /\ DbMirrored

\* Who runs: exec() with a queue that is not empty, or a script with calls that
\* may include forbidden ones; the connection is open and out of MULTI.
RunInv ==
    /\ executing \in Conns \cup {Nobody}
    /\ caller_db \in DbIds \cup {NoInfo}
    /\ executing = Nobody => queue = <<>> /\ caller_db = NoInfo
    /\ executing # Nobody => phase[executing] = "open" /\ ~in_multi[executing]
    /\ caller_db = NoInfo /\ executing # Nobody => queue \in Seq(ConnCommand) /\ queue # <<>>
    /\ caller_db # NoInfo => queue \in Seq(ConnCommand \cup [op : Blocked])

IInv == ConnInv /\ RunInv /\ AdmissionBound

LEMMA TypeFromIInv == IInv => TypeOK
BY DEF IInv, ConnInv, ConnTypeOK, RunInv, TypeOK

LEMMA ZeroIsDb == 0 \in DbIds /\ NoInfo \notin DbIds
BY SessionAssumption DEF DbIds

LEMMA InitIInv == ScriptingInit => IInv
<1> SUFFICES ASSUME ScriptingInit PROVE IInv
  OBVIOUS
<1>1. <<>> \in Seq(ConnCommand)
  BY EmptySeq
<1>2. Open = {}
  BY DEF ScriptingInit, Init, Open
<1>3. ConnInv
  BY <1>1, <1>2, ZeroIsDb
     DEF ScriptingInit, Init, NoMessages, ConnInv, ConnTypeOK, UnusedHoldsNothing, SubscriptionsAgree,
         UnauthenticatedHoldsNothing, NeverTrappedInMulti, DbMirrored, Open
<1>4. RunInv
  BY DEF ScriptingInit, Init, RunInv
<1>5. AdmissionBound
  BY <1>2, FS_EmptySet, SessionAssumption DEF AdmissionBound
<1> QED
  BY <1>3, <1>4, <1>5 DEF IInv

-----------------------------------------------------------------------------
(* Admission *)

LEMMA OpenFinite ==
    /\ IsFiniteSet(Open) /\ Cardinality(Open) \in Nat
    /\ IsFiniteSet(Registered) /\ Cardinality(Registered) \in Nat
BY SessionAssumption, FS_Subset, FS_CardinalityType DEF Open, Registered

\* A step that opens no connection keeps the bound.
LEMMA NoneOpened ==
    ASSUME AdmissionBound, Open' \subseteq Open
    PROVE  AdmissionBound'
<1>1. Cardinality(Open') <= Cardinality(Open) /\ Cardinality(Open') \in Nat
  BY OpenFinite, FS_Subset, FS_CardinalityType
<1> QED
  BY <1>1, OpenFinite, SessionAssumption DEF AdmissionBound

\* Open connections are registered, so the count of the registry bounds them:
\* the registry may also hold dead ones, never too few.
LEMMA OpenIsRegistered == ConnInv => Open \subseteq Registered
BY ZeroIsDb DEF ConnInv, ConnTypeOK, DbMirrored, Open, Registered

-----------------------------------------------------------------------------
(* The commands that execute_locked runs: from the loop, a queue, a script *)

\* The message of a PUBLISH is put before the subscribers of the channel.
Published(channel) ==
    \A id \in Conns, t \in Topics :
        inbox'[id][t] = inbox[id][t] + IF Subscribes(id, t, channel) THEN 1 ELSE 0

\* PublishReachesSubscribers for one step.
Reaching ==
    (\E id \in Open, t \in Topics : inbox'[id][t] > inbox[id][t]) =>
        \E channel \in Channels : Published(channel)

\* Without a new message there is nothing to show.
LEMMA NoNews ==
    ASSUME ConnTypeOK,
           \A id \in Conns, t \in Topics : inbox'[id][t] = inbox[id][t] \/ inbox'[id][t] = 0
    PROVE  Reaching
<1>1. \A id \in Conns, t \in Topics : inbox[id][t] \in Nat
  BY DEF ConnTypeOK
<1> QED BY <1>1 DEF Reaching, Open

LEMMA Quiet ==
    ASSUME ConnInv, UNCHANGED inbox
    PROVE  Reaching
BY NoNews DEF ConnInv

\* All that such a command can do to the connections.
Ran(id) ==
    /\ \/ UNCHANGED <<db_index, registry>>
       \/ \E d \in DbIds : /\ db_index' = [db_index EXCEPT ![id] = d]
                           /\ registry' = [registry EXCEPT ![id] = d]
    /\ resp3' \in [Conns -> BOOLEAN]
    /\ \A x \in Conns \ {id} : resp3'[x] = resp3[x]
    /\ authenticated' \in [Conns -> BOOLEAN]
    /\ \A x \in Conns : authenticated[x] => authenticated'[x]
    /\ inbox' \in [Conns -> [Topics -> Nat]]
    /\ Reaching

LEMMA CommandFields ==
    ASSUME NEW cmd \in ConnCommand
    PROVE  /\ cmd.op \in {"HELLO", "AUTH", "SELECT", "PUBLISH"}
           /\ cmd.op = "PUBLISH" => cmd.channel \in Channels
           /\ cmd.op = "AUTH" => cmd.good \in BOOLEAN
BY DEF ConnCommand, HelloCommand

LEMMA PublishReaches ==
    ASSUME ConnInv, NEW cmd, cmd.channel \in Channels, Publish(cmd)
    PROVE  inbox' \in [Conns -> [Topics -> Nat]] /\ Published(cmd.channel)
<1>1. inbox' = [id \in Conns |-> [t \in Topics |->
                  inbox[id][t] + IF <<id, t>> \in Reached(cmd.channel) THEN 1 ELSE 0]]
  BY DEF Publish
<1>2. \A id \in Conns, t \in Topics :
        <<id, t>> \in Reached(cmd.channel) <=>
            TopicMatches(t, cmd.channel) /\ id \in pubsub[t] /\ phase[id] = "open"
  BY DEF Reached
<1>3. \A id \in Conns, t \in Topics :
        <<id, t>> \in Reached(cmd.channel) <=> Subscribes(id, t, cmd.channel)
  BY <1>2 DEF ConnInv, SubscriptionsAgree, Open, Subscribes
<1>4. inbox' \in [Conns -> [Topics -> Nat]]
  BY <1>1 DEF ConnInv, ConnTypeOK
<1> QED
  BY <1>1, <1>3, <1>4 DEF Published

LEMMA RunCommandEffect ==
    ASSUME ConnInv, NEW id \in Conns, NEW cmd \in ConnCommand, RunCommand(id, cmd)
    PROVE  Ran(id)
<1> USE CommandFields
<1>1. CASE cmd.op = "PUBLISH" /\ Publish(cmd)
  <2>1. inbox' \in [Conns -> [Topics -> Nat]] /\ Published(cmd.channel)
    BY <1>1, PublishReaches
  <2> QED
    BY <1>1, <2>1 DEF Publish, Ran, Reaching, ConnInv, ConnTypeOK
<1>2. CASE cmd.op = "SELECT" /\ Select(id, cmd)
  BY <1>2, Quiet DEF Select, Ran, ConnInv, ConnTypeOK
<1>3. CASE cmd.op = "AUTH" /\ Auth(id, cmd)
  BY <1>3, SessionAssumption, Quiet DEF Auth, Ran, ConnInv, ConnTypeOK
<1>4. CASE cmd.op = "HELLO" /\ Hello(id, cmd)
  BY <1>4, Quiet DEF Hello, Ran, ConnInv, ConnTypeOK
<1> QED
  BY <1>1, <1>2, <1>3, <1>4 DEF RunCommand

\* On an open connection outside MULTI these commands keep the invariant: a
\* protocol switched back to RESP2 cannot trap it, and nothing logs it out.
LEMMA RanKeeps ==
    ASSUME ConnInv, NEW id \in Conns, phase[id] = "open", ~in_multi[id], Ran(id),
           UNCHANGED <<phase, pubsub, subscribed, in_multi, multi_queue>>
    PROVE  ConnInv'
<1> DEFINE Moved == /\ db_index' \in [Conns -> DbIds]
                    /\ registry' \in [Conns -> DbIds \cup {NoInfo}]
                    /\ DbMirrored'
                    /\ \A x \in Conns \ {id} : db_index'[x] = db_index[x]
<1>0. Moved
  <2>1. /\ db_index \in [Conns -> DbIds] /\ registry \in [Conns -> DbIds \cup {NoInfo}]
        /\ DbMirrored
    BY DEF ConnInv, ConnTypeOK
  <2>2. CASE UNCHANGED <<db_index, registry>>
    BY <2>1, <2>2 DEF DbMirrored, Open
  <2>3. ASSUME NEW d \in DbIds, db_index' = [db_index EXCEPT ![id] = d],
               registry' = [registry EXCEPT ![id] = d]
        PROVE  Moved
    BY <2>1, <2>3 DEF DbMirrored, Open
  <2> QED
    BY <2>2, <2>3 DEF Ran
<1>1. ConnTypeOK'
  BY <1>0 DEF ConnInv, ConnTypeOK, Ran
<1>2. UnusedHoldsNothing'
  BY <1>0 DEF ConnInv, UnusedHoldsNothing
<1>3. SubscriptionsAgree'
  BY DEF ConnInv, SubscriptionsAgree, Open
<1>4. UnauthenticatedHoldsNothing'
  BY DEF ConnInv, Ran, UnauthenticatedHoldsNothing, Open
<1>5. NeverTrappedInMulti'
  BY DEF ConnInv, Ran, NeverTrappedInMulti, SubscribeMode, Open
<1> QED
  BY <1>0, <1>1, <1>2, <1>3, <1>4, <1>5 DEF ConnInv

-----------------------------------------------------------------------------
(* Connections that come and go *)

LEMMA ConnectKeeps ==
    ASSUME ConnInv, AdmissionBound, NEW id \in Conns, Connect(id)
    PROVE  ConnInv' /\ AdmissionBound' /\ Reaching
<1>1. CASE Cardinality(Registered) >= MaxClients
  <2>1. Open' \subseteq Open
    BY <1>1 DEF Connect, Open, ConnInv, ConnTypeOK
  <2>2. /\ phase' = [phase EXCEPT ![id] = "closed"]
        /\ UNCHANGED <<registry, pubsub, resp3, db_index, authenticated, subscribed, in_multi,
                       multi_queue, inbox>>
    BY <1>1 DEF Connect, connState
  <2>3. ConnTypeOK'
    BY <2>2 DEF ConnInv, ConnTypeOK
  <2>4. UnusedHoldsNothing'
    BY <2>2 DEF ConnInv, ConnTypeOK, UnusedHoldsNothing
  <2>5. SubscriptionsAgree' /\ UnauthenticatedHoldsNothing'
    BY <2>1, <2>2 DEF ConnInv, SubscriptionsAgree, UnauthenticatedHoldsNothing
  <2>6. NeverTrappedInMulti' /\ DbMirrored'
    BY <2>1, <2>2 DEF ConnInv, NeverTrappedInMulti, SubscribeMode, DbMirrored
  <2>7. ConnInv'
    BY <2>3, <2>4, <2>5, <2>6 DEF ConnInv
  <2> QED
    BY <2>1, <2>2, <2>7, NoneOpened, Quiet
<1>2. CASE ~(Cardinality(Registered) >= MaxClients)
  <2>1. /\ phase[id] = "unused"
        /\ phase' = [phase EXCEPT ![id] = "open"]
        /\ registry' = [registry EXCEPT ![id] = 0]
        /\ UNCHANGED <<pubsub, resp3, db_index, authenticated, subscribed, in_multi,
                       multi_queue, inbox, executing, queue>>
    BY <1>2 DEF Connect, connState
  <2>2. ConnTypeOK'
    BY <2>1, ZeroIsDb DEF ConnInv, ConnTypeOK
  <2>3. Open' = Open \cup {id} /\ id \notin Open
    BY <2>1 DEF ConnInv, ConnTypeOK, Open
  <2>4. UnusedHoldsNothing'
    BY <2>1 DEF ConnInv, ConnTypeOK, UnusedHoldsNothing
  <2>5. SubscriptionsAgree'
    BY <2>1, <2>3 DEF ConnInv, UnusedHoldsNothing, SubscriptionsAgree
  <2>6. UnauthenticatedHoldsNothing'
    BY <2>1, <2>3 DEF ConnInv, UnusedHoldsNothing, UnauthenticatedHoldsNothing
  <2>7. NeverTrappedInMulti'
    BY <2>1, <2>3 DEF ConnInv, UnusedHoldsNothing, NeverTrappedInMulti, SubscribeMode
  <2>8. DbMirrored'
    BY <2>1, <2>3 DEF ConnInv, ConnTypeOK, UnusedHoldsNothing, DbMirrored
  <2>9. AdmissionBound'
    <3>1. Cardinality(Open) <= Cardinality(Registered)
      BY OpenIsRegistered, OpenFinite, FS_Subset
    <3>2. Cardinality(Open') = Cardinality(Open) + 1
      BY <2>3, OpenFinite, FS_AddElement
    <3> QED
      BY <1>2, <3>1, <3>2, OpenFinite, SessionAssumption DEF AdmissionBound
  <2> QED
    BY <2>1, <2>2, <2>4, <2>5, <2>6, <2>7, <2>8, <2>9, Quiet DEF ConnInv
<1> QED
  BY <1>1, <1>2

\* The teardown, and the way out past it: what the shared maps still say of a
\* closed connection is nobody else's business.
LEMMA LeaveKeeps ==
    ASSUME ConnInv, AdmissionBound, NEW id \in Conns, Close(id) \/ Quit(id) \/ IoError(id)
    PROVE  ConnInv' /\ AdmissionBound' /\ Reaching
<1>1. /\ phase[id] = "open"
      /\ DropConn(id)
      /\ \/ UNCHANGED <<registry, pubsub>>
         \/ pubsub' = remove_client(id) /\ registry' = [registry EXCEPT ![id] = NoInfo]
  BY DEF Close, Quit, IoError, Ready
<1>2. \A x \in Conns : x \in Open' <=> x \in Open /\ x # id
  BY <1>1 DEF DropConn, Open, ConnInv, ConnTypeOK
<1>3. \A x \in Conns : x # id =>
          /\ registry'[x] = registry[x] /\ db_index'[x] = db_index[x]
          /\ resp3'[x] = resp3[x] /\ authenticated'[x] = authenticated[x]
          /\ subscribed'[x] = subscribed[x] /\ in_multi'[x] = in_multi[x]
          /\ phase'[x] = phase[x]
  BY <1>1 DEF DropConn, ConnInv, ConnTypeOK
<1>4. \A t \in Topics, x \in Conns : x # id => (x \in pubsub'[t] <=> x \in pubsub[t])
  BY <1>1 DEF remove_client, ConnInv, ConnTypeOK
<1>5. ConnTypeOK'
  <2>1. <<>> \in Seq(ConnCommand)
    BY EmptySeq
  <2>2. registry' \in [Conns -> DbIds \cup {NoInfo}] /\ pubsub' \in [Topics -> SUBSET Conns]
    <3>1. remove_client(id) \in [Topics -> SUBSET Conns]
      BY DEF remove_client, ConnInv, ConnTypeOK
    <3>2. [registry EXCEPT ![id] = NoInfo] \in [Conns -> DbIds \cup {NoInfo}]
      BY DEF ConnInv, ConnTypeOK
    <3> QED
      BY <1>1, <3>1, <3>2 DEF ConnInv, ConnTypeOK
  <2>3. /\ phase' \in [Conns -> {"unused", "open", "closed"}]
        /\ resp3' \in [Conns -> BOOLEAN] /\ authenticated' \in [Conns -> BOOLEAN]
        /\ in_multi' \in [Conns -> BOOLEAN] /\ db_index' \in [Conns -> DbIds]
    BY <1>1, ZeroIsDb DEF DropConn, ConnInv, ConnTypeOK
  <2>4. subscribed' \in [Conns -> SUBSET Topics] /\ inbox' \in [Conns -> [Topics -> Nat]]
    BY <1>1 DEF DropConn, NoMessages, ConnInv, ConnTypeOK
  <2>5. multi_queue' \in [Conns -> Seq(ConnCommand)]
    BY <1>1, <2>1 DEF DropConn, ConnInv, ConnTypeOK
  <2> QED
    BY <2>2, <2>3, <2>4, <2>5 DEF ConnTypeOK
<1>6. UnusedHoldsNothing'
  BY <1>1, <1>3, <1>4 DEF DropConn, ConnInv, ConnTypeOK, UnusedHoldsNothing
<1>7. Open \subseteq Conns /\ Open' \subseteq Conns
  BY DEF Open
<1>8. SubscriptionsAgree' /\ UnauthenticatedHoldsNothing' /\ NeverTrappedInMulti' /\ DbMirrored'
  BY <1>2, <1>3, <1>4, <1>7 DEF ConnInv, SubscriptionsAgree, UnauthenticatedHoldsNothing, NeverTrappedInMulti,
      SubscribeMode, DbMirrored
<1>9. Reaching
  <2>1. \A x \in Conns, t \in Topics : inbox'[x][t] = inbox[x][t] \/ inbox'[x][t] = 0
    BY <1>1 DEF DropConn, NoMessages, ConnInv, ConnTypeOK
  <2> QED BY <2>1, NoNews DEF ConnInv
<1> QED
  BY <1>2, <1>5, <1>6, <1>7, <1>8, <1>9, NoneOpened DEF ConnInv

-----------------------------------------------------------------------------
(* Subscriptions *)

LEMMA ResetKeeps ==
    ASSUME ConnInv, NEW id \in Conns, Reset(id)
    PROVE  ConnInv' /\ Open' = Open /\ Reaching
<1> USE DEF Reset, Ready
<1>1. ConnTypeOK'
  BY EmptySeq, SessionAssumption DEF ConnInv, ConnTypeOK
<1>2. \A x \in Conns : x # id =>
          /\ subscribed'[x] = subscribed[x] /\ resp3'[x] = resp3[x]
          /\ authenticated'[x] = authenticated[x]
  BY DEF ConnInv, ConnTypeOK
<1>3. subscribed'[id] = {} /\ ~in_multi'[id]
  BY DEF ConnInv, ConnTypeOK
<1>4. \A t \in Topics, x \in Conns :
          x \in pubsub'[t] <=> x \in pubsub[t] /\ ~(x = id /\ t \in subscribed[id])
  BY DEF ConnInv, ConnTypeOK
<1>5. UnusedHoldsNothing'
  BY <1>2, <1>4 DEF ConnInv, UnusedHoldsNothing
<1>6. Open' = Open /\ Open \subseteq Conns /\ id \in Open
  BY DEF Open
<1>7. SubscriptionsAgree'
  BY <1>2, <1>3, <1>4, <1>6 DEF ConnInv, SubscriptionsAgree
<1>8. UnauthenticatedHoldsNothing' /\ NeverTrappedInMulti' /\ DbMirrored'
  BY <1>2, <1>3, <1>6 DEF ConnInv, UnauthenticatedHoldsNothing, NeverTrappedInMulti,
      SubscribeMode, DbMirrored
<1> QED
  BY <1>1, <1>5, <1>6, <1>7, <1>8, Quiet DEF ConnInv

LEMMA SubscribeKeeps ==
    ASSUME ConnInv, NEW id \in Conns, NEW t \in Topics, Subscribe(id, t)
    PROVE  ConnInv' /\ Open' = Open /\ Reaching
<1> USE DEF Subscribe, Ready
<1>1. ConnTypeOK'
  BY DEF ConnInv, ConnTypeOK
<1>2. \A x \in Conns, u \in Topics :
          /\ u \in subscribed'[x] <=> u \in subscribed[x] \/ (x = id /\ u = t)
          /\ x \in pubsub'[u] <=> x \in pubsub[u] \/ (x = id /\ u = t)
  BY DEF ConnInv, ConnTypeOK
<1>3. \A x \in Conns : x # id => subscribed'[x] = subscribed[x]
  BY DEF ConnInv, ConnTypeOK
<1>4. Open' = Open /\ Open \subseteq Conns /\ phase[id] = "open"
  BY DEF Open
<1>5. UnusedHoldsNothing'
  BY <1>2, <1>3, <1>4 DEF ConnInv, UnusedHoldsNothing
<1>6. SubscriptionsAgree'
  BY <1>2, <1>4 DEF ConnInv, SubscriptionsAgree
<1>7. UnauthenticatedHoldsNothing' /\ NeverTrappedInMulti' /\ DbMirrored'
  BY <1>3, <1>4 DEF ConnInv, Authorised, UnauthenticatedHoldsNothing, NeverTrappedInMulti,
      SubscribeMode, DbMirrored
<1> QED
  BY <1>1, <1>4, <1>5, <1>6, <1>7, Quiet DEF ConnInv

LEMMA UnsubscribeKeeps ==
    ASSUME ConnInv, NEW id \in Conns, NEW targets \in SUBSET Topics, Unsubscribe(id, targets)
    PROVE  ConnInv' /\ Open' = Open /\ Reaching
<1> USE DEF Unsubscribe, Ready
<1>1. ConnTypeOK'
  BY DEF ConnInv, ConnTypeOK
<1>2. \A x \in Conns, u \in Topics :
          /\ u \in subscribed'[x] <=> u \in subscribed[x] /\ ~(x = id /\ u \in targets)
          /\ x \in pubsub'[u] <=>
                x \in pubsub[u] /\ ~(x = id /\ u \in targets /\ u \in subscribed[id])
  BY DEF ConnInv, ConnTypeOK
<1>3. \A x \in Conns : subscribed'[x] \subseteq subscribed[x]
  BY DEF ConnInv, ConnTypeOK
<1>4. Open' = Open /\ Open \subseteq Conns
  BY DEF Open
<1>5. UnusedHoldsNothing'
  BY <1>2, <1>3 DEF ConnInv, UnusedHoldsNothing
<1>6. SubscriptionsAgree'
  BY <1>2, <1>4 DEF ConnInv, SubscriptionsAgree
<1>7. UnauthenticatedHoldsNothing' /\ NeverTrappedInMulti' /\ DbMirrored'
  BY <1>3, <1>4 DEF ConnInv, UnauthenticatedHoldsNothing, NeverTrappedInMulti,
      SubscribeMode, DbMirrored
<1> QED
  BY <1>1, <1>4, <1>5, <1>6, <1>7, Quiet DEF ConnInv

LEMMA DeliverKeeps ==
    ASSUME ConnInv, NEW id \in Conns, Deliver(id)
    PROVE  ConnInv' /\ Open' = Open /\ Reaching
<1>1. UNCHANGED <<phase, registry, pubsub, resp3, db_index, authenticated, subscribed, in_multi,
                  multi_queue>> /\ inbox' = [inbox EXCEPT ![id] = NoMessages]
  BY DEF Deliver, connState
<1>2. ConnInv'
  BY <1>1 DEF ConnInv, ConnTypeOK, UnusedHoldsNothing, SubscriptionsAgree, NoMessages,
      UnauthenticatedHoldsNothing, NeverTrappedInMulti, SubscribeMode, DbMirrored, Open
<1>3. Open' = Open
  BY <1>1 DEF Open
<1>4. Reaching
  <2>1. \A x \in Conns, t \in Topics : inbox'[x][t] = inbox[x][t] \/ inbox'[x][t] = 0
    BY <1>1 DEF NoMessages, ConnInv, ConnTypeOK
  <2> QED BY <2>1, NoNews DEF ConnInv
<1> QED
  BY <1>2, <1>3, <1>4

-----------------------------------------------------------------------------
(* Transactions *)

LEMMA MultiKeeps ==
    ASSUME ConnInv, NEW id \in Conns,
           Multi(id) \/ Discard(id) \/ Exec(id) \/ \E cmd \in Requests : QueueCommand(id, cmd)
    PROVE  ConnInv' /\ Open' = Open /\ Reaching
<1>1. UNCHANGED <<phase, registry, pubsub, resp3, db_index, authenticated, subscribed, inbox>>
  BY DEF Multi, Discard, Exec, QueueCommand
<1>2. in_multi' \in [Conns -> BOOLEAN] /\ \A x \in Conns : in_multi'[x] =>
        in_multi[x] \/ (x = id /\ phase[id] = "open" /\ Authorised(id) /\ ~SubscribeMode(id))
  BY DEF Multi, Discard, Exec, QueueCommand, EndMulti, Ready, ConnInv, ConnTypeOK
<1>3. multi_queue' \in [Conns -> Seq(ConnCommand)]
  <2>1. multi_queue \in [Conns -> Seq(ConnCommand)] /\ <<>> \in Seq(ConnCommand)
    BY EmptySeq DEF ConnInv, ConnTypeOK
  <2>2. \A cmd \in Requests : Append(multi_queue[id], cmd) \in Seq(ConnCommand)
    BY <2>1, SessionAssumption, AppendProperties
  <2> QED
    BY <2>1, <2>2 DEF Multi, Discard, Exec, QueueCommand, EndMulti
<1>4. ConnTypeOK'
  BY <1>1, <1>2, <1>3 DEF ConnInv, ConnTypeOK
<1>5. Open' = Open /\ Open \subseteq Conns
  BY <1>1 DEF Open
<1>6. UnusedHoldsNothing' /\ SubscriptionsAgree' /\ DbMirrored'
  BY <1>1, <1>2, <1>5 DEF ConnInv, UnusedHoldsNothing, SubscriptionsAgree, DbMirrored
<1>7. UnauthenticatedHoldsNothing'
  BY <1>1, <1>2, <1>5 DEF ConnInv, UnauthenticatedHoldsNothing, Authorised
<1>8. NeverTrappedInMulti'
  BY <1>1, <1>2, <1>5 DEF ConnInv, NeverTrappedInMulti, SubscribeMode
<1> QED
  BY <1>1, <1>4, <1>5, <1>6, <1>7, <1>8, Quiet DEF ConnInv

-----------------------------------------------------------------------------
(* Steps of the composition *)

\* A command of the loop, of a queue or of a script.
LEMMA RunKeeps ==
    ASSUME ConnInv, NEW id \in Conns, phase[id] = "open", ~in_multi[id], Ran(id),
           UNCHANGED <<phase, pubsub, subscribed, in_multi, multi_queue>>
    PROVE  ConnInv' /\ Open' = Open /\ Reaching
BY RanKeeps DEF Ran, Open

LEMMA SessionStep ==
    ASSUME IInv, caller_db = NoInfo, Next, UNCHANGED caller_db
    PROVE  ConnInv' /\ AdmissionBound' /\ Reaching
<1> USE DEF IInv
<1>1. ASSUME NEW id \in Conns, Connect(id) \/ Close(id) \/ Quit(id) \/ IoError(id)
      PROVE  ConnInv' /\ AdmissionBound' /\ Reaching
  BY <1>1, ConnectKeeps, LeaveKeeps
<1>2. ASSUME NEW id \in Conns,
             \/ Reset(id) \/ Deliver(id)
             \/ \E t \in Topics : Subscribe(id, t)
             \/ \E targets \in {{t} : t \in Topics} \cup {Channels, Patterns} :
                    Unsubscribe(id, targets)
      PROVE  ConnInv' /\ AdmissionBound' /\ Reaching
  <2>1. \A targets \in {{t} : t \in Topics} \cup {Channels, Patterns} : targets \in SUBSET Topics
    BY DEF Topics
  <2>2. ConnInv' /\ Open' = Open /\ Reaching
    BY <1>2, <2>1, ResetKeeps, DeliverKeeps, SubscribeKeeps, UnsubscribeKeeps
  <2> QED
    BY <2>2, NoneOpened
<1>3. ASSUME NEW id \in Conns, NEW cmd \in Requests, Execute(id, cmd)
      PROVE  ConnInv' /\ AdmissionBound' /\ Reaching
  <2>1. cmd \in ConnCommand
    BY SessionAssumption
  <2>2. Ran(id)
    BY <1>3, <2>1, RunCommandEffect DEF Execute
  <2> QED
    BY <1>3, <2>2, RunKeeps, NoneOpened DEF Execute, Ready
<1>4. ASSUME NEW id \in Conns,
             Multi(id) \/ Discard(id) \/ Exec(id) \/ \E cmd \in Requests : QueueCommand(id, cmd)
      PROVE  ConnInv' /\ AdmissionBound' /\ Reaching
  BY <1>4, MultiKeeps, NoneOpened
<1>5. ASSUME NEW id \in Conns, ExecStep(id)
      PROVE  ConnInv' /\ AdmissionBound' /\ Reaching
  <2>1. executing = id /\ id # Nobody
    BY <1>5, SessionAssumption DEF ExecStep
  <2>2. Head(queue) \in ConnCommand
    BY <2>1, HeadTailProperties DEF RunInv
  <2>3. Ran(id)
    BY <1>5, <2>2, RunCommandEffect DEF ExecStep
  <2> QED
    BY <1>5, <2>1, <2>3, RunKeeps, NoneOpened DEF ExecStep, RunInv
<1> QED
  BY <1>1, <1>2, <1>3, <1>4, <1>5 DEF Next

\* exec() and its queue come and go together.
LEMMA SessionStepRun ==
    ASSUME IInv, caller_db = NoInfo, Next, UNCHANGED caller_db
    PROVE  RunInv'
<1>1. ASSUME NEW id \in Conns, Exec(id) PROVE RunInv'
  <2>1. /\ phase[id] = "open" /\ phase' = phase
        /\ in_multi' = [in_multi EXCEPT ![id] = FALSE]
        /\ executing' = id /\ queue' = multi_queue[id] /\ multi_queue[id] # <<>>
    BY <1>1 DEF Exec, EndMulti, Ready
  <2>2. multi_queue[id] \in Seq(ConnCommand) /\ ~in_multi'[id]
    BY <2>1 DEF IInv, ConnInv, ConnTypeOK
  <2>3. id # Nobody /\ caller_db' = NoInfo
    BY SessionAssumption
  <2>4. executing' # Nobody /\ queue' \in Seq(ConnCommand) /\ queue' # <<>>
    BY <2>1, <2>2, <2>3
  <2>5. phase'[executing'] = "open" /\ ~in_multi'[executing'] /\ executing' \in Conns
    BY <2>1, <2>2
  <2> QED
    BY <2>3, <2>4, <2>5 DEF RunInv
<1>2. ASSUME NEW id \in Conns, ExecStep(id) PROVE RunInv'
  <2>1. executing = id /\ id # Nobody
    BY <1>2, SessionAssumption DEF ExecStep
  <2>2. Tail(queue) \in Seq(ConnCommand)
    BY <2>1, HeadTailProperties DEF IInv, RunInv
  <2> QED
    BY <1>2, <2>1, <2>2 DEF ExecStep, IInv, RunInv
<1>3. CASE executing = Nobody /\ UNCHANGED <<executing, queue>>
  BY <1>3 DEF IInv, RunInv
<1> QED
  BY <1>1, <1>2, <1>3 DEF Next, Connect, Close, Quit, IoError, Reset, Deliver, Subscribe, Unsubscribe,
      Execute, QueueCommand, Multi, Discard, EndMulti, Ready

-----------------------------------------------------------------------------
(* Scripts *)

LEMMA ScriptStep ==
    ASSUME IInv, NEW id \in Conns,
           \/ \E body \in Scripts : Eval(id, body) \/ EvalSha(id, body)
                                    \/ Script(id, scripts \cup {body})
           \/ Script(id, {})
           \/ Call(id) \/ Return(id)
    PROVE  IInv' /\ Reaching
<1>1. ASSUME NEW cache, Script(id, cache) PROVE IInv' /\ Reaching
  <2>1. UNCHANGED <<phase, registry, pubsub, resp3, db_index, authenticated, subscribed, in_multi,
                    multi_queue, inbox, executing, queue, caller_db>>
    BY <1>1 DEF Script, vars, connState
  <2>2. ConnInv' /\ Open' = Open
    BY <2>1 DEF IInv, ConnInv, ConnTypeOK, UnusedHoldsNothing, SubscriptionsAgree,
        UnauthenticatedHoldsNothing, NeverTrappedInMulti, SubscribeMode, DbMirrored, Open
  <2> QED
    BY <2>1, <2>2, NoneOpened, Quiet DEF IInv, RunInv
<1>2. ASSUME NEW body \in Scripts, Begin(id, body) PROVE IInv' /\ Reaching
  <2>1. /\ phase[id] = "open" /\ ~in_multi[id] /\ executing = Nobody
        /\ caller_db' = db_index[id] /\ executing' = id /\ queue' = body
        /\ UNCHANGED <<phase, registry, pubsub, resp3, db_index, authenticated, subscribed,
                       in_multi, multi_queue, inbox>>
    BY <1>2 DEF Begin, Ready, connState
  <2>2. ConnInv' /\ Open' = Open
    BY <2>1 DEF IInv, ConnInv, ConnTypeOK, UnusedHoldsNothing, SubscriptionsAgree,
        UnauthenticatedHoldsNothing, NeverTrappedInMulti, SubscribeMode, DbMirrored, Open
  <2>3. db_index[id] \in DbIds /\ db_index[id] # NoInfo
    BY ZeroIsDb DEF IInv, ConnInv, ConnTypeOK
  <2>4. body \in Seq(ConnCommand \cup [op : Blocked])
    BY ScriptingAssumption
  <2>5. RunInv'
    BY <2>1, <2>3, <2>4, SessionAssumption DEF RunInv
  <2> QED
    BY <2>1, <2>2, <2>5, NoneOpened, Quiet DEF IInv
<1>3. ASSUME Call(id) PROVE IInv' /\ Reaching
  <2>1. /\ caller_db # NoInfo /\ executing = id /\ queue # <<>> /\ id # Nobody
        /\ queue' = Tail(queue)
        /\ UNCHANGED <<phase, pubsub, subscribed, in_multi, multi_queue, executing, caller_db>>
    BY <1>3, SessionAssumption DEF Call
  <2>2. queue \in Seq(ConnCommand \cup [op : Blocked])
    BY <2>1 DEF IInv, RunInv
  <2>3. /\ Head(queue) \in ConnCommand \cup [op : Blocked]
        /\ Tail(queue) \in Seq(ConnCommand \cup [op : Blocked])
    BY <2>1, <2>2, HeadTailProperties
  <2>4. Ran(id)
    <3>1. CASE Head(queue).op \in Blocked
      BY <1>3, <3>1, Quiet DEF Call, Ran, IInv, ConnInv, ConnTypeOK
    <3>2. CASE Head(queue).op \notin Blocked
      <4>1. Head(queue) \in ConnCommand
        BY <2>3, <3>2
      <4> QED
        BY <1>3, <3>2, <4>1, RunCommandEffect DEF Call, IInv
    <3> QED BY <3>1, <3>2
  <2>5. ConnInv' /\ Open' = Open /\ Reaching
    BY <2>1, <2>4, RunKeeps DEF IInv, RunInv
  <2>6. RunInv'
    BY <2>1, <2>3 DEF IInv, RunInv
  <2> QED
    BY <2>5, <2>6, NoneOpened DEF IInv
<1>4. ASSUME Return(id) PROVE IInv' /\ Reaching
  <2>1. /\ caller_db # NoInfo /\ executing = id /\ id # Nobody
        /\ executing' = Nobody /\ queue' = <<>> /\ caller_db' = NoInfo
        /\ UNCHANGED <<phase, pubsub, resp3, authenticated, subscribed, in_multi, multi_queue, inbox>>
    BY <1>4, SessionAssumption DEF Return
  <2>2. caller_db \in DbIds /\ phase[id] = "open" /\ ~in_multi[id]
    BY <2>1 DEF IInv, RunInv
  <2>3. registry[id] = db_index[id]
    BY <2>2 DEF IInv, ConnInv, DbMirrored, Open
  <2>4. registry' = [registry EXCEPT ![id] = caller_db]
    BY <1>4, <2>3 DEF Return, IInv, ConnInv, ConnTypeOK
  <2>5. Ran(id)
    BY <1>4, <2>1, <2>2, <2>4, Quiet DEF Return, Ran, IInv, ConnInv, ConnTypeOK
  <2>6. ConnInv' /\ Open' = Open /\ Reaching
    BY <2>1, <2>2, <2>5, RunKeeps DEF IInv
  <2>7. RunInv'
    BY <2>1 DEF RunInv
  <2> QED
    BY <2>6, <2>7, NoneOpened DEF IInv
<1> QED
  BY <1>1, <1>2, <1>3, <1>4 DEF Eval, EvalSha

LEMMA StepKeeps ==
    ASSUME IInv, [ScriptingNext]_scriptingVars
    PROVE  IInv' /\ Reaching
<1>1. CASE caller_db = NoInfo /\ Next /\ UNCHANGED <<scripts, caller_db>>
  BY <1>1, SessionStep, SessionStepRun DEF IInv
<1>2. CASE UNCHANGED scriptingVars
  <2>1. UNCHANGED <<phase, registry, pubsub, resp3, db_index, authenticated, subscribed, in_multi,
                    multi_queue, inbox, executing, queue, caller_db>>
    BY <1>2 DEF scriptingVars, vars, connState
  <2>2. ConnInv' /\ Open' = Open
    BY <2>1 DEF IInv, ConnInv, ConnTypeOK, UnusedHoldsNothing, SubscriptionsAgree,
        UnauthenticatedHoldsNothing, NeverTrappedInMulti, SubscribeMode, DbMirrored, Open
  <2> QED
    BY <2>1, <2>2, NoneOpened, Quiet DEF IInv, RunInv
<1> QED
  BY <1>1, <1>2, ScriptStep DEF ScriptingNext

-----------------------------------------------------------------------------
(* Theorems *)

\* The state of every connection, of the registry, of the subscriber lists and
\* of the commands being run stays of its type, whatever the clients send.
THEOREM SessionTypeCorrect == ScriptingSpec => []TypeOK
<1>1. IInv => TypeOK
  BY TypeFromIInv
<1> QED
  BY InitIInv, StepKeeps, <1>1, PTL DEF ScriptingSpec

\* handle_subscribe, handle_unsubscribe, RESET and the loss of a connection keep
\* what an open connection believes it subscribes to equal to the subscriber
\* lists that PUBLISH walks.
THEOREM SubscriptionsAgreeHolds == ScriptingSpec => []SubscriptionsAgree
<1>1. IInv => SubscriptionsAgree
  BY DEF IInv, ConnInv
<1> QED
  BY InitIInv, StepKeeps, <1>1, PTL DEF ScriptingSpec

\* The gate on requirepass: a connection that has not authenticated, or has lost
\* it to RESET, is subscribed to nothing and has no transaction open, whatever
\* scripts and transactions of others run between its requests.
THEOREM UnauthenticatedHoldsNothingHolds == ScriptingSpec => []UnauthenticatedHoldsNothing
<1>1. IInv => UnauthenticatedHoldsNothing
  BY DEF IInv, ConnInv
<1> QED
  BY InitIInv, StepKeeps, <1>1, PTL DEF ScriptingSpec

\* The order of the gates in the dispatch leaves no connection both in MULTI and
\* in subscribe mode (RESP2 with a subscription), where the gate would refuse
\* EXEC and DISCARD; HELLO 2 inside MULTI, and from a script, included.
THEOREM NeverTrappedInMultiHolds == ScriptingSpec => []NeverTrappedInMulti
<1>1. IInv => NeverTrappedInMulti
  BY DEF IInv, ConnInv
<1> QED
  BY InitIInv, StepKeeps, <1>1, PTL DEF ScriptingSpec

\* SELECT, in a request, in a transaction or in a script, and the database a
\* script's end restores, reach the registry CLIENT LIST reads as well.
THEOREM DbMirroredHolds == ScriptingSpec => []DbMirrored
<1>1. IInv => DbMirrored
  BY DEF IInv, ConnInv
<1> QED
  BY InitIInv, StepKeeps, <1>1, PTL DEF ScriptingSpec

\* The accept loop counts the registry, which holds every connection being
\* served, so maxclients bounds the connections served at a time.
THEOREM AdmissionBoundHolds == ScriptingSpec => []AdmissionBound
<1>1. IInv => AdmissionBound
  BY DEF IInv
<1> QED
  BY InitIInv, StepKeeps, <1>1, PTL DEF ScriptingSpec

\* PUBLISH, sent alone, from exec() or from a script, reaches exactly the open
\* connections that believe they subscribe.
THEOREM PublishReachesSubscribersHolds == ScriptingSpec => PublishReachesSubscribers
<1> DEFINE Step == (\E id \in Open, t \in Topics : inbox'[id][t] > inbox[id][t]) =>
                       \E channel \in Channels : \A id \in Conns, t \in Topics :
                           inbox'[id][t] =
                               inbox[id][t] + IF Subscribes(id, t, channel) THEN 1 ELSE 0
<1>1. ASSUME IInv, [ScriptingNext]_scriptingVars PROVE [Step]_vars
  BY <1>1, StepKeeps DEF Reaching, Published
<1> QED
  BY InitIInv, StepKeeps, <1>1, PTL DEF ScriptingSpec, PublishReachesSubscribers

=============================================================================
