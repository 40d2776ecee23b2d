----------------------------- MODULE Scripting ------------------------------
(***************************************************************************)
(* EVAL, EVALSHA and SCRIPT of src/src/commands/scripting/mod.rs, and what *)
(* they do to the connection that runs them.  A script runs with the       *)
(* keyspace locked and without an await, so nobody else takes a step until *)
(* it ends; its redis.call and redis.pcall go straight to execute_locked,  *)
(* past the gates of handle().                                             *)
(*                                                                         *)
(* A script is the sequence of its calls.  It may end after any of them:   *)
(* redis.call raises on an error, redis.pcall does not, and Lua code may   *)
(* do either.  What the Lua libraries compute is left out.                 *)
(***************************************************************************)
EXTENDS Session

CONSTANT Scripts   \* the scripts clients run

\* is_blocked: the calls a script may not make.
Blocked == {"EVAL", "SCRIPT", "MULTI", "EXEC", "SUBSCRIBE"}

ASSUME ScriptingAssumption == Scripts \subseteq Seq(ConnCommand \cup [op : Blocked])

VARIABLES
    scripts,     \* Shared.scripts: the cache, by SHA
    caller_db    \* run_script's local, NoInfo when no script runs

scriptingVars == <<vars, scripts, caller_db>>

ScriptingInit == Init /\ scripts = {} /\ caller_db = NoInfo

\* SCRIPT LOAD and FLUSH, which touch only the cache.
Script(id, cache) ==
    /\ Ready(id) /\ Authorised(id) /\ ~SubscribeMode(id) /\ ~in_multi[id]
    /\ scripts' = cache
    /\ UNCHANGED <<vars, caller_db>>

\* run_script from its start.
Begin(id, body) ==
    /\ Ready(id) /\ Authorised(id) /\ ~SubscribeMode(id) /\ ~in_multi[id]
    /\ caller_db' = db_index[id]
    /\ executing' = id
    /\ queue' = body
    /\ UNCHANGED <<phase, registry, pubsub, connState, inbox>>

\* EVAL caches the body before it is compiled or run.
Eval(id, body) ==
    /\ Begin(id, body)
    /\ scripts' = scripts \cup {body}

\* EVALSHA: NOSCRIPT, and nothing else, when the cache does not hold it.
EvalSha(id, body) ==
    /\ body \in scripts
    /\ Begin(id, body)
    /\ UNCHANGED scripts

\* One redis.call or redis.pcall; a blocked command raises and does nothing.
Call(id) ==
    /\ caller_db # NoInfo
    /\ executing = id /\ queue # <<>>
    /\ IF Head(queue).op \in Blocked
       THEN UNCHANGED <<registry, resp3, db_index, authenticated, inbox>>
       ELSE RunCommand(id, Head(queue))
    /\ queue' = Tail(queue)
    /\ UNCHANGED <<phase, pubsub, subscribed, in_multi, multi_queue, executing, scripts, caller_db>>

\* Fault: the connection is put back and the registry is not told.
ReturnUnsynced(id) ==
    /\ caller_db # NoInfo
    /\ executing = id
    /\ db_index' = [db_index EXCEPT ![id] = caller_db]
    /\ executing' = Nobody /\ queue' = <<>> /\ caller_db' = NoInfo
    /\ UNCHANGED <<phase, registry, pubsub, resp3, authenticated, subscribed, in_multi,
                   multi_queue, inbox, scripts>>

\* The script returns, raises, or does not compile: a SELECT it made is undone.
Return(id) ==
    /\ caller_db # NoInfo
    /\ executing = id
    /\ db_index' = [db_index EXCEPT ![id] = caller_db]
    /\ registry' = IF db_index[id] # caller_db THEN [registry EXCEPT ![id] = caller_db] ELSE registry
    /\ executing' = Nobody /\ queue' = <<>> /\ caller_db' = NoInfo
    /\ UNCHANGED <<phase, pubsub, resp3, authenticated, subscribed, in_multi, multi_queue,
                   inbox, scripts>>

ScriptingNext ==
    \/ caller_db = NoInfo /\ Next /\ UNCHANGED <<scripts, caller_db>>
    \/ \E id \in Conns :
        \/ \E body \in Scripts : Eval(id, body) \/ EvalSha(id, body) \/ Script(id, scripts \cup {body})
        \/ Script(id, {})
        \/ Call(id) \/ Return(id)

ScriptingSpec == ScriptingInit /\ [][ScriptingNext]_scriptingVars

=============================================================================
