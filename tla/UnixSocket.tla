----------------------------- MODULE UnixSocket -----------------------------
(***************************************************************************)
(* Servers given the same --unixsocket path: bind and cleanup of           *)
(* src/src/unixsocket.rs, the boot and the exits of src/src/main.rs.       *)
(*                                                                         *)
(* bind() is a run of file system calls, and other processes act between   *)
(* any two of them.  A socket file is known by the process that made it;   *)
(* it is live while that process listens on it, and a leftover afterwards. *)
(***************************************************************************)
CONSTANTS
    Procs,     \* server processes
    Missing,   \* nothing at the path
    Regular    \* something at the path that is not a socket

ASSUME UnixSocketAssumption ==
    /\ Missing \notin Procs /\ Regular \notin Procs
    /\ Missing # Regular

VARIABLES
    path,      \* what is there: a socket is named by its maker
    status     \* how far each process is

vars == <<path, status>>

Init ==
    /\ path \in {Missing, Regular}
    /\ status = [p \in Procs |-> "down"]

Move(p, s) == status' = [status EXCEPT ![p] = s]

Binding == {"checking", "connecting", "removing", "binding"}

\* From the moment bind() returns, connections are taken into the backlog.
Listening == {"starting", "serving", "leaving"}

Live(x) == x \in Procs /\ status[x] \in Listening

-----------------------------------------------------------------------------
(* bind() *)

Start(p) ==
    /\ status[p] \in {"down", "killed"}
    /\ Move(p, "checking")
    /\ UNCHANGED path

\* metadata()
Check(p) ==
    /\ status[p] = "checking"
    /\ Move(p, CASE path = Missing -> "binding"
                 [] path = Regular -> "down"
                 [] OTHER -> "connecting")
    /\ UNCHANGED path

\* UnixStream::connect: any failure means stale, a path gone by now included.
Connect(p) ==
    /\ status[p] = "connecting"
    /\ Move(p, IF Live(path) THEN "down" ELSE "removing")
    /\ UNCHANGED path

\* remove_file()?
Remove(p) ==
    /\ status[p] = "removing"
    /\ Move(p, IF path = Missing THEN "down" ELSE "binding")
    /\ path' = Missing

\* UnixListener::bind fails on a path that is taken.
Bind(p) ==
    /\ status[p] = "binding"
    /\ IF path = Missing
       THEN Move(p, "starting") /\ path' = p
       ELSE Move(p, "down") /\ UNCHANGED path

-----------------------------------------------------------------------------
(* serve() after the bind, and the exits *)

\* The snapshot is loaded and, under `run`, the command spawned.
Serve(p) ==
    /\ status[p] = "starting"
    /\ Move(p, "serving")
    /\ UNCHANGED path

\* A strict load that fails, or a command that cannot be spawned: exit at once.
GiveUp(p) ==
    /\ status[p] = "starting"
    /\ Move(p, "down")
    /\ UNCHANGED path

\* SHUTDOWN, a signal or the end of the command: whatever is at the path goes.
Cleanup(p) ==
    /\ status[p] = "serving"
    /\ Move(p, "leaving")
    /\ path' = Missing

Exit(p) ==
    /\ status[p] = "leaving"
    /\ Move(p, "down")
    /\ UNCHANGED path

\* kill -9, at any point.
Crash(p) ==
    /\ status[p] \notin {"down", "killed"}
    /\ Move(p, "killed")
    /\ UNCHANGED path

Next ==
    \E p \in Procs :
        \/ Start(p) \/ Check(p) \/ Connect(p) \/ Remove(p) \/ Bind(p)
        \/ Serve(p) \/ GiveUp(p) \/ Cleanup(p) \/ Exit(p) \/ Crash(p)

Spec == Init /\ [][Next]_vars

-----------------------------------------------------------------------------
(* Properties *)

\* Shape of the state.
TypeOK ==
    /\ path \in Procs \cup {Missing, Regular}
    /\ status \in [Procs -> Binding \cup Listening \cup {"down", "killed"}]

\* "a second server can never displace a running one": a server that is up is
\* the one its path leads to.
NeverDisplaced == \A p \in Procs : status[p] = "serving" => path = p

=============================================================================
