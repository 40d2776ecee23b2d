------------------------------ MODULE Process -------------------------------
(***************************************************************************)
(* The life of server processes on one socket path: serve() of             *)
(* src/src/main.rs with its signal handler, and `meebis run`, whose server *)
(* lives as long as the command it wraps (src/src/runner.rs).  The socket  *)
(* file is UnixSocket's; saving is Persistence's and takes no step here.   *)
(***************************************************************************)
EXTENDS UnixSocket, Integers

CONSTANT
    MaxSignals   \* bound on the signals sent to a process

ASSUME ProcessAssumption == MaxSignals \in Nat

Stops == {"INT", "TERM"}

VARIABLES
    mode,       \* "serve", or "run" for `meebis run`
    child,      \* the wrapped command: "none", "running" or "ended"
    hears,      \* signal handlers are installed
    pending,    \* signals tokio has for the process and nobody has received
    escalate,   \* the local of supervise(): the command has been asked
    killed,     \* the command has been sent SIGKILL
    ended,      \* why the process went, or is going
    sent        \* signals sent to it so far

runner == <<mode, child, hears, pending, escalate, killed, ended, sent>>

allVars == <<vars, runner>>

ProcessInit ==
    /\ Init
    /\ mode = [p \in Procs |-> "serve"]
    /\ child = [p \in Procs |-> "none"]
    /\ hears = [p \in Procs |-> FALSE]
    /\ pending = [p \in Procs |-> {}]
    /\ escalate = [p \in Procs |-> FALSE]
    /\ killed = [p \in Procs |-> FALSE]
    /\ ended = [p \in Procs |-> "no"]
    /\ sent = [p \in Procs |-> 0]

-----------------------------------------------------------------------------
(* Boot *)

\* A new process under the name p: nothing is left of the one before.
Boot(p) ==
    /\ Start(p)
    /\ \E m \in {"serve", "run"} : mode' = [mode EXCEPT ![p] = m]
    /\ child' = [child EXCEPT ![p] = "none"]
    /\ hears' = [hears EXCEPT ![p] = FALSE]
    /\ pending' = [pending EXCEPT ![p] = {}]
    /\ escalate' = [escalate EXCEPT ![p] = FALSE]
    /\ killed' = [killed EXCEPT ![p] = FALSE]
    /\ ended' = [ended EXCEPT ![p] = "no"]
    /\ sent' = [sent EXCEPT ![p] = 0]

BindStep(p) ==
    /\ Check(p) \/ Connect(p) \/ Remove(p) \/ Bind(p)
    /\ UNCHANGED runner

\* spawn_signal_handler, or runner::spawn: the port is bound and the snapshot
\* loaded before either.
Ready(p) ==
    /\ Serve(p)
    /\ child' = [child EXCEPT ![p] = IF mode[p] = "run" THEN "running" ELSE "none"]
    /\ UNCHANGED <<mode, hears, pending, escalate, killed, ended, sent>>

\* A strict load fails, or the command cannot be spawned: exit without cleanup.
FailToStart(p) ==
    /\ GiveUp(p)
    /\ ended' = [ended EXCEPT ![p] = "failed"]
    /\ UNCHANGED <<mode, child, hears, pending, escalate, killed, sent>>

\* signal() and ctrl_c() install their handlers when the task that waits for
\* them is polled first, under `run` after the command has been spawned.
Listen(p) ==
    /\ status[p] = "serving" /\ ~hears[p]
    /\ hears' = [hears EXCEPT ![p] = TRUE]
    /\ UNCHANGED <<vars, mode, child, pending, escalate, killed, ended, sent>>

-----------------------------------------------------------------------------
(* Signals *)

\* Someone sends SIGINT or SIGTERM.  Before the handlers are there it ends the
\* process; afterwards a signal that is pending already is not counted twice.
Signal(p, s) ==
    /\ status[p] \notin {"down", "killed"}
    /\ sent[p] < MaxSignals
    /\ sent' = [sent EXCEPT ![p] = @ + 1]
    /\ IF hears[p]
       THEN /\ pending' = [pending EXCEPT ![p] = @ \cup {s}]
            /\ UNCHANGED <<vars, ended>>
       ELSE /\ Crash(p)
            /\ ended' = [ended EXCEPT ![p] = "deaf"]
            /\ UNCHANGED pending
    /\ UNCHANGED <<mode, child, hears, escalate, killed>>

\* save_and_exit
SignalExit(p) ==
    /\ mode[p] = "serve" /\ hears[p] /\ pending[p] # {}
    /\ Cleanup(p)
    /\ ended' = [ended EXCEPT ![p] = "signal"]
    /\ UNCHANGED <<mode, child, hears, pending, escalate, killed, sent>>

\* What is left after a branch of the select! in supervise(): ctrl_c() is made
\* anew on every turn, so a SIGINT that lost to a SIGTERM is gone with the old
\* one; the SIGTERM stream outlives the turn.
Unreceived(p, s) == IF s = "TERM" THEN {} ELSE pending[p] \ {s}

\* Fault: a further signal only asks again.
stop_asking(p, s) ==
    /\ escalate' = [escalate EXCEPT ![p] = TRUE]
    /\ UNCHANGED killed

\* Ask the command to stop, then insist.  The command is alive or unreaped, so
\* the signal reaches it or nobody; what it does about it is its own business.
stop(p, s) ==
    IF escalate[p]
    THEN /\ killed' = [killed EXCEPT ![p] = TRUE]
         /\ UNCHANGED escalate
    ELSE /\ escalate' = [escalate EXCEPT ![p] = TRUE]
         /\ UNCHANGED killed

Supervising(p) == mode[p] = "run" /\ status[p] = "serving" /\ hears[p]

Forward(p, s) ==
    /\ Supervising(p)
    /\ s \in pending[p]
    /\ stop(p, s)
    /\ pending' = [pending EXCEPT ![p] = Unreceived(p, s)]
    /\ UNCHANGED <<vars, mode, child, hears, ended, sent>>

-----------------------------------------------------------------------------
(* The command, and the ends of the process *)

\* The command ends by itself, or of a signal from us, the terminal or anyone.
ChildEnds(p) ==
    /\ child[p] = "running"
    /\ child' = [child EXCEPT ![p] = "ended"]
    /\ UNCHANGED <<vars, mode, hears, pending, escalate, killed, ended, sent>>

\* SIGKILL cannot be ignored.
ChildKilled(p) ==
    /\ child[p] = "running" /\ killed[p]
    /\ child' = [child EXCEPT ![p] = "ended"]
    /\ UNCHANGED <<vars, mode, hears, pending, escalate, killed, ended, sent>>

\* Fault: the first stop signal ends the wait.
ReapEarly(p) ==
    /\ Supervising(p)
    /\ child[p] = "ended" \/ escalate[p]
    /\ Cleanup(p)
    /\ ended' = [ended EXCEPT ![p] = "command"]
    /\ UNCHANGED <<mode, child, hears, pending, escalate, killed, sent>>

\* child.wait() returns: save, cleanup, exit.
Reap(p) ==
    /\ Supervising(p)
    /\ child[p] = "ended"
    /\ Cleanup(p)
    /\ ended' = [ended EXCEPT ![p] = "command"]
    /\ UNCHANGED <<mode, child, hears, pending, escalate, killed, sent>>

\* A client's SHUTDOWN, the wrapped command's or another's: the process goes at
\* once, also from under its command.
Shutdown(p) ==
    /\ Cleanup(p)
    /\ ended' = [ended EXCEPT ![p] = "shutdown"]
    /\ UNCHANGED <<mode, child, hears, pending, escalate, killed, sent>>

Leave(p) ==
    /\ Exit(p)
    /\ UNCHANGED runner

\* kill -9
KillProcess(p) ==
    /\ Crash(p)
    /\ ended' = [ended EXCEPT ![p] = "killed"]
    /\ UNCHANGED <<mode, child, hears, pending, escalate, killed, sent>>

ProcessNext ==
    \E p \in Procs :
        \/ Boot(p) \/ BindStep(p) \/ Ready(p) \/ FailToStart(p) \/ Listen(p)
        \/ \E s \in Stops : Signal(p, s) \/ Forward(p, s)
        \/ SignalExit(p) \/ ChildEnds(p) \/ ChildKilled(p) \/ Reap(p)
        \/ Shutdown(p) \/ Leave(p) \/ KillProcess(p)

\* The runtime polls a task whose future is ready, select! picks its branches at
\* random, a killed command dies and exit() returns.  A command need not end.
Fairness ==
    \A p \in Procs :
        /\ WF_allVars(\E s \in Stops : Forward(p, s))
        /\ WF_allVars(SignalExit(p))
        /\ WF_allVars(ChildKilled(p))
        /\ WF_allVars(Reap(p))

ProcessSpec == ProcessInit /\ [][ProcessNext]_allVars /\ Fairness

-----------------------------------------------------------------------------
(* Properties *)

\* "exiting out from under it would strand it": whatever signals come, and in
\* whatever order with the end of the command, a `run` process that has its
\* handlers goes only once the command has ended; SHUTDOWN and kill -9 aside.
\* A process whose command was killed had asked it to stop before.
NobodyStranded ==
    \A p \in Procs :
        /\ status[p] \in {"leaving", "down", "killed"} /\ child[p] = "running"
              => ended[p] \in {"shutdown", "killed", "deaf"}
        /\ killed[p] => escalate[p] /\ sent[p] >= 2

\* "A second signal stops asking nicely": a signal that comes after one has been
\* forwarded ends the process, also when the command ignores all it is sent; and
\* one signal ends a server that wraps no command.
TwoSignalsEnd ==
    \A p \in Procs :
        (mode[p] = "serve" \/ escalate[p]) /\ status[p] = "serving" /\ pending[p] # {}
            ~> status[p] # "serving"

\* "Every path that ends the process deliberately calls this", the cleanup: a
\* process that has ended, or is ending, by its own code leaves no socket behind.
SocketGone ==
    \A p \in Procs : ended[p] \in {"signal", "command", "shutdown", "failed"} => path # p

=============================================================================
