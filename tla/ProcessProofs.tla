--------------------------- MODULE ProcessProofs ----------------------------
(***************************************************************************)
(* Servers with signals and wrapped commands, for any number of processes  *)
(* and of signals: they use the socket path as UnixSocket says, they leave *)
(* no command behind of their own accord, and which exits leave a socket.  *)
(***************************************************************************)
EXTENDS Process, TLAPS

-----------------------------------------------------------------------------
(* The socket path.  Overlapping starts displace a running server; nothing *)
(* else does, for any number of processes and whenever they are killed,    *)
(* give up or shut down.                                                   *)

\* One process at most is between its check and its bind.
OneStarts == \A p, q \in Procs : status[p] \in Binding /\ status[q] \in Binding => p = q

\* What makes NeverDisplaced inductive when starts do not overlap: from its bind
\* on a server has the path, and while a process is about to remove the file no
\* server stands behind it.
IInv ==
    /\ TypeOK
    /\ OneStarts
    /\ \A p \in Procs : status[p] \in {"starting", "serving"} => path = p
    /\ \A p, q \in Procs :
        ~(status[p] = "removing" /\ status[q] \in {"starting", "serving"})

\* Every step of bind(), of serve() and of the exits keeps the invariant.
LEMMA StepKeepsIInv ==
    ASSUME IInv, OneStarts', [Next]_vars
    PROVE  IInv'
<1> USE UnixSocketAssumption DEF IInv, TypeOK, OneStarts, Binding, Listening
<1>1. ASSUME NEW p \in Procs, Start(p) PROVE IInv'
  BY <1>1 DEF Start, Move
<1>2. ASSUME NEW p \in Procs, Check(p) PROVE IInv'
  BY <1>2 DEF Check, Move
<1>3. ASSUME NEW p \in Procs, Connect(p) PROVE IInv'
  BY <1>3 DEF Connect, Move, Live
<1>4. ASSUME NEW p \in Procs, Remove(p) PROVE IInv'
  BY <1>4 DEF Remove, Move
<1>5. ASSUME NEW p \in Procs, Bind(p) PROVE IInv'
  BY <1>5 DEF Bind, Move
<1>6. ASSUME NEW p \in Procs, Serve(p) \/ GiveUp(p) \/ Exit(p) \/ Crash(p) PROVE IInv'
  BY <1>6 DEF Serve, GiveUp, Exit, Crash, Move
<1>7. ASSUME NEW p \in Procs, Cleanup(p) PROVE IInv'
  BY <1>7 DEF Cleanup, Move
<1>8. CASE UNCHANGED vars
  BY <1>8 DEF vars
<1> QED
  BY <1>1, <1>2, <1>3, <1>4, <1>5, <1>6, <1>7, <1>8 DEF Next

\* Where bind() goes wrong: a behaviour in which a running server is displaced
\* has two processes inside bind() at the same time.
LEMMA DisplacedByOverlapOnly == Spec /\ []OneStarts => []NeverDisplaced
<1>1. Init => IInv
  BY UnixSocketAssumption DEF Init, IInv, TypeOK, OneStarts, Binding, Listening
<1>2. IInv /\ OneStarts' /\ [Next]_vars => IInv'
  BY StepKeepsIInv
<1>3. IInv => NeverDisplaced
  BY DEF IInv, NeverDisplaced
<1> QED
  BY <1>1, <1>2, <1>3, PTL DEF Spec

-----------------------------------------------------------------------------
(* Servers with signals and wrapped commands *)

\* What the boot, the signal handler and supervise() do to the socket path and
\* to the life of a process is what UnixSocket lets a process do.
LEMMA StepImplements ==
    ASSUME [ProcessNext]_allVars
    PROVE  [Next]_vars
<1>1. ASSUME NEW p \in Procs, Boot(p) \/ Ready(p) \/ FailToStart(p) PROVE Next
  BY <1>1 DEF Boot, Ready, FailToStart, Next
<1>2. ASSUME NEW p \in Procs, BindStep(p) PROVE Next
  BY <1>2 DEF BindStep, Next
<1>3. ASSUME NEW p \in Procs, Listen(p) PROVE UNCHANGED vars
  BY <1>3 DEF Listen, vars
<1>4. ASSUME NEW p \in Procs, NEW s \in Stops, Signal(p, s) PROVE Next \/ UNCHANGED vars
  BY <1>4 DEF Signal, Next
<1>5. ASSUME NEW p \in Procs, NEW s \in Stops, Forward(p, s) PROVE UNCHANGED vars
  BY <1>5 DEF Forward
<1>6. ASSUME NEW p \in Procs, ChildEnds(p) \/ ChildKilled(p) PROVE UNCHANGED vars
  BY <1>6 DEF ChildEnds, ChildKilled
<1>7. ASSUME NEW p \in Procs, SignalExit(p) \/ Reap(p) \/ Shutdown(p) PROVE Next
  BY <1>7 DEF SignalExit, Reap, Shutdown, Next
<1>8. ASSUME NEW p \in Procs, Leave(p) \/ KillProcess(p) PROVE Next
  BY <1>8 DEF Leave, KillProcess, Next
<1>9. CASE UNCHANGED allVars
  BY <1>9 DEF allVars
<1> QED
  BY <1>1, <1>2, <1>3, <1>4, <1>5, <1>6, <1>7, <1>8, <1>9 DEF ProcessNext

\* Processes with signals and commands implement UnixSocket: no signal and no end
\* of a command does to the path what bind(), cleanup and exits do not.
THEOREM ProcessImplementsUnixSocket == ProcessSpec => Spec
<1>1. ProcessInit => Init
  BY DEF ProcessInit
<1>2. [ProcessNext]_allVars => [Next]_vars
  BY StepImplements
<1> QED
  BY <1>1, <1>2, PTL DEF ProcessSpec, Spec

-----------------------------------------------------------------------------

\* Shape of what a process knows of its signals and of its command.
ProcessTypeOK ==
    /\ TypeOK
    /\ mode \in [Procs -> {"serve", "run"}]
    /\ child \in [Procs -> {"none", "running", "ended"}]
    /\ hears \in [Procs -> BOOLEAN]
    /\ pending \in [Procs -> SUBSET Stops]
    /\ escalate \in [Procs -> BOOLEAN]
    /\ killed \in [Procs -> BOOLEAN]
    /\ ended \in [Procs -> {"no", "failed", "deaf", "signal", "command", "shutdown", "killed"}]
    /\ sent \in [Procs -> Nat]

\* There is a command only under `run`, and only once the server is up.
CommandWhenUp ==
    \A p \in Procs : child[p] # "none" =>
        mode[p] = "run" /\ status[p] \in {"serving", "leaving", "down", "killed"}

\* A process has an end to report only when it is on its way out.
EndedWhenGone ==
    \A p \in Procs : ended[p] # "no" => status[p] \in {"leaving", "down", "killed"}

\* A signal that is pending has been sent, two that are pending are two, and one
\* that was forwarded is none of those still pending.
SignalsCounted ==
    \A p \in Procs :
        /\ pending[p] # {} \/ escalate[p] => sent[p] >= 1
        /\ Stops \subseteq pending[p] => sent[p] >= 2
        /\ escalate[p] /\ pending[p] # {} => sent[p] >= 2

\* A socket is bound by a process that is up, and gone once cleanup has run: one
\* that is there although its process has ended was left by a kill, by a signal
\* before the handlers, or by a start that failed after the bind.
LeftoversExplained ==
    \A p \in Procs :
        /\ path = p /\ status[p] \in {"down", "killed"} =>
              ended[p] \in {"failed", "deaf", "killed"}
        /\ status[p] \in {"binding", "leaving"} => path # p

ProcessIInv ==
    /\ ProcessTypeOK
    /\ CommandWhenUp /\ EndedWhenGone /\ SignalsCounted
    /\ NobodyStranded /\ LeftoversExplained

LEMMA ProcessInitIInv == ProcessInit => ProcessIInv
BY UnixSocketAssumption
   DEF ProcessInit, Init, ProcessIInv, ProcessTypeOK, TypeOK, Binding, Listening, CommandWhenUp,
       EndedWhenGone, SignalsCounted, NobodyStranded, LeftoversExplained, Stops


\* Every step of every process keeps the invariant; what the others know is not
\* touched, and a socket is only ever named by the process that binds it.
LEMMA ProcessStepIInv ==
    ASSUME ProcessIInv, [ProcessNext]_allVars
    PROVE  ProcessIInv'
<1> USE UnixSocketAssumption
    DEF ProcessIInv, ProcessTypeOK, TypeOK, Binding, Listening, CommandWhenUp, EndedWhenGone,
        SignalsCounted, NobodyStranded, LeftoversExplained, Stops
<1>1. ASSUME NEW p \in Procs, Boot(p) PROVE ProcessIInv'
  BY <1>1 DEF Boot, Start, Move
<1>2. ASSUME NEW p \in Procs, BindStep(p) PROVE ProcessIInv'
  BY <1>2 DEF BindStep, runner, Check, Connect, Remove, Bind, Live, Move
<1>3. ASSUME NEW p \in Procs, Ready(p) PROVE ProcessIInv'
  BY <1>3 DEF Ready, Serve, Move
<1>4. ASSUME NEW p \in Procs, FailToStart(p) PROVE ProcessIInv'
  BY <1>4 DEF FailToStart, GiveUp, Move
<1>5. ASSUME NEW p \in Procs, Listen(p) PROVE ProcessIInv'
  BY <1>5 DEF Listen, vars
<1>6. ASSUME NEW p \in Procs, NEW s \in Stops, Signal(p, s) PROVE ProcessIInv'
  BY <1>6 DEF Signal, Crash, Move, vars
<1>7. ASSUME NEW p \in Procs, NEW s \in Stops, Forward(p, s) PROVE ProcessIInv'
  <2>1. pending[p] \in SUBSET Stops /\ s \in pending[p]
    BY <1>7 DEF Forward
  <2>2. pending' = [pending EXCEPT ![p] = Unreceived(p, s)]
    BY <1>7 DEF Forward
  <2>3. Unreceived(p, s) \in SUBSET Stops /\ ~(Stops \subseteq Unreceived(p, s))
    BY <2>1 DEF Unreceived
  <2>4. Unreceived(p, s) # {} => Stops \subseteq pending[p]
    BY <2>1 DEF Unreceived
  <2>5. ProcessTypeOK'
    <3>1. pending' \in [Procs -> SUBSET Stops]
      BY <2>2, <2>3
    <3>2. escalate' \in [Procs -> BOOLEAN] /\ killed' \in [Procs -> BOOLEAN]
      BY <1>7 DEF Forward, stop
    <3> QED
      BY <1>7, <3>1, <3>2 DEF Forward, vars
  <2>6. SignalsCounted'
    BY <1>7, <2>1, <2>2, <2>3, <2>4 DEF Forward, stop
  <2>7. NobodyStranded'
    BY <1>7, <2>1 DEF Forward, stop, vars
  <2> QED
    BY <1>7, <2>5, <2>6, <2>7 DEF Forward, vars
<1>8. ASSUME NEW p \in Procs, SignalExit(p) PROVE ProcessIInv'
  BY <1>8 DEF SignalExit, Cleanup, Move
<1>9. ASSUME NEW p \in Procs, ChildEnds(p) \/ ChildKilled(p) PROVE ProcessIInv'
  BY <1>9 DEF ChildEnds, ChildKilled, vars
<1>10. ASSUME NEW p \in Procs, Reap(p) \/ Shutdown(p) PROVE ProcessIInv'
  BY <1>10 DEF Reap, Supervising, Shutdown, Cleanup, Move
<1>11. ASSUME NEW p \in Procs, Leave(p) \/ KillProcess(p) PROVE ProcessIInv'
  BY <1>11 DEF Leave, Exit, KillProcess, Crash, runner, Move
<1>12. CASE UNCHANGED allVars
  BY <1>12 DEF allVars, runner, vars
<1> QED
  BY <1>1, <1>2, <1>3, <1>4, <1>5, <1>6, <1>7, <1>8, <1>9, <1>10, <1>11, <1>12
  DEF ProcessNext

\* "exiting out from under it would strand it" (runner.rs): signals in any number
\* and order never end a `run` process with handlers before its command, and a
\* command is killed only after it has been asked.
THEOREM NobodyStrandedHolds == ProcessSpec => []NobodyStranded
<1>1. ProcessIInv => NobodyStranded
  BY DEF ProcessIInv
<1> QED
  BY ProcessInitIInv, ProcessStepIInv, <1>1, PTL DEF ProcessSpec

\* The socket that outlives its process: kill -9, a signal that meets no handler
\* and a failed start leave one; a handled signal, the end of the command and
\* SHUTDOWN do not, however starts, exits and restarts of the others interleave.
THEOREM LeftoversExplainedHolds == ProcessSpec => []LeftoversExplained
<1>1. ProcessIInv => LeftoversExplained
  BY DEF ProcessIInv
<1> QED
  BY ProcessInitIInv, ProcessStepIInv, <1>1, PTL DEF ProcessSpec

=============================================================================
