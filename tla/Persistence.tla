---------------------------- MODULE Persistence -----------------------------
(***************************************************************************)
(* Snapshots: rdb::save and rdb::load (src/src/rdb/mod.rs), load_dump and  *)
(* the exits of src/src/main.rs, SAVE, BGSAVE and SHUTDOWN of              *)
(* src/src/commands/admin.rs.                                              *)
(*                                                                         *)
(* Several server processes may be given the same path.  Each is a single  *)
(* thread that does nothing else while it saves or loads, but the file     *)
(* system calls of a save are steps of their own: a crash, or another      *)
(* process, may come between them, and each may fail.                      *)
(***************************************************************************)
EXTENDS FiniteSets

CONSTANTS
    Procs,      \* processes, by pid; a pid may come back after a crash
    Keys,       \* a keyspace is the set of its keys
    Foreign,    \* files that may be put at the path from outside
    Missing,    \* no file
    Torn        \* a file whose writing has not finished

\* A file is read whole ("none"), rejected before its first key ("early": bad
\* magic, version or checksum) or in the middle ("late": an opcode, encoding or
\* database number that meebis does not take).  A file of no bytes counts as
\* Missing in what follows: rdb::load treats it so.
Images == [body : SUBSET Keys, fault : {"none", "early", "late"}]

ASSUME PersistenceAssumption ==
    /\ Foreign \subseteq Images
    /\ Missing \notin Images \cup {Torn}
    /\ Torn \notin Images

VARIABLES
    file,      \* what the path holds
    tmp,       \* <path>.tmp-<pid>
    aside,     \* <path>.unreadable-<pid>
    memory,    \* the process' keyspace
    status,    \* where the process' thread is
    reason,    \* what a save is for
    exposed    \* history: the path may hold an unreadable file that the
               \* process could not put aside, or that came after its boot

vars == <<file, tmp, aside, memory, status, reason, exposed>>

Image(ks) == [body |-> ks, fault |-> "none"]

Init ==
    /\ file \in Foreign \cup {Missing}
    /\ tmp = [p \in Procs |-> Missing]
    /\ aside = [p \in Procs |-> Missing]
    /\ memory = [p \in Procs |-> {}]
    /\ status = [p \in Procs |-> "down"]
    /\ reason = [p \in Procs |-> "none"]
    /\ exposed = [p \in Procs |-> FALSE]

\* How a process is booted: with --dumpfile it serves and saves, with --seed it
\* serves what it loaded and has no file of its own.
Modes == {"serving", "seeded"}

\* The process ended by itself, or was killed.
Gone == {"down", "killed"}

Up == {p \in Procs : status[p] \notin Gone}

-----------------------------------------------------------------------------
(* Boot: load_dump.  With --dumpfile-strict a load that fails, or a seed that *)
(* is not there, ends the process before it has done anything.                *)

\* A load that succeeds, or finds nothing.
Load(p, mode) ==
    /\ status[p] \in Gone
    /\ file # Missing => file.fault = "none"
    /\ memory' = [memory EXCEPT ![p] = IF file = Missing THEN {} ELSE file.body]
    /\ status' = [status EXCEPT ![p] = mode]
    /\ exposed' = [exposed EXCEPT ![p] = FALSE]
    /\ UNCHANGED <<file, tmp, aside, reason>>

\* What may be in memory when a load fails: from_bytes puts keys as it meets
\* them and nothing takes them out again.  A file without fault fails when it
\* cannot be read at all.
Leftover(img) == IF img.fault = "late" THEN SUBSET img.body ELSE {{}}

\* Fault: the rejected file is left where the next save goes.
LoadFailsServing(p, mode) ==
    /\ status[p] \in Gone
    /\ file # Missing
    /\ memory' = [memory EXCEPT ![p] = {}]
    /\ status' = [status EXCEPT ![p] = mode]
    /\ exposed' = [exposed EXCEPT ![p] = FALSE]
    /\ UNCHANGED <<file, tmp, aside, reason>>

\* A load that fails.
LoadFails(p, mode) ==
    /\ status[p] \in Gone
    /\ file # Missing
    /\ \E ks \in Leftover(file) : memory' = [memory EXCEPT ![p] = ks]
    /\ status' = [status EXCEPT ![p] = IF mode = "serving" THEN "setting aside" ELSE mode]
    /\ exposed' = [exposed EXCEPT ![p] = (mode = "seeded")]
    /\ UNCHANGED <<file, tmp, aside, reason>>

\* set_aside: the rename may fail, and moves whatever is at the path by now.
SetAside(p) ==
    /\ status[p] = "setting aside"
    /\ status' = [status EXCEPT ![p] = "serving"]
    /\ \/ /\ file # Missing
          /\ aside' = [aside EXCEPT ![p] = file]
          /\ file' = Missing
          /\ exposed' = [exposed EXCEPT ![p] = FALSE]
       \/ /\ exposed' = [exposed EXCEPT ![p] = TRUE]
          /\ UNCHANGED <<file, aside>>
    /\ UNCHANGED <<tmp, memory, reason>>

-----------------------------------------------------------------------------
(* Serving and saving *)

\* Fault: clients are served while a save is going on.
WriteAnytime(p) ==
    /\ p \in Up
    /\ \E ks \in SUBSET Keys : memory' = [memory EXCEPT ![p] = ks]
    /\ UNCHANGED <<file, tmp, aside, status, reason, exposed>>

\* Clients change the keyspace.
Write(p) ==
    /\ status[p] \in Modes
    /\ \E ks \in SUBSET Keys : memory' = [memory EXCEPT ![p] = ks]
    /\ UNCHANGED <<file, tmp, aside, status, reason, exposed>>

\* Fault: a seed is saved to as well.
BeginSaveAlways(p, why) ==
    /\ status[p] \in Modes
    /\ status' = [status EXCEPT ![p] = "creating"]
    /\ reason' = [reason EXCEPT ![p] = why]
    /\ UNCHANGED <<file, tmp, aside, memory, exposed>>

\* SAVE or BGSAVE, SHUTDOWN, a signal, or the end of `run`'s command.  Without
\* a dump file save_dump does nothing, and the exits are immediate.
BeginSave(p, why) ==
    /\ status[p] = "serving"
    /\ status' = [status EXCEPT ![p] = "creating"]
    /\ reason' = [reason EXCEPT ![p] = why]
    /\ UNCHANGED <<file, tmp, aside, memory, exposed>>

ExitSeeded(p) ==
    /\ status[p] = "seeded"
    /\ status' = [status EXCEPT ![p] = "down"]
    /\ UNCHANGED <<file, tmp, aside, memory, reason, exposed>>

\* SHUTDOWN NOSAVE
ShutdownNoSave(p) ==
    /\ status[p] = "serving"
    /\ status' = [status EXCEPT ![p] = "down"]
    /\ UNCHANGED <<file, tmp, aside, memory, reason, exposed>>

\* Fault: the rename does not wait for the write.
CreateOnly(p) ==
    /\ status[p] = "creating"
    /\ tmp' = [tmp EXCEPT ![p] = Torn]
    /\ status' = [status EXCEPT ![p] = "renaming"]
    /\ UNCHANGED <<file, aside, memory, reason, exposed>>

\* File::create truncates a temp file an earlier process of this pid left.
Create(p) ==
    /\ status[p] = "creating"
    /\ tmp' = [tmp EXCEPT ![p] = Torn]
    /\ status' = [status EXCEPT ![p] = "writing"]
    /\ UNCHANGED <<file, aside, memory, reason, exposed>>

\* write_all and sync_all
WriteImage(p) ==
    /\ status[p] = "writing"
    /\ tmp' = [tmp EXCEPT ![p] = Image(memory[p])]
    /\ status' = [status EXCEPT ![p] = "renaming"]
    /\ UNCHANGED <<file, aside, memory, reason, exposed>>

\* Fault: SHUTDOWN exits although its save failed.
AfterSaveExiting(p, ok) ==
    /\ status' = [status EXCEPT ![p] = IF reason[p] = "save" THEN "serving" ELSE "down"]
    /\ reason' = [reason EXCEPT ![p] = "none"]

\* Fault: after a failed save a signal is forgotten.
AfterSaveStaying(p, ok) ==
    /\ status' = [status EXCEPT ![p] = IF reason[p] = "save" \/ ~ok THEN "serving" ELSE "down"]
    /\ reason' = [reason EXCEPT ![p] = "none"]

\* What the caller of save does next.  A SHUTDOWN whose save failed stays up.
AfterSave(p, ok) ==
    /\ status' = [status EXCEPT ![p] =
                    IF reason[p] = "save" \/ (reason[p] = "shutdown" /\ ~ok)
                    THEN "serving" ELSE "down"]
    /\ reason' = [reason EXCEPT ![p] = "none"]

Rename(p) ==
    /\ status[p] = "renaming"
    /\ file' = tmp[p]
    /\ tmp' = [tmp EXCEPT ![p] = Missing]
    /\ AfterSave(p, TRUE)
    /\ UNCHANGED <<aside, memory, exposed>>

\* A failed create or write leaves the temp file; a failed rename removes it.
SaveFails(p) ==
    /\ status[p] \in {"creating", "writing", "renaming"}
    /\ tmp' = IF status[p] = "renaming" THEN [tmp EXCEPT ![p] = Missing] ELSE tmp
    /\ AfterSave(p, FALSE)
    /\ UNCHANGED <<file, aside, memory, exposed>>

-----------------------------------------------------------------------------
(* The environment *)

\* kill -9, at any point.
Crash(p) ==
    /\ p \in Up
    /\ status' = [status EXCEPT ![p] = "killed"]
    /\ reason' = [reason EXCEPT ![p] = "none"]
    /\ UNCHANGED <<file, tmp, aside, memory, exposed>>

\* Somebody copies a dump to the path, or deletes the one there.
PlaceFile(img) ==
    /\ file' = img
    /\ exposed' = [p \in Procs |-> TRUE]
    /\ UNCHANGED <<tmp, aside, memory, status, reason>>

Next ==
    \/ \E p \in Procs :
        \/ \E mode \in Modes : Load(p, mode) \/ LoadFails(p, mode)
        \/ SetAside(p) \/ Write(p)
        \/ \E why \in {"save", "shutdown", "signal"} : BeginSave(p, why)
        \/ ExitSeeded(p) \/ ShutdownNoSave(p)
        \/ Create(p) \/ WriteImage(p) \/ Rename(p) \/ SaveFails(p)
        \/ Crash(p)
    \/ \E img \in Foreign \cup {Missing} : PlaceFile(img)

Spec == Init /\ [][Next]_vars

-----------------------------------------------------------------------------
(* Properties *)

Statuses == Gone \cup Modes \cup {"setting aside", "creating", "writing", "renaming"}

\* Shape of the state; in particular the path never holds a torn file, although
\* one is written and the process may die at any moment.
TypeOK ==
    /\ file \in Images \cup {Missing}
    /\ tmp \in [Procs -> Images \cup {Missing, Torn}]
    /\ aside \in [Procs -> Images \cup {Missing}]
    /\ memory \in [Procs -> SUBSET Keys]
    /\ status \in [Procs -> Statuses]
    /\ reason \in [Procs -> {"none", "save", "shutdown", "signal"}]
    /\ exposed \in [Procs -> BOOLEAN]

\* A temp file about to be renamed is the saving process' keyspace, whole and
\* as it is at that moment: rename follows a finished write of this very save.
RenamesWhole == \A p \in Procs : status[p] = "renaming" => tmp[p] = Image(memory[p])

\* The users of the path see an atomic snapshot store: however many processes
\* load, save, set aside and die between any two file system calls, the file
\* changes only as a whole.
Store == INSTANCE SnapshotStore WITH up <- Up

StoreSpec == Store!SnapshotSpec

Unreadable(img) == img # Missing /\ img.fault # "none"

\* The unreadable file that a load rejected is not there for the next save to
\* overwrite: a server at work finds one at its path only if set_aside failed,
\* it is a seed, or it came from outside after the boot.
EvidenceKept ==
    \A p \in Up : status[p] # "setting aside" /\ Unreadable(file) => exposed[p]

\* SHUTDOWN (without NOSAVE) ends the process only when the whole keyspace is
\* in the file.
ShutdownLosesNothing ==
    [][\A p \in Procs :
        reason[p] = "shutdown" /\ status'[p] = "down" => file' = Image(memory[p])]_vars

\* A process booted with --seed leaves the file, and everything beside it,
\* alone, whatever commands and signals it gets and however it ends.
SeedUntouched ==
    [][\A p \in Procs :
        /\ status[p] = "seeded" => status'[p] \in {"seeded"} \cup Gone
        /\ "seeded" \in {status[p], status'[p]} =>
            /\ UNCHANGED <<tmp[p], aside[p]>>
            /\ <<status[p], memory[p]>>' # <<status[p], memory[p]>> => UNCHANGED file]_vars

\* A process told to stop by a signal never serves again, whether or not its
\* save works.
SignalStops ==
    [][\A p \in Procs : reason[p] = "signal" =>
        reason'[p] = "signal" \/ status'[p] \in Gone]_vars

\* "starting with an empty keyspace": after a failed load nothing of the file
\* is in memory when the server comes up.
EmptyAfterRejection ==
    [][\A p \in Procs : (\E mode \in Modes : LoadFails(p, mode)) => memory'[p] = {}]_vars

=============================================================================
