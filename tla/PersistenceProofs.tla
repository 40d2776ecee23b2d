------------------------- MODULE PersistenceProofs --------------------------
(***************************************************************************)
(* The snapshot protocol is proved for any number of processes and keys:   *)
(* its invariants, and that it implements the atomic store of              *)
(* SnapshotStore.                                                          *)
(***************************************************************************)
EXTENDS Persistence, TLAPS

\* The invariants together are inductive: a rename is safe because of
\* RenamesWhole, and what it leaves at the path is readable.
IInv == TypeOK /\ RenamesWhole /\ EvidenceKept

LEMMA ImageType ==
    ASSUME NEW ks \in SUBSET Keys
    PROVE  /\ Image(ks) \in Images
           /\ Image(ks) # Missing
           /\ ~Unreadable(Image(ks))
BY PersistenceAssumption DEF Image, Images, Unreadable

LEMMA ForeignType == \A img \in Foreign \cup {Missing} : img \in Images \cup {Missing}
BY PersistenceAssumption

LEMMA InitIInv == Init => IInv
BY ForeignType DEF Init, IInv, TypeOK, RenamesWhole, EvidenceKept, Statuses, Gone, Modes, Up

-----------------------------------------------------------------------------

\* Every file system call of every process, its failure, a crash and an outside
\* hand keep the invariants.
LEMMA StepKeepsIInv ==
    ASSUME IInv, [Next]_vars
    PROVE  IInv'
<1> USE DEF IInv, TypeOK, Statuses, Gone, Modes
<1>1. ASSUME NEW p \in Procs, NEW mode \in Modes, Load(p, mode) PROVE IInv'
  <2>1. file # Missing => file.body \in SUBSET Keys
    BY <1>1 DEF Images
  <2>2. TypeOK' /\ RenamesWhole'
    BY <1>1, <2>1 DEF Load, RenamesWhole
  <2>3. EvidenceKept'
    BY <1>1 DEF Load, EvidenceKept, Up, Unreadable
  <2> QED BY <2>2, <2>3
<1>2. ASSUME NEW p \in Procs, NEW mode \in Modes, LoadFails(p, mode) PROVE IInv'
  <2>1. \A ks \in Leftover(file) : ks \in SUBSET Keys
    BY <1>2 DEF LoadFails, Leftover, Images
  <2>2. TypeOK' /\ RenamesWhole'
    BY <1>2, <2>1 DEF LoadFails, RenamesWhole
  <2>3. EvidenceKept'
    BY <1>2 DEF LoadFails, EvidenceKept, Up, Unreadable
  <2> QED BY <2>2, <2>3
<1>3. ASSUME NEW p \in Procs, SetAside(p) PROVE IInv'
  <2>1. TypeOK' /\ RenamesWhole'
    BY <1>3 DEF SetAside, RenamesWhole
  <2>2. EvidenceKept'
    BY <1>3 DEF SetAside, EvidenceKept, Up, Unreadable
  <2> QED BY <2>1, <2>2
<1>4. ASSUME NEW p \in Procs, Write(p) PROVE IInv'
  <2>1. TypeOK' /\ RenamesWhole'
    BY <1>4 DEF Write, RenamesWhole
  <2>2. EvidenceKept'
    BY <1>4 DEF Write, EvidenceKept, Up
  <2> QED BY <2>1, <2>2
<1>5. ASSUME NEW p \in Procs, NEW why \in {"save", "shutdown", "signal"}, BeginSave(p, why)
      PROVE  IInv'
  <2>1. TypeOK' /\ RenamesWhole'
    BY <1>5 DEF BeginSave, RenamesWhole
  <2>2. EvidenceKept'
    BY <1>5 DEF BeginSave, EvidenceKept, Up
  <2> QED BY <2>1, <2>2
<1>6. ASSUME NEW p \in Procs, ExitSeeded(p) \/ ShutdownNoSave(p) \/ Crash(p) PROVE IInv'
  <2>1. TypeOK' /\ RenamesWhole'
    BY <1>6 DEF ExitSeeded, ShutdownNoSave, Crash, RenamesWhole
  <2>2. EvidenceKept'
    BY <1>6 DEF ExitSeeded, ShutdownNoSave, Crash, EvidenceKept, Up
  <2> QED BY <2>1, <2>2
<1>7. ASSUME NEW p \in Procs, Create(p) \/ WriteImage(p) PROVE IInv'
  <2>1. Image(memory[p]) \in Images
    BY ImageType
  <2>2. TypeOK' /\ RenamesWhole'
    BY <1>7, <2>1 DEF Create, WriteImage, RenamesWhole
  <2>3. EvidenceKept'
    BY <1>7 DEF Create, WriteImage, EvidenceKept, Up
  <2> QED BY <2>2, <2>3
<1>8. ASSUME NEW p \in Procs, Rename(p) PROVE IInv'
  <2>1. file' = Image(memory[p]) /\ file' \in Images /\ ~Unreadable(file')
    BY <1>8, ImageType DEF Rename, RenamesWhole
  <2>2. TypeOK' /\ RenamesWhole'
    BY <1>8, <2>1 DEF Rename, AfterSave, RenamesWhole
  <2>3. EvidenceKept'
    BY <2>1 DEF EvidenceKept
  <2> QED BY <2>2, <2>3
<1>9. ASSUME NEW p \in Procs, SaveFails(p) PROVE IInv'
  <2>1. TypeOK' /\ RenamesWhole'
    BY <1>9 DEF SaveFails, AfterSave, RenamesWhole
  <2>2. EvidenceKept'
    BY <1>9 DEF SaveFails, AfterSave, EvidenceKept, Up
  <2> QED BY <2>1, <2>2
<1>10. ASSUME NEW img \in Foreign \cup {Missing}, PlaceFile(img) PROVE IInv'
  BY <1>10, ForeignType DEF PlaceFile, RenamesWhole, EvidenceKept, Up
<1>11. CASE UNCHANGED vars
  BY <1>11 DEF vars, RenamesWhole, EvidenceKept, Up
<1> QED
  BY <1>1, <1>2, <1>3, <1>4, <1>5, <1>6, <1>7, <1>8, <1>9, <1>10, <1>11 DEF Next

\* No crash, failing call or foreign file puts a torn image anywhere but in a
\* temp file, and every process stays in a state of its boot, save or exit.
THEOREM PersistenceTypeCorrect == Spec => []TypeOK
<1>1. IInv => TypeOK
  BY DEF IInv
<1> QED
  BY InitIInv, StepKeepsIInv, <1>1, PTL DEF Spec

\* Whatever is killed, fails or interferes, the path never holds a torn file
\* and every save renames the whole keyspace into place.
THEOREM SnapshotsWhole == Spec => [](TypeOK /\ RenamesWhole)
<1>1. IInv => TypeOK /\ RenamesWhole
  BY DEF IInv
<1> QED
  BY InitIInv, StepKeepsIInv, <1>1, PTL DEF Spec

\* A server at work finds an unreadable file at its path only if set_aside
\* failed, it is a seed, or the file came from outside after the boot.
THEOREM EvidenceKeptHolds == Spec => []EvidenceKept
<1>1. IInv => EvidenceKept
  BY DEF IInv
<1> QED
  BY InitIInv, StepKeepsIInv, <1>1, PTL DEF Spec

-----------------------------------------------------------------------------

\* Each step is one of the atomic store's, or changes nothing it shows.
LEMMA StepSimulation ==
    ASSUME IInv, [Next]_vars
    PROVE  [Store!SnapshotNext]_(Store!snapshotVars)
<1> USE DEF IInv, TypeOK, Statuses, Gone, Modes, Up
<1>1. ASSUME NEW p \in Procs, NEW mode \in Modes, Load(p, mode) PROVE Store!Start(p)
  <2>1. (IF file = Missing THEN {} ELSE file.body) \in SUBSET Keys
    BY DEF Images
  <2>2. p \notin Up /\ Up' = Up \cup {p}
    BY <1>1 DEF Load
  <2> QED BY <1>1, <2>1, <2>2 DEF Load, Store!Start
<1>2. ASSUME NEW p \in Procs, NEW mode \in Modes, LoadFails(p, mode) PROVE Store!Start(p)
  <2>1. \A ks \in Leftover(file) : ks \in SUBSET Keys
    BY <1>2 DEF LoadFails, Leftover, Images
  <2>2. p \notin Up /\ Up' = Up \cup {p}
    BY <1>2 DEF LoadFails
  <2> QED BY <1>2, <2>1, <2>2 DEF LoadFails, Store!Start
<1>3. ASSUME NEW p \in Procs, SetAside(p)
      PROVE  Store!SetAside(p) \/ UNCHANGED Store!snapshotVars
  <2>1. p \in Up /\ Up' = Up
    BY <1>3 DEF SetAside
  <2> QED BY <1>3, <2>1 DEF SetAside, Store!SetAside, Store!snapshotVars
<1>4. ASSUME NEW p \in Procs, Write(p) PROVE Store!Write(p)
  BY <1>4 DEF Write, Store!Write
<1>5. ASSUME NEW p \in Procs, NEW why \in {"save", "shutdown", "signal"}, BeginSave(p, why)
      PROVE  UNCHANGED Store!snapshotVars
  BY <1>5 DEF BeginSave, Store!snapshotVars
<1>6. ASSUME NEW p \in Procs, ExitSeeded(p) \/ ShutdownNoSave(p) \/ Crash(p)
      PROVE  Store!Stop(p)
  <2>1. p \in Up /\ Up' = Up \ {p}
    BY <1>6 DEF ExitSeeded, ShutdownNoSave, Crash
  <2> QED BY <1>6, <2>1 DEF ExitSeeded, ShutdownNoSave, Crash, Store!Stop
<1>7. ASSUME NEW p \in Procs, Create(p) \/ WriteImage(p)
      PROVE  UNCHANGED Store!snapshotVars
  BY <1>7 DEF Create, WriteImage, Store!snapshotVars
<1>8. ASSUME NEW p \in Procs, Rename(p) PROVE Store!Save(p)
  <2>1. file' = Store!Image(memory[p])
    BY <1>8 DEF Rename, RenamesWhole, Image, Store!Image
  <2>2. p \in Up /\ Up' \in {Up, Up \ {p}}
    BY <1>8 DEF Rename, AfterSave
  <2> QED BY <1>8, <2>1, <2>2 DEF Rename, Store!Save
<1>9. ASSUME NEW p \in Procs, SaveFails(p)
      PROVE  Store!Stop(p) \/ UNCHANGED Store!snapshotVars
  <2>1. p \in Up /\ Up' \in {Up, Up \ {p}}
    BY <1>9 DEF SaveFails, AfterSave
  <2> QED BY <1>9, <2>1 DEF SaveFails, Store!Stop, Store!snapshotVars
<1>10. ASSUME NEW img \in Foreign \cup {Missing}, PlaceFile(img) PROVE Store!Place(img)
  BY <1>10 DEF PlaceFile, Store!Place
<1>11. CASE UNCHANGED vars
  BY <1>11 DEF vars, Store!snapshotVars
<1> QED
  BY <1>1, <1>2, <1>3, <1>4, <1>5, <1>6, <1>7, <1>8, <1>9, <1>10, <1>11
  DEF Next, Store!SnapshotNext

\* The snapshot protocol implements the atomic store.
THEOREM Refinement == Spec => StoreSpec
<1>1. Init => Store!SnapshotInit
  BY DEF Init, Up, Gone, Store!SnapshotInit
<1> QED
  BY InitIInv, StepKeepsIInv, StepSimulation, <1>1, PTL DEF Spec, StoreSpec, Store!SnapshotSpec

-----------------------------------------------------------------------------

Saving == {"creating", "writing", "renaming"}

\* A process has a reason to save exactly while it saves.
ReasonInv == \A p \in Procs : reason[p] # "none" => status[p] \in Saving

LEMMA StepKeepsReason ==
    ASSUME IInv, ReasonInv, [Next]_vars
    PROVE  ReasonInv'
<1> USE DEF IInv, TypeOK, Gone, Modes, Saving, ReasonInv
<1>1. ASSUME NEW p \in Procs, NEW mode \in Modes,
             Load(p, mode) \/ LoadFails(p, mode) \/ SetAside(p) \/ Write(p)
      PROVE  ReasonInv'
  BY <1>1 DEF Load, LoadFails, SetAside, Write
<1>2. ASSUME NEW p \in Procs, NEW why \in {"save", "shutdown", "signal"}, BeginSave(p, why)
      PROVE  ReasonInv'
  BY <1>2 DEF BeginSave
<1>3. ASSUME NEW p \in Procs, ExitSeeded(p) \/ ShutdownNoSave(p) \/ Crash(p)
      PROVE  ReasonInv'
  BY <1>3 DEF ExitSeeded, ShutdownNoSave, Crash
<1>4. ASSUME NEW p \in Procs, Create(p) \/ WriteImage(p) \/ Rename(p) \/ SaveFails(p)
      PROVE  ReasonInv'
  BY <1>4 DEF Create, WriteImage, Rename, SaveFails, AfterSave
<1>5. ASSUME NEW img \in Foreign \cup {Missing}, PlaceFile(img) PROVE ReasonInv'
  BY <1>5 DEF PlaceFile
<1>6. CASE UNCHANGED vars
  BY <1>6 DEF vars
<1> QED
  BY <1>1, <1>2, <1>3, <1>4, <1>5, <1>6 DEF Next

\* A process that ends by itself while it serves a SHUTDOWN has just renamed its
\* whole keyspace into place.
LEMMA StepLosesNothing ==
    ASSUME IInv, ReasonInv, [Next]_vars,
           NEW p \in Procs, reason[p] = "shutdown", status'[p] = "down"
    PROVE  file' = Image(memory[p])
<1> USE DEF IInv, TypeOK, Gone, Modes, Saving, ReasonInv
<1>1. ASSUME NEW x \in Procs, NEW mode \in Modes,
             Load(x, mode) \/ LoadFails(x, mode) \/ SetAside(x) \/ Write(x)
      PROVE  FALSE
  BY <1>1 DEF Load, LoadFails, SetAside, Write
<1>2. ASSUME NEW x \in Procs, NEW why \in {"save", "shutdown", "signal"}, BeginSave(x, why)
      PROVE  FALSE
  BY <1>2 DEF BeginSave
<1>3. ASSUME NEW x \in Procs, ExitSeeded(x) \/ ShutdownNoSave(x) \/ Crash(x) PROVE FALSE
  BY <1>3 DEF ExitSeeded, ShutdownNoSave, Crash
<1>4. ASSUME NEW x \in Procs, Create(x) \/ WriteImage(x) \/ SaveFails(x) PROVE FALSE
  BY <1>4 DEF Create, WriteImage, SaveFails, AfterSave
<1>5. ASSUME NEW x \in Procs, Rename(x) PROVE file' = Image(memory[p])
  BY <1>5 DEF Rename, AfterSave, RenamesWhole
<1>6. ASSUME NEW img \in Foreign \cup {Missing}, PlaceFile(img) PROVE FALSE
  BY <1>6 DEF PlaceFile
<1>7. CASE UNCHANGED vars
  BY <1>7 DEF vars
<1> QED
  BY <1>1, <1>2, <1>3, <1>4, <1>5, <1>6, <1>7 DEF Next

\* SHUTDOWN without NOSAVE ends the process only with the whole keyspace in the
\* file, whichever of its file system calls fail on the way.
THEOREM ShutdownLosesNothingHolds == Spec => ShutdownLosesNothing
<1>1. Init => ReasonInv
  BY DEF Init, ReasonInv
<1>2. IInv /\ ReasonInv /\ [Next]_vars =>
        [\A p \in Procs : reason[p] = "shutdown" /\ status'[p] = "down"
            => file' = Image(memory[p])]_vars
  BY StepLosesNothing
<1> QED
  BY InitIInv, StepKeepsIInv, StepKeepsReason, <1>1, <1>2, PTL
  DEF Spec, ShutdownLosesNothing

-----------------------------------------------------------------------------

\* What one step may do to a seeded process and to its files.
SeedStep(p) ==
    /\ status[p] = "seeded" => status'[p] \in {"seeded"} \cup Gone
    /\ "seeded" \in {status[p], status'[p]} =>
        /\ UNCHANGED <<tmp[p], aside[p]>>
        /\ <<status[p], memory[p]>>' # <<status[p], memory[p]>> => UNCHANGED file

LEMMA StepLeavesSeed ==
    ASSUME IInv, [Next]_vars, NEW p \in Procs
    PROVE  SeedStep(p)
<1> USE DEF IInv, TypeOK, Statuses, Gone, Modes, SeedStep
<1>1. ASSUME NEW x \in Procs, NEW mode \in Modes,
             Load(x, mode) \/ LoadFails(x, mode) \/ Write(x)
      PROVE  SeedStep(p)
  BY <1>1 DEF Load, LoadFails, Write
<1>2. ASSUME NEW x \in Procs, SetAside(x) PROVE SeedStep(p)
  BY <1>2 DEF SetAside
<1>3. ASSUME NEW x \in Procs, NEW why \in {"save", "shutdown", "signal"}, BeginSave(x, why)
      PROVE  SeedStep(p)
  BY <1>3 DEF BeginSave
<1>4. ASSUME NEW x \in Procs, ExitSeeded(x) \/ ShutdownNoSave(x) \/ Crash(x)
      PROVE  SeedStep(p)
  BY <1>4 DEF ExitSeeded, ShutdownNoSave, Crash
<1>5. ASSUME NEW x \in Procs, Create(x) \/ WriteImage(x) PROVE SeedStep(p)
  BY <1>5 DEF Create, WriteImage
<1>6. ASSUME NEW x \in Procs, Rename(x) \/ SaveFails(x) PROVE SeedStep(p)
  BY <1>6 DEF Rename, SaveFails, AfterSave
<1>7. ASSUME NEW img \in Foreign \cup {Missing}, PlaceFile(img) PROVE SeedStep(p)
  BY <1>7 DEF PlaceFile
<1>8. CASE UNCHANGED vars
  BY <1>8 DEF vars
<1> QED
  BY <1>1, <1>2, <1>3, <1>4, <1>5, <1>6, <1>7, <1>8 DEF Next

\* A process booted with --seed writes neither the file nor anything beside it.
THEOREM SeedUntouchedHolds == Spec => SeedUntouched
<1>1. IInv /\ [Next]_vars => [\A p \in Procs : SeedStep(p)]_vars
  BY StepLeavesSeed
<1> QED
  BY InitIInv, StepKeepsIInv, <1>1, PTL DEF Spec, SeedUntouched, SeedStep

-----------------------------------------------------------------------------

LEMMA StepStops ==
    ASSUME IInv, ReasonInv, [Next]_vars, NEW p \in Procs, reason[p] = "signal"
    PROVE  reason'[p] = "signal" \/ status'[p] \in Gone
<1> USE DEF IInv, TypeOK, Gone, Modes, Saving, ReasonInv
<1>1. ASSUME NEW x \in Procs, NEW mode \in Modes,
             Load(x, mode) \/ LoadFails(x, mode) \/ SetAside(x) \/ Write(x)
      PROVE  reason'[p] = "signal"
  BY <1>1 DEF Load, LoadFails, SetAside, Write
<1>2. ASSUME NEW x \in Procs, NEW why \in {"save", "shutdown", "signal"}, BeginSave(x, why)
      PROVE  reason'[p] = "signal"
  BY <1>2 DEF BeginSave
<1>3. ASSUME NEW x \in Procs, ExitSeeded(x) \/ ShutdownNoSave(x) \/ Crash(x)
      PROVE  reason'[p] = "signal" \/ status'[p] \in Gone
  BY <1>3 DEF ExitSeeded, ShutdownNoSave, Crash
<1>4. ASSUME NEW x \in Procs, Create(x) \/ WriteImage(x) PROVE reason'[p] = "signal"
  BY <1>4 DEF Create, WriteImage
<1>5. ASSUME NEW x \in Procs, Rename(x) \/ SaveFails(x)
      PROVE  reason'[p] = "signal" \/ status'[p] \in Gone
  BY <1>5 DEF Rename, SaveFails, AfterSave
<1>6. ASSUME NEW img \in Foreign \cup {Missing}, PlaceFile(img) PROVE reason'[p] = "signal"
  BY <1>6 DEF PlaceFile
<1>7. CASE UNCHANGED vars
  BY <1>7 DEF vars
<1> QED
  BY <1>1, <1>2, <1>3, <1>4, <1>5, <1>6, <1>7 DEF Next

\* A process told to stop by a signal never serves again, whichever of the calls
\* of its save fail.
THEOREM SignalStopsHolds == Spec => SignalStops
<1>1. Init => ReasonInv
  BY DEF Init, ReasonInv
<1>2. IInv /\ ReasonInv /\ [Next]_vars =>
        [\A p \in Procs : reason[p] = "signal" =>
            reason'[p] = "signal" \/ status'[p] \in Gone]_vars
  BY StepStops
<1> QED
  BY InitIInv, StepKeepsIInv, StepKeepsReason, <1>1, <1>2, PTL DEF Spec, SignalStops

=============================================================================
