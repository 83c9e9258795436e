------------------------ MODULE ManagedAppTypeProofs ------------------------
(***************************************************************************)
(* Proofs about ManagedApp, for every set of versions and of nonces, every *)
(* number of deploys, every Keep, and whichever calls may fail: its types, *)
(* and who is at which step with which locals.                             *)
(***************************************************************************)
EXTENDS ManagedApp, TLAPS

-----------------------------------------------------------------------------
(* Who holds the lock, and what it knows of its own job. *)

\* Steps only one kind of holder of the lock takes.
DeploySteps == {"settle_sweep", "accept", "fetch", "pre_sweep", "pre_start",
                "migrating", "soak", "drain", "final_sweep", "gc", "cleanup",
                "record", "clear"}
RecoverySteps == {"reattach", "adopt", "recover_sweep"}
WatchdogSteps == {"wd_sweep", "wd_stop"}
SettleSteps == {"settle", "settle_record", "settle_clear"}

\* Steps at which the launched instance has its nonce.
NamedSteps == {"pre_sweep", "pre_start", "migrating", "start_sweep", "start",
               "soak", "swap", "route", "persist", "drain", "final_sweep", "gc"}

UnnamedSteps == {"settle_sweep", "accept", "fetch", "prepare", "reattach",
                 "wd_sweep", "wd_stop"}
UnstartedSteps == {"pre_sweep", "pre_start", "start_sweep", "start"}

\* Who holds the lock at which step, and which of its locals are set there.
JobShape ==
    /\ pc = "free" => who = "nobody" /\ old = None
    /\ pc # "free" => who # "nobody"
    /\ pc \in DeploySteps => who = "deploy"
    /\ pc \in RecoverySteps => who = "recover"
    /\ pc \in WatchdogSteps => who = "watchdog"
    /\ pc \in SettleSteps => who # "watchdog"
    /\ who = "deploy" \/ pc \in NamedSteps \cup {"prepare"} => target \in Versions
    /\ pc \in NamedSteps => new \in Nonces
    /\ who = "watchdog" => old \in Instances /\ target = old.version
    /\ notes # {} => who = "deploy"
    /\ pc = "settle_record" => marker # None
    /\ pc = "reattach" => stateFile # None /\ target = stateFile.version
    /\ pc = "adopt" => current # None /\ target \in Versions
    /\ pc \in UnnamedSteps \/ (who = "deploy" /\ pc \in SettleSteps) => new = None

-----------------------------------------------------------------------------
(* Types. *)

\* The launched instance and its units are well formed once it has its nonce.
LEMMA LaunchType ==
  ASSUME TypeOK, JobShape, pc \in NamedSteps
  PROVE  /\ Launch \in Instances /\ target \in Versions /\ new \in Nonces
         /\ AppUnit(Launch) \in Units /\ PreUnit(Launch) \in Units
  BY DEF JobShape, Launch, Inst, Instances, AppUnit, PreUnit, Units

\* Writing a record (recordDeploy), with the pruning that follows, leaves a
\* map of records.
LEMMA RecordType ==
  ASSUME TypeOK, NEW v \in Versions, NEW s \in Nat, NEW f \in BOOLEAN,
         WriteRecord(v, s, f)
  PROVE  records' \in [Versions -> Records \cup {None}]
<1>1. [started |-> s, failed |-> f] \in Records
  BY DEF Records
<1>2. [records EXCEPT ![v] = [started |-> s, failed |-> f]] \in [Versions -> Records \cup {None}]
  BY <1>1 DEF TypeOK
<1> QED
  BY <1>2, Zenon DEF WriteRecord, Pruned, TypeOK

\* The record a deploy leaves at its end is one of its own version.
LEMMA RecordDeployType ==
  ASSUME TypeOK, JobShape, RecordDeploy
  PROVE  records' \in [Versions -> Records \cup {None}]
<1>1. target \in Versions
  BY DEF RecordDeploy, JobShape, DeploySteps
<1>2. CASE "unrecorded" \in notes
  BY <1>2 DEF RecordDeploy, TypeOK
<1>3. CASE "unrecorded" \notin notes
  <2> DEFINE f == "failed" \in notes
  <2>1. f \in BOOLEAN
    OBVIOUS
  <2>2. WriteRecord(target, clock, f)
    BY <1>3 DEF RecordDeploy
  <2>3. clock \in Nat
    BY DEF TypeOK
  <2> HIDE DEF f
  <2> QED
    BY <1>1, <2>1, <2>2, <2>3, RecordType
<1> QED
  BY <1>2, <1>3

\* The initial state is well typed, and nobody holds the lock in it.
LEMMA TypeInit ==
  ASSUME Init
  PROVE  TypeOK /\ JobShape
<1>1. units \subseteq Units /\ releases \subseteq Versions
  BY DEF Init
<1>2. stateFile \in Instances \cup {None} /\ marker \in Markers \cup {None}
  BY DEF Init
<1>3. records \in [Versions -> Records \cup {None}]
  BY DEF Init
<1>4. socks \subseteq Nonces /\ up \in BOOLEAN
  BY Zenon DEF Init
<1>5. current \in Instances \cup {None} /\ active \in Nonces \cup {None} /\ exited \subseteq Nonces
  BY DEF Init
<1>6. recovering \in BOOLEAN /\ verdict \in Verdicts \cup {None}
  BY Zenon DEF Init
<1>7. pc \in Steps /\ clock \in Nat
  BY DEF Init, Steps
<1>8. /\ who \in {"nobody", "deploy", "recover", "watchdog"}
      /\ target \in Versions \cup {None} /\ old \in Instances \cup {None}
  BY DEF Init
<1>9. /\ new \in Nonces \cup {None} /\ notes \subseteq Notes
      /\ gated \subseteq Versions /\ left \subseteq Versions
  BY DEF Init
<1>10. TypeOK
  BY <1>1, <1>2, <1>3, <1>4, <1>5, <1>6, <1>7, <1>8, <1>9 DEF TypeOK
<1>11. JobShape
  BY DEF Init, JobShape, DeploySteps, RecoverySteps, WatchdogSteps, SettleSteps, NamedSteps,
         UnnamedSteps
<1> QED
  BY <1>10, <1>11

\* Every step keeps the types.
LEMMA TypeStep ==
  ASSUME TypeOK, JobShape, [Next]_vars
  PROVE  TypeOK'
<1> USE DEF TypeOK, Steps, disk, memory, locals, history
<1>1. CASE AdmitStep
  <2>1. CASE SettleSweep
    BY <2>1 DEF SettleSweep, SweepConfirmed, SweepUnconfirmed, UnitsUnconfirmed, Goto, Unlock
  <2>2. CASE Settle
    BY <2>2 DEF Settle, Goto, Markers
  <2>3. CASE SettleRecord
    <3>1. marker.version \in Versions /\ marker.started \in Nat
      BY <2>3 DEF SettleRecord, JobShape, Markers
    <3>2. records' \in [Versions -> Records \cup {None}]
      BY <2>3, <3>1, RecordType, Zenon DEF SettleRecord
    <3> QED
      BY <2>3, <3>1, <3>2 DEF SettleRecord, Goto
  <2>4. CASE SettleClear
    <3>1. marker' \in Markers \cup {None}
      BY <2>4 DEF SettleClear, ClearMarker
    <3>2. CASE who = "deploy"
      BY <2>4, <3>1, <3>2 DEF SettleClear, Goto
    <3>3. CASE who # "deploy"
      BY <2>4, <3>1, <3>3, Zenon DEF SettleClear, Unlock
    <3> QED
      BY <3>2, <3>3
  <2>5. CASE Refuse
    BY <2>5 DEF Refuse, Unlock
  <2>6. CASE Accept
    <3>1. target \in Versions
      BY <2>6 DEF Accept, JobShape, DeploySteps
    <3>2. marker' \in Markers \cup {None}
      BY <2>6, <3>1 DEF Accept, Markers
    <3>3. notes' \subseteq Notes
      BY <2>6 DEF Accept, Goto, FailTo, Notes
    <3> QED
      BY <2>6, <3>1, <3>2, <3>3 DEF Accept, Goto, FailTo
  <2>7. CASE Fetch
    BY <2>7 DEF Fetch, Goto, FailTo, JobShape, DeploySteps, Notes
  <2> HIDE DEF TypeOK, Steps, disk, memory, locals, history
  <2> QED
    BY <1>1, <2>1, <2>2, <2>3, <2>4, <2>5, <2>6, <2>7 DEF AdmitStep
<1>2. CASE LaunchStep
  <2>1. CASE Prepare
    BY <2>1 DEF Prepare
  <2>2. CASE PrepareFailed
    BY <2>2 DEF PrepareFailed, RelaunchFailed, FailTo, Unlock, Notes
  <2>3. CASE PreSweep
    <3>1. notes' \subseteq Notes
      BY <2>3, Zenon DEF PreSweep, Goto, FailTo, Notes
    <3>2. units' \subseteq Units
      BY <2>3 DEF PreSweep, SweepUnconfirmed, UnitsUnconfirmed, SweepConfirmed, Goto, FailTo
    <3> QED
      BY <2>3, <3>1, <3>2
         DEF PreSweep, SweepConfirmed, SweepUnconfirmed, UnitsUnconfirmed, Goto, FailTo
  <2>4. CASE RunPreStart
    <3>1. notes' \subseteq Notes
      BY <2>4, Zenon DEF RunPreStart, Goto, FailTo, Notes
    <3>2. units' \subseteq Units
      BY <2>4, LaunchType DEF RunPreStart, NamedSteps
    <3> QED
      BY <2>4, <3>1, <3>2 DEF RunPreStart, Goto, FailTo
  <2>5. CASE Migrated
    <3>1. notes' \subseteq Notes
      BY <2>5, Zenon DEF Migrated, Goto, FailTo, Notes
    <3>2. units' \subseteq Units
      BY <2>5 DEF Migrated, Goto, FailTo
    <3> QED
      BY <2>5, <3>1, <3>2 DEF Migrated, Goto, FailTo
  <2>6. CASE StartSweep
    BY <2>6
       DEF StartSweep, SweepConfirmed, SweepUnconfirmed, UnitsUnconfirmed, RelaunchFailed,
           Goto, FailTo, Unlock, Notes
  <2>7. CASE Start
    BY <2>7, LaunchType DEF Start, Goto, NamedSteps
  <2>8. CASE StartFailed
    BY <2>8, LaunchType DEF StartFailed, RelaunchFailed, FailTo, Unlock, NamedSteps, Notes
  <2>9. CASE RelaunchRefused
    BY <2>9, Zenon DEF RelaunchRefused, Unlock
  <2>10. CASE Soak
    BY <2>10, LaunchType
       DEF Soak, StopConfirmed, StopUnconfirmed, Goto, FailTo, NamedSteps, Inst, Launch,
           JobShape, Notes
  <2> HIDE DEF TypeOK, Steps, disk, memory, locals, history
  <2> QED
    BY <1>2, <2>1, <2>2, <2>3, <2>4, <2>5, <2>6, <2>7, <2>8, <2>9, <2>10 DEF LaunchStep
<1>3. CASE CutoverStep
  <2>1. CASE Swap
    BY <2>1, LaunchType DEF Swap, Goto, NamedSteps
  <2>2. CASE Route
    BY <2>2 DEF Route, Goto, JobShape, NamedSteps
  <2>3. CASE Persist
    BY <2>3, LaunchType DEF Persist, Goto, Unlock, NamedSteps
  <2>4. CASE Drain
    BY <2>4 DEF Drain, StopConfirmed, StopUnconfirmed, Goto, Instances, Alive
  <2>5. CASE FinalSweep
    BY <2>5 DEF FinalSweep, SweepConfirmed, SweepUnconfirmed, UnitsUnconfirmed, Goto
  <2>6. CASE CollectReleases
    BY <2>6 DEF CollectReleases, Goto
  <2>7. CASE Cleanup
    BY <2>7 DEF Cleanup, Goto, JobShape, DeploySteps
  <2>8. CASE RecordDeploy
    BY <2>8, RecordDeployType DEF RecordDeploy, Goto
  <2>9. CASE EndDeploy
    BY <2>9 DEF EndDeploy, ClearMarker, Unlock
  <2> HIDE DEF TypeOK, Steps, disk, memory, locals, history
  <2> QED
    BY <1>3, <2>1, <2>2, <2>3, <2>4, <2>5, <2>6, <2>7, <2>8, <2>9 DEF CutoverStep
<1>4. CASE RecoveryStep
  <2>1. CASE BeginRecovery
    <3>1. target' \in Versions \cup {None}
      BY <2>1, Zenon DEF BeginRecovery, Instances
    <3>2. old' \in Instances \cup {None}
      BY <2>1, Zenon DEF BeginRecovery
    <3>3. pc' \in Steps /\ who' \in {"nobody", "deploy", "recover", "watchdog"}
      BY <2>1, Zenon DEF BeginRecovery
    <3>4. new' \in Nonces \cup {None} /\ notes' \subseteq Notes /\ recovering' \in BOOLEAN
      BY <2>1, Zenon DEF BeginRecovery
    <3> QED
      BY <2>1, <3>1, <3>2, <3>3, <3>4 DEF BeginRecovery
  <2>2. CASE Reattach
    BY <2>2 DEF Reattach, Goto, JobShape
  <2>3. CASE Adopt
    BY <2>3 DEF Adopt, Goto, JobShape, Instances
  <2>4. CASE NotAttached
    BY <2>4 DEF NotAttached, Goto
  <2>5. CASE ReattachUnreadable
    BY <2>5 DEF ReattachUnreadable, Unlock
  <2>6. CASE RecoverSweep
    BY <2>6
       DEF RecoverSweep, SweepConfirmed, SweepUnconfirmed, UnitsUnconfirmed, Goto, Unlock
  <2> HIDE DEF TypeOK, Steps, disk, memory, locals, history
  <2> QED
    BY <1>4, <2>1, <2>2, <2>3, <2>4, <2>5, <2>6 DEF RecoveryStep
<1>5. CASE WatchdogStep
  <2>1. CASE WatchdogUnroutes
    BY <2>1 DEF WatchdogUnroutes, Verdicts
  <2>2. CASE WatchdogStandsDown
    BY <2>2 DEF WatchdogStandsDown
  <2>3. CASE WatchdogLocks
    BY <2>3 DEF WatchdogLocks, Verdicts, Instances
  <2>4. CASE WatchdogSweep
    BY <2>4
       DEF WatchdogSweep, SweepConfirmed, SweepUnconfirmed, UnitsUnconfirmed, Goto, Unlock
  <2>5. CASE WatchdogStop
    BY <2>5 DEF WatchdogStop, StopConfirmed, Goto, Unlock, JobShape, WatchdogSteps, Instances
  <2> HIDE DEF TypeOK, Steps, disk, memory, locals, history
  <2> QED
    BY <1>5, <2>1, <2>2, <2>3, <2>4, <2>5 DEF WatchdogStep
<1>6. CASE WatchdogNotices
  BY <1>6 DEF WatchdogNotices, Verdicts
<1>7. CASE UnitExits
  BY <1>7 DEF UnitExits
<1>8. CASE ExitObserved
  BY <1>8 DEF ExitObserved, Instances, Launch, Inst, JobShape, NamedSteps
<1>9. CASE OrphanMigrationEnds
  BY <1>9 DEF OrphanMigrationEnds
<1>10. CASE MotelStops
  BY <1>10, Zenon DEF MotelStops
<1>11. CASE MotelStarts
  BY <1>11 DEF MotelStarts
<1>12. CASE Reload
  BY <1>12 DEF Reload
<1>13. CASE \E v \in Versions, rollback \in BOOLEAN : BeginDeploy(v, rollback)
  BY <1>13 DEF BeginDeploy, Notes
<1>14. CASE UNCHANGED vars
  BY <1>14 DEF vars
<1> HIDE DEF TypeOK, Steps, disk, memory, locals, history
<1> QED
  BY <1>1, <1>2, <1>3, <1>4, <1>5, <1>6, <1>7, <1>8, <1>9, <1>10, <1>11, <1>12, <1>13, <1>14
     DEF Next, DeployStep

\* Every step leaves the lock's holder at a step of its own, with its locals
\* set.
LEMMA ShapeStep ==
  ASSUME TypeOK, JobShape, [Next]_vars
  PROVE  JobShape'
<1> USE DEF JobShape, disk, memory, locals, history, DeploySteps, RecoverySteps,
      WatchdogSteps, SettleSteps, NamedSteps, UnnamedSteps
<1>1. CASE AdmitStep
  <2>1. CASE SettleSweep
    BY <2>1 DEF SettleSweep, SweepConfirmed, SweepUnconfirmed, UnitsUnconfirmed, Goto, Unlock
  <2>2. CASE Settle
    BY <2>2 DEF Settle, Goto
  <2>3. CASE SettleRecord
    BY <2>3 DEF SettleRecord, Goto
  <2>4. CASE SettleClear
    BY <2>4 DEF SettleClear, ClearMarker, Goto, Unlock
  <2>5. CASE Refuse
    BY <2>5 DEF Refuse, Unlock
  <2>6. CASE Accept
    BY <2>6 DEF Accept, Goto, FailTo
  <2>7. CASE Fetch
    BY <2>7 DEF Fetch, Goto, FailTo
  <2> HIDE DEF JobShape, disk, memory, locals, history, DeploySteps, RecoverySteps,
        WatchdogSteps, SettleSteps, NamedSteps, UnnamedSteps
  <2> QED
    BY <1>1, <2>1, <2>2, <2>3, <2>4, <2>5, <2>6, <2>7 DEF AdmitStep
<1>2. CASE LaunchStep
  <2>1. CASE Prepare
    BY <2>1 DEF Prepare
  <2>2. CASE PrepareFailed
    BY <2>2 DEF PrepareFailed, RelaunchFailed, FailTo, Unlock
  <2>3. CASE PreSweep
    BY <2>3 DEF PreSweep, SweepConfirmed, SweepUnconfirmed, UnitsUnconfirmed, Goto, FailTo
  <2>4. CASE RunPreStart
    BY <2>4 DEF RunPreStart, Goto, FailTo
  <2>5. CASE Migrated
    BY <2>5 DEF Migrated, Goto, FailTo
  <2>6. CASE StartSweep
    BY <2>6
       DEF StartSweep, SweepConfirmed, SweepUnconfirmed, UnitsUnconfirmed, RelaunchFailed,
           Goto, FailTo, Unlock
  <2>7. CASE Start
    BY <2>7 DEF Start, Goto
  <2>8. CASE StartFailed
    BY <2>8 DEF StartFailed, RelaunchFailed, FailTo, Unlock
  <2>9. CASE RelaunchRefused
    BY <2>9 DEF RelaunchRefused, Unlock
  <2>10. CASE Soak
    BY <2>10 DEF Soak, StopConfirmed, StopUnconfirmed, Goto, FailTo
  <2> HIDE DEF JobShape, disk, memory, locals, history, DeploySteps, RecoverySteps,
        WatchdogSteps, SettleSteps, NamedSteps, UnnamedSteps
  <2> QED
    BY <1>2, <2>1, <2>2, <2>3, <2>4, <2>5, <2>6, <2>7, <2>8, <2>9, <2>10 DEF LaunchStep
<1>3. CASE CutoverStep
  <2>1. CASE Swap
    BY <2>1 DEF Swap, Goto
  <2>2. CASE Route
    BY <2>2 DEF Route, Goto
  <2>3. CASE Persist
    BY <2>3 DEF Persist, Goto, Unlock
  <2>4. CASE Drain
    BY <2>4 DEF Drain, StopConfirmed, StopUnconfirmed, Goto
  <2>5. CASE FinalSweep
    BY <2>5 DEF FinalSweep, SweepConfirmed, SweepUnconfirmed, UnitsUnconfirmed, Goto
  <2>6. CASE CollectReleases
    BY <2>6 DEF CollectReleases, Goto
  <2>7. CASE Cleanup
    BY <2>7 DEF Cleanup, Goto
  <2>8. CASE RecordDeploy
    BY <2>8 DEF RecordDeploy, Goto
  <2>9. CASE EndDeploy
    BY <2>9 DEF EndDeploy, ClearMarker, Unlock
  <2> HIDE DEF JobShape, disk, memory, locals, history, DeploySteps, RecoverySteps,
        WatchdogSteps, SettleSteps, NamedSteps, UnnamedSteps
  <2> QED
    BY <1>3, <2>1, <2>2, <2>3, <2>4, <2>5, <2>6, <2>7, <2>8, <2>9 DEF CutoverStep
<1>4. CASE RecoveryStep
  <2>1. CASE BeginRecovery
    BY <2>1, Zenon DEF BeginRecovery
  <2>2. CASE Reattach
    BY <2>2 DEF Reattach, Running, Goto, TypeOK, Instances
  <2>3. CASE Adopt
    BY <2>3 DEF Adopt, Goto
  <2>4. CASE NotAttached
    BY <2>4 DEF NotAttached, Goto, TypeOK, Instances
  <2>5. CASE ReattachUnreadable
    BY <2>5 DEF ReattachUnreadable, Unlock
  <2>6. CASE RecoverSweep
    BY <2>6
       DEF RecoverSweep, SweepConfirmed, SweepUnconfirmed, UnitsUnconfirmed, Goto, Unlock
  <2> HIDE DEF JobShape, disk, memory, locals, history, DeploySteps, RecoverySteps,
        WatchdogSteps, SettleSteps, NamedSteps, UnnamedSteps
  <2> QED
    BY <1>4, <2>1, <2>2, <2>3, <2>4, <2>5, <2>6 DEF RecoveryStep
<1>5. CASE WatchdogStep
  <2>1. CASE WatchdogUnroutes
    BY <2>1 DEF WatchdogUnroutes
  <2>2. CASE WatchdogStandsDown
    BY <2>2 DEF WatchdogStandsDown
  <2>3. CASE WatchdogLocks
    BY <2>3 DEF WatchdogLocks, TypeOK, Verdicts, Instances
  <2>4. CASE WatchdogSweep
    BY <2>4
       DEF WatchdogSweep, SweepConfirmed, SweepUnconfirmed, UnitsUnconfirmed, Goto, Unlock
  <2>5. CASE WatchdogStop
    BY <2>5 DEF WatchdogStop, StopConfirmed, Goto, Unlock, Instances
  <2> HIDE DEF JobShape, disk, memory, locals, history, DeploySteps, RecoverySteps,
        WatchdogSteps, SettleSteps, NamedSteps, UnnamedSteps
  <2> QED
    BY <1>5, <2>1, <2>2, <2>3, <2>4, <2>5 DEF WatchdogStep
<1>6. CASE WatchdogNotices
  BY <1>6 DEF WatchdogNotices
<1>7. CASE UnitExits
  BY <1>7 DEF UnitExits
<1>8. CASE ExitObserved
  BY <1>8 DEF ExitObserved
<1>9. CASE OrphanMigrationEnds
  BY <1>9 DEF OrphanMigrationEnds
<1>10. CASE MotelStops
  BY <1>10 DEF MotelStops
<1>11. CASE MotelStarts
  BY <1>11 DEF MotelStarts
<1>12. CASE Reload
  BY <1>12 DEF Reload
<1>13. CASE \E v \in Versions, rollback \in BOOLEAN : BeginDeploy(v, rollback)
  BY <1>13 DEF BeginDeploy
<1>14. CASE UNCHANGED vars
  BY <1>14 DEF vars
<1> HIDE DEF JobShape, disk, memory, locals, history, DeploySteps, RecoverySteps,
      WatchdogSteps, SettleSteps, NamedSteps, UnnamedSteps
<1> QED
  BY <1>1, <1>2, <1>3, <1>4, <1>5, <1>6, <1>7, <1>8, <1>9, <1>10, <1>11, <1>12, <1>13, <1>14
     DEF Next, DeployStep

-----------------------------------------------------------------------------
(* The theorem. *)

\* The variables always hold values of their types.
THEOREM TypeCorrect == Spec => []TypeOK
<1>1. Init => TypeOK /\ JobShape
  BY TypeInit
<1>2. TypeOK /\ JobShape /\ [Next]_vars => (TypeOK /\ JobShape)'
  BY TypeStep, ShapeStep
<1> QED
  BY <1>1, <1>2, PTL DEF Spec
=============================================================================
